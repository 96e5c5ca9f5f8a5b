---------------------------- MODULE BinLogProofs ----------------------------
(***************************************************************************)
(* Proofs about BinLog: for any number of tasks, processes, connections    *)
(* and programs, any PIPE_BUF and any sizes of records.                    *)
(*                                                                         *)
(* Four inductive invariants, each with a step per action.  AInv: what     *)
(* list of steps a task can have left, what its buffer holds at each of    *)
(* them, and that socket() finds a descriptor and a connection.  BInv: how *)
(* far logd_init() has come and where the descriptors of a process lead    *)
(* meanwhile.  CInv: where the bytes of each record are.  DInv: the order  *)
(* in which a task comes to use its connections.                           *)
(***************************************************************************)
EXTENDS BinLog, FiniteSetTheorems, SequenceTheorems, WellFoundedInduction, TLAPS

-----------------------------------------------------------------------------
(* The lists of steps *)

(* What is left of vfd_init(), or of start_routine_wrapper(), from each of *)
(* the steps of logd_init() on.                                            *)
Socket == logd_init \o <<log(CtlSize)>>
Connect == Tail(Socket)
Dup2 == Tail(Connect)
Close == Tail(Dup2)
NewFd == Tail(Close)
Ctx == Tail(NewFd)

Starts(q) == q \in {Socket, Connect, Dup2, Close, NewFd, Ctx}

AfterFlush == {"append", "fork", "exec", "end", "close", "die"}

(* A list in which these steps come after a flush. *)
Ordered(q) ==
  \A i \in 2..Len(q) : q[i][1] \in AfterFlush => q[i-1][1] \in {"flush", "close"}

(* What is left of a call that returns, ... *)
Plain(g, q) ==
  /\ Ordered(q)
  /\ \A i \in 1..Len(q) :
       /\ q[i][1] \in {"log", "append", "flush", "fork", "spawn", "exec", "end"}
       /\ q[i][1] \in {"log", "append"} => q[i][2] \in g.sizes \cup {CtlSize}
       /\ q[i][1] = "append" => q[i][2] <= PIPE_BUF
       /\ q[i][1] = "spawn" => g.threads

(* ... and of one that does not. *)
Exits(q) ==
  /\ Ordered(q) /\ q # << >> /\ q[Len(q)][1] = "die"
  /\ \A i \in 1..Len(q)-1 :
       /\ q[i][1] \in {"log", "append", "flush", "close"}
       /\ q[i][1] \in {"log", "append"} => q[i][2] = CtlSize
       /\ q[i][1] = "close" => i = Len(q) - 1

IsList(g, q) == Plain(g, q) \/ Exits(q) \/ Starts(q)

-----------------------------------------------------------------------------
(* Types, and what the state of a task is in each of its steps. *)

Types ==
  /\ prog \in Programs
  /\ proc \in [Tasks -> Procs \cup {None}]
  /\ todo \in [Tasks -> Seq(Step)]
  /\ lb \in [Tasks -> Seq(Byte)]
  /\ start \in [Tasks -> Nat]
  /\ nrec \in [Tasks -> Nat]
  /\ ctxfd \in [Tasks -> Fds \cup {-1}]
  /\ newfd \in [Tasks -> {LOGD_FD, -1}]
  /\ state \in [Tasks -> {"idle", "live", "ended"}]
  /\ logfd \in [Procs -> Fds \cup {-1}]
  /\ fdtab \in [Procs -> [Fds -> Conns \cup {None}]]
  /\ fate \in [Procs -> {"running", "asked", "fatal"}]
  /\ up \subseteq Conns
  /\ wire \in [Conns -> Seq(Byte)]
  /\ parent \in [Tasks -> (Tasks \cup {None}) \X Nat]

(* After a flush the buffer is empty. *)
Listed(t) ==
  /\ IsList(prog, todo[t])
  /\ Starts(todo[t]) \/ (todo[t] # << >> /\ todo[t][1][1] \in AfterFlush) => lb[t] = << >>
  /\ start[t] # 0 => todo[t] # << >> /\ todo[t][1][1] = "flush"

Task(t) ==
  /\ Len(lb[t]) <= PIPE_BUF /\ start[t] <= Len(lb[t])
  /\ state[t] = "idle" => /\ todo[t] = << >> /\ lb[t] = << >> /\ nrec[t] = 0 /\ proc[t] = None
  /\ state[t] # "idle" => proc[t] \in Procs
  /\ state[t] = "live" => Listed(t)

(* There is a connection left for each thread that is about to make one. *)
Claims == {u \in Tasks : state[u] = "live" /\ todo[u] = Socket}
Room == Cardinality(Made) + Cardinality(Claims) <= prog.conns

(* The descriptors of a process are those of different connections, but    *)
(* for LOGD_FD.                                                            *)
Descriptors ==
  \A p \in Procs : \A f, g \in Fds \ {LOGD_FD} :
    f # g /\ fdtab[p][f] # None => fdtab[p][f] # fdtab[p][g]

AInv == Types /\ (\A t \in Tasks : Task(t)) /\ Room /\ Descriptors

-----------------------------------------------------------------------------
(* Processes *)

Mates(t) == {u \in Tasks : proc[u] = proc[t] /\ state[u] = "live"}

(* Threads do not start or exit at once. *)
Tidy == ~prog.overlap \/ ~prog.threads

(* How far logd_init() has come. *)
Phase(t) ==
  LET p == proc[t] IN
  /\ todo[t] = Connect =>
       /\ logfd[p] \in Fds \ {LOGD_FD} /\ fdtab[p][logfd[p]] \in Conns \ up
       /\ \A q \in Procs, f \in Fds : fdtab[q][f] = fdtab[p][logfd[p]] => q = p /\ f = logfd[p]
  /\ todo[t] = Dup2 => logfd[p] \in Fds \ {LOGD_FD} /\ fdtab[p][logfd[p]] \in up
  /\ todo[t] \in {Close, NewFd, Ctx} => fdtab[p][LOGD_FD] \in up
  /\ todo[t] = Close => logfd[p] # LOGD_FD
  /\ todo[t] \in {Close, NewFd} => newfd[t] = LOGD_FD
  /\ todo[t] = Ctx => logfd[p] = LOGD_FD

Running(t) ==
  /\ ~Exits(todo[t])
  /\ Plain(prog, todo[t]) => ctxfd[t] = LOGD_FD /\ fdtab[proc[t]][LOGD_FD] \in up
  /\ Plain(prog, todo[t]) => logfd[proc[t]] = LOGD_FD \/ \E u \in Mates(t) : Starts(todo[u])
  /\ Starts(todo[t]) => Phase(t) /\ \A u \in Mates(t) \ {t} : ~Starts(todo[u])

Ending(t) ==
  /\ \E u \in Mates(t) : Exits(todo[u])
  /\ ~prog.threads => /\ ctxfd[t] = LOGD_FD
                      /\ todo[t] # << >> /\ todo[t][1][1] \in {"log", "append", "flush"} =>
                           fdtab[proc[t]][LOGD_FD] \in up

Single == ~prog.threads => \A t, u \in Tasks : proc[t] = proc[u] /\ proc[t] # None => t = u

Fresh == \A p \in Procs : (\A t \in Tasks : proc[t] # p) => fate[p] = "running"

Orderly(t) == IF fate[proc[t]] = "running" THEN Running(t) ELSE Ending(t)

BInv ==
  /\ Single /\ Fresh /\ NothingLeft
  /\ Tidy => (Unharmed /\ \A t \in Tasks : state[t] = "live" => Orderly(t))

-----------------------------------------------------------------------------
(* Bytes *)

(* A sequence of whole records. *)
Whole(q) ==
  /\ \A i \in 1..Len(q) :
       /\ q[i][3] > 1 => i > 1 /\ q[i-1] = [q[i] EXCEPT ![3] = @ - 1]
       /\ q[i][3] = 1 /\ i > 1 => q[i-1][3] = q[i-1][4]
  /\ q # << >> => q[Len(q)][3] = q[Len(q)][4]

(* b is the last byte of record n of task t. *)
Last(b, t, n) == b[1] = t /\ b[2] = n /\ b[3] = b[4]

OnWire(t, n) == \E c \in Conns : \E i \in 1..Len(wire[c]) : Last(wire[c][i], t, n)

Logged(t) ==
  state[t] = "live" => \A n \in 1..nrec[t] :
    OnWire(t, n) \/ \E i \in start[t]+1..Len(lb[t]) : Last(lb[t][i], t, n)

CInv ==
  /\ \A t \in Tasks : Whole(lb[t]) /\ Logged(t)
  /\ ~prog.partial => /\ \A c \in Conns : Whole(wire[c])
                      /\ \A t \in Tasks : start[t] \in {0, Len(lb[t])}
  /\ ForkOrder

-----------------------------------------------------------------------------
(* Numbers, lists and sequences *)

LEMMA Constants ==
  /\ PIPE_BUF \in Nat /\ PIPE_BUF > 2 /\ CtlSize = 2
  /\ NTasks \in Nat \ {0} /\ NProcs \in Nat \ {0} /\ NConns \in Nat \ {0}
  /\ Tasks \subseteq Nat /\ Procs \subseteq Nat /\ Conns \subseteq Nat /\ Fds \subseteq Nat
  /\ None \notin Tasks /\ None \notin Procs /\ None \notin Conns /\ LOGD_FD \in Fds /\ -1 \notin Fds
BY PipeBufAssumption, BinLogBounds DEF CtlSize, Tasks, Procs, Conns, Fds, None, LOGD_FD

(* The lowest of a set of tasks, processes, connections or descriptors. *)
LEMMA MinOfIn ==
  ASSUME NEW S \in SUBSET Nat, S # {}
  PROVE  MinOf(S) \in S
<1> DEFINE R == OpToRel(<, Nat)
<1>1. IsWellFoundedOn(R, Nat)
  BY NatLessThanWellFounded
<1>2. \A x, y \in Nat : <<y, x>> \in R <=> y < x
  BY DEF OpToRel
<1> HIDE DEF R
<1>3. PICK x \in S : \A y \in S : ~(<<y, x>> \in R)
  BY <1>1, WFMin
<1>4. ASSUME NEW y \in S PROVE x <= y
  <2>1. x \in Nat /\ y \in Nat
    OBVIOUS
  <2>2. ~(y < x)
    BY <1>2, <1>3, <2>1
  <2> QED BY <2>1, <2>2
<1> QED BY <1>4 DEF MinOf

(* Steps. *)
LEMMA StepTypes ==
  /\ \A s \in Nat : log(s) \in Step /\ append(s) \in Step
  /\ flush \in Step
  /\ step("fork") \in Step /\ step("spawn") \in Step /\ step("exec") \in Step
  /\ step("end") \in Step /\ step("die") \in Step /\ step("close") \in Step
  /\ step("socket") \in Step /\ step("connect") \in Step /\ step("dup2") \in Step
  /\ step("newfd") \in Step /\ step("ctx") \in Step
BY DEF Step, log, append, flush, step

(* A list without its first step. *)
LEMMA TailSteps ==
  ASSUME NEW q \in Seq(Step), q # << >>
  PROVE  /\ Len(q) \in Nat /\ Len(q) >= 1 /\ Head(q) = q[1] /\ q[1] \in Step
         /\ Tail(q) \in Seq(Step) /\ Len(Tail(q)) = Len(q) - 1
         /\ \A i \in 1..Len(q)-1 : Tail(q)[i] = q[i+1]
<1>1. Len(q) \in Nat /\ Len(q) >= 1 /\ Head(q) = q[1] /\ q[1] \in Step
  OBVIOUS
<1>2. /\ Tail(q) \in Seq(Step) /\ Len(Tail(q)) = Len(q) - 1
      /\ \A i \in 1..Len(Tail(q)) : Tail(q)[i] = q[i+1]
  BY HeadTailProperties
<1> QED BY <1>1, <1>2

(* The lists of logd_init(). *)
LEMMA StartLists ==
  /\ Socket = <<step("socket"), step("connect"), step("dup2"), step("close"), step("newfd"), step("ctx"), log(2)>>
  /\ Connect = <<step("connect"), step("dup2"), step("close"), step("newfd"), step("ctx"), log(2)>>
  /\ Dup2 = <<step("dup2"), step("close"), step("newfd"), step("ctx"), log(2)>>
  /\ Close = <<step("close"), step("newfd"), step("ctx"), log(2)>>
  /\ NewFd = <<step("newfd"), step("ctx"), log(2)>>
  /\ Ctx = <<step("ctx"), log(2)>>
  /\ Tail(Ctx) = <<log(2)>>
<1>1. Socket = <<step("socket"), step("connect"), step("dup2"), step("close"), step("newfd"), step("ctx"), log(2)>>
  <2> DEFINE a == <<step("socket"), step("connect"), step("dup2"), step("close"), step("newfd"), step("ctx")>>
             b == <<log(2)>>
             c == <<step("socket"), step("connect"), step("dup2"), step("close"), step("newfd"), step("ctx"), log(2)>>
  <2>1. a \in Seq(Step) /\ b \in Seq(Step) /\ c \in Seq(Step) /\ Len(a) = 6 /\ Len(b) = 1 /\ Len(c) = 7
    BY StepTypes
  <2>2. c[7] = b[1] /\ \A i \in 1..6 : c[i] = a[i]
    OBVIOUS
  <2>3. Socket = a \o b
    BY DEF Socket, logd_init, CtlSize
  <2> HIDE DEF a, b, c
  <2>4. /\ a \o b \in Seq(Step) /\ Len(a \o b) = 7
        /\ \A i \in 1..7 : (a \o b)[i] = IF i <= 6 THEN a[i] ELSE b[i - 6]
    <3>1. /\ a \o b \in Seq(Step) /\ Len(a \o b) = Len(a) + Len(b)
          /\ \A i \in 1..Len(a) + Len(b) : (a \o b)[i] = IF i <= Len(a) THEN a[i] ELSE b[i - Len(a)]
      BY <2>1, ConcatProperties
    <3> QED BY <2>1, <3>1, SMTT(40)
  <2>5. \A i \in 1..7 : (a \o b)[i] = c[i]
    BY <2>2, <2>4, SMTT(40)
  <2>6. a \o b = c
    BY <2>1, <2>4, <2>5, SeqEqual, ZenonT(60)
  <2> QED BY <2>3, <2>6 DEF c
<1>2. Connect = <<step("connect"), step("dup2"), step("close"), step("newfd"), step("ctx"), log(2)>>
  BY <1>1 DEF Connect
<1>3. Dup2 = <<step("dup2"), step("close"), step("newfd"), step("ctx"), log(2)>>
  BY <1>2 DEF Dup2
<1>4. Close = <<step("close"), step("newfd"), step("ctx"), log(2)>>
  BY <1>3 DEF Close
<1>5. NewFd = <<step("newfd"), step("ctx"), log(2)>>
  BY <1>4 DEF NewFd
<1>6. Ctx = <<step("ctx"), log(2)>>
  BY <1>5 DEF Ctx
<1>7. Tail(Ctx) = <<log(2)>>
  BY <1>6
<1> QED BY <1>1, <1>2, <1>3, <1>4, <1>5, <1>6, <1>7, Zenon

LEMMA StartHeads ==
  /\ Socket[1] = step("socket") /\ Connect[1] = step("connect") /\ Dup2[1] = step("dup2")
  /\ Close[1] = step("close") /\ NewFd[1] = step("newfd") /\ Ctx[1] = step("ctx")
BY StartLists

LEMMA StartTypes ==
  ASSUME NEW q, Starts(q)
  PROVE  /\ q \in Seq(Step) /\ q # << >> /\ Head(q) = q[1]
         /\ q[1][1] \in {"socket", "connect", "dup2", "close", "newfd", "ctx"}
<1>1. CASE q = Socket
  <2> DEFINE r == <<step("socket"), step("connect"), step("dup2"), step("close"), step("newfd"), step("ctx"), log(2)>>
  <2>1. r \in Seq(Step) /\ r # << >> /\ Head(r) = r[1] /\ r[1][1] = "socket"
    BY StepTypes DEF step
  <2>2. q = r
    BY <1>1, StartLists
  <2> QED BY <2>1, <2>2, Zenon
<1>2. CASE q = Connect
  <2> DEFINE r == <<step("connect"), step("dup2"), step("close"), step("newfd"), step("ctx"), log(2)>>
  <2>1. r \in Seq(Step) /\ r # << >> /\ Head(r) = r[1] /\ r[1][1] = "connect"
    BY StepTypes DEF step
  <2>2. q = r
    BY <1>2, StartLists
  <2> QED BY <2>1, <2>2, Zenon
<1>3. CASE q = Dup2
  <2> DEFINE r == <<step("dup2"), step("close"), step("newfd"), step("ctx"), log(2)>>
  <2>1. r \in Seq(Step) /\ r # << >> /\ Head(r) = r[1] /\ r[1][1] = "dup2"
    BY StepTypes DEF step
  <2>2. q = r
    BY <1>3, StartLists
  <2> QED BY <2>1, <2>2, Zenon
<1>4. CASE q = Close
  <2> DEFINE r == <<step("close"), step("newfd"), step("ctx"), log(2)>>
  <2>1. r \in Seq(Step) /\ r # << >> /\ Head(r) = r[1] /\ r[1][1] = "close"
    BY StepTypes DEF step
  <2>2. q = r
    BY <1>4, StartLists
  <2> QED BY <2>1, <2>2, Zenon
<1>5. CASE q = NewFd
  <2> DEFINE r == <<step("newfd"), step("ctx"), log(2)>>
  <2>1. r \in Seq(Step) /\ r # << >> /\ Head(r) = r[1] /\ r[1][1] = "newfd"
    BY StepTypes DEF step
  <2>2. q = r
    BY <1>5, StartLists
  <2> QED BY <2>1, <2>2, Zenon
<1>6. CASE q = Ctx
  <2> DEFINE r == <<step("ctx"), log(2)>>
  <2>1. r \in Seq(Step) /\ r # << >> /\ Head(r) = r[1] /\ r[1][1] = "ctx"
    BY StepTypes DEF step
  <2>2. q = r
    BY <1>6, StartLists
  <2> QED BY <2>1, <2>2, Zenon
<1> QED BY <1>1, <1>2, <1>3, <1>4, <1>5, <1>6 DEF Starts

(* Which of its steps a list of logd_init() still has. *)
LEMMA StartHas ==
  ASSUME NEW q, Starts(q)
  PROVE  /\ \E i \in 1..Len(q) : q[i][1] = "ctx"
         /\ \A i \in 1..Len(q) : q[i][1] # "die"
         /\ (\E i \in 1..Len(q) : q[i][1] = "socket") <=> q = Socket
<1>1. CASE q = Socket
  <2> DEFINE r == <<step("socket"), step("connect"), step("dup2"), step("close"), step("newfd"), step("ctx"), log(2)>>
  <2>1. Len(r) = 7 /\ r[1][1] = "socket" /\ r[6][1] = "ctx" /\ \A i \in 1..7 : r[i][1] # "die"
    BY DEF step, log
  <2>2. q = r
    BY <1>1, StartLists
  <2> HIDE DEF r
  <2>3. (\E i \in 1..Len(q) : q[i][1] = "ctx") /\ (\E i \in 1..Len(q) : q[i][1] = "socket")
    BY <2>1, <2>2, SMTT(40)
  <2>4. \A i \in 1..Len(q) : q[i][1] # "die"
    BY <2>1, <2>2
  <2> QED BY <1>1, <2>3, <2>4, Zenon
<1>2. CASE q = Connect
  <2> DEFINE r == <<step("connect"), step("dup2"), step("close"), step("newfd"), step("ctx"), log(2)>>
  <2>1. Len(r) = 6 /\ r[5][1] = "ctx" /\ \A i \in 1..6 : r[i][1] # "die" /\ r[i][1] # "socket"
    BY DEF step, log
  <2>2. q = r /\ q # Socket
    BY <1>2, StartLists, StartHeads DEF step
  <2> HIDE DEF r
  <2>3. \E i \in 1..Len(q) : q[i][1] = "ctx"
    BY <2>1, <2>2
  <2>4. \A i \in 1..Len(q) : q[i][1] # "die" /\ q[i][1] # "socket"
    BY <2>1, <2>2
  <2> QED BY <2>2, <2>3, <2>4, Zenon
<1>3. CASE q = Dup2
  <2> DEFINE r == <<step("dup2"), step("close"), step("newfd"), step("ctx"), log(2)>>
  <2>1. Len(r) = 5 /\ r[4][1] = "ctx" /\ \A i \in 1..5 : r[i][1] # "die" /\ r[i][1] # "socket"
    BY DEF step, log
  <2>2. q = r /\ q # Socket
    BY <1>3, StartLists, StartHeads DEF step
  <2> HIDE DEF r
  <2>3. \E i \in 1..Len(q) : q[i][1] = "ctx"
    BY <2>1, <2>2
  <2>4. \A i \in 1..Len(q) : q[i][1] # "die" /\ q[i][1] # "socket"
    BY <2>1, <2>2
  <2> QED BY <2>2, <2>3, <2>4, Zenon
<1>4. CASE q = Close
  <2> DEFINE r == <<step("close"), step("newfd"), step("ctx"), log(2)>>
  <2>1. Len(r) = 4 /\ r[3][1] = "ctx" /\ \A i \in 1..4 : r[i][1] # "die" /\ r[i][1] # "socket"
    BY DEF step, log
  <2>2. q = r /\ q # Socket
    BY <1>4, StartLists, StartHeads DEF step
  <2> HIDE DEF r
  <2>3. \E i \in 1..Len(q) : q[i][1] = "ctx"
    BY <2>1, <2>2
  <2>4. \A i \in 1..Len(q) : q[i][1] # "die" /\ q[i][1] # "socket"
    BY <2>1, <2>2
  <2> QED BY <2>2, <2>3, <2>4, Zenon
<1>5. CASE q = NewFd
  <2> DEFINE r == <<step("newfd"), step("ctx"), log(2)>>
  <2>1. Len(r) = 3 /\ r[2][1] = "ctx" /\ \A i \in 1..3 : r[i][1] # "die" /\ r[i][1] # "socket"
    BY DEF step, log
  <2>2. q = r /\ q # Socket
    BY <1>5, StartLists, StartHeads DEF step
  <2> HIDE DEF r
  <2>3. \E i \in 1..Len(q) : q[i][1] = "ctx"
    BY <2>1, <2>2
  <2>4. \A i \in 1..Len(q) : q[i][1] # "die" /\ q[i][1] # "socket"
    BY <2>1, <2>2
  <2> QED BY <2>2, <2>3, <2>4, Zenon
<1>6. CASE q = Ctx
  <2> DEFINE r == <<step("ctx"), log(2)>>
  <2>1. Len(r) = 2 /\ r[1][1] = "ctx" /\ \A i \in 1..2 : r[i][1] # "die" /\ r[i][1] # "socket"
    BY DEF step, log
  <2>2. q = r /\ q # Socket
    BY <1>6, StartLists, StartHeads DEF step
  <2> HIDE DEF r
  <2>3. \E i \in 1..Len(q) : q[i][1] = "ctx"
    BY <2>1, <2>2
  <2>4. \A i \in 1..Len(q) : q[i][1] # "die" /\ q[i][1] # "socket"
    BY <2>1, <2>2
  <2> QED BY <2>2, <2>3, <2>4, Zenon
<1> QED BY <1>1, <1>2, <1>3, <1>4, <1>5, <1>6 DEF Starts

(* Lists of calls, without their first step. *)
LEMMA OrderedTail ==
  ASSUME NEW q \in Seq(Step), q # << >>, Ordered(q)
  PROVE  /\ Ordered(Tail(q))
         /\ Tail(q) # << >> /\ Tail(q)[1][1] \in AfterFlush => q[1][1] \in {"flush", "close"}
<1> DEFINE r == Tail(q)
           n == Len(q)
<1>1. /\ n \in Nat /\ n >= 1 /\ r \in Seq(Step) /\ Len(r) = n - 1
      /\ \A i \in 1..n-1 : r[i] = q[i+1]
  BY TailSteps
<1> HIDE DEF r
<1>2. ASSUME NEW i \in 2..n-1, r[i][1] \in AfterFlush PROVE r[i-1][1] \in {"flush", "close"}
  <2>1. r[i] = q[i+1] /\ r[i-1] = q[i] /\ i + 1 \in 2..n /\ (i + 1) - 1 = i
    BY <1>1
  <2> QED BY <1>2, <2>1 DEF Ordered
<1>3. Ordered(r)
  BY <1>1, <1>2 DEF Ordered
<1>4. ASSUME r # << >>, r[1][1] \in AfterFlush PROVE q[1][1] \in {"flush", "close"}
  <2>1. n - 1 >= 1 /\ r[1] = q[2] /\ 2 \in 2..n /\ 2 - 1 = 1
    BY <1>1, <1>4
  <2> QED BY <1>4, <2>1 DEF Ordered
<1> QED BY <1>3, <1>4 DEF r

LEMMA PlainTail ==
  ASSUME NEW g \in Programs, NEW q \in Seq(Step), q # << >>, Plain(g, q)
  PROVE  /\ Plain(g, Tail(q))
         /\ Tail(q) # << >> /\ Tail(q)[1][1] \in AfterFlush => q[1][1] \in {"flush", "close"}
<1> DEFINE r == Tail(q)
           n == Len(q)
<1>1. /\ n \in Nat /\ n >= 1 /\ r \in Seq(Step) /\ Len(r) = n - 1
      /\ \A i \in 1..n-1 : r[i] = q[i+1]
  BY TailSteps
<1>2. Ordered(r) /\ (r # << >> /\ r[1][1] \in AfterFlush => q[1][1] \in {"flush", "close"})
  BY OrderedTail DEF Plain
<1> HIDE DEF r
<1>3. ASSUME NEW i \in 1..Len(r) PROVE r[i] = q[i+1] /\ i + 1 \in 1..n
  BY <1>1
<1>4. Plain(g, r)
  BY <1>2, <1>3 DEF Plain
<1> QED BY <1>2, <1>4 DEF r

LEMMA ExitsTail ==
  ASSUME NEW q \in Seq(Step), Exits(q), q[1][1] # "die"
  PROVE  /\ Exits(Tail(q))
         /\ Tail(q)[1][1] \in AfterFlush => q[1][1] \in {"flush", "close"}
<1> DEFINE r == Tail(q)
           n == Len(q)
<1>0. q # << >> /\ Ordered(q)
  BY DEF Exits
<1>1. /\ n \in Nat /\ n >= 1 /\ r \in Seq(Step) /\ Len(r) = n - 1
      /\ \A i \in 1..n-1 : r[i] = q[i+1]
  BY <1>0, TailSteps
<1>2. Ordered(r) /\ (r # << >> /\ r[1][1] \in AfterFlush => q[1][1] \in {"flush", "close"})
  BY <1>0, OrderedTail
<1> HIDE DEF r
<1>3. n # 1
  BY DEF Exits
<1>4. r # << >> /\ r[n-1] = q[n]
  BY <1>1, <1>3
<1>5. r[Len(r)][1] = "die"
  BY <1>1, <1>4 DEF Exits
<1>6. ASSUME NEW i \in 1..Len(r)-1
      PROVE  /\ r[i][1] \in {"log", "append", "flush", "close"}
             /\ r[i][1] \in {"log", "append"} => r[i][2] = CtlSize
             /\ r[i][1] = "close" => i = Len(r) - 1
  <2>1. r[i] = q[i+1] /\ i + 1 \in 1..n-1
    BY <1>1, SMTT(40)
  <2> HIDE DEF n
  <2>2. /\ q[i+1][1] \in {"log", "append", "flush", "close"}
        /\ q[i+1][1] \in {"log", "append"} => q[i+1][2] = CtlSize
        /\ q[i+1][1] = "close" => i + 1 = n - 1
    BY <2>1 DEF Exits, n
  <2> QED BY <1>1, <2>1, <2>2
<1>7. Exits(r)
  BY <1>2, <1>4, <1>5, <1>6 DEF Exits
<1> QED BY <1>2, <1>4, <1>7 DEF r

(* The lists that calls begin with. *)
LEMMA PlainLists ==
  ASSUME NEW g \in Programs
  PROVE  /\ Plain(g, << >>)
         /\ \A s \in g.sizes \cup {CtlSize} : Plain(g, <<log(s)>>) /\ <<log(s)>> \in Seq(Step)
         /\ Plain(g, fork_steps) /\ fork_steps \in Seq(Step)
         /\ g.threads => Plain(g, <<log(CtlSize), step("spawn"), log(CtlSize)>>)
         /\ <<log(CtlSize), step("spawn"), log(CtlSize)>> \in Seq(Step)
         /\ Plain(g, <<log(CtlSize), flush, step("exec")>>) /\ <<log(CtlSize), flush, step("exec")>> \in Seq(Step)
         /\ Plain(g, <<flush, step("end")>>) /\ <<flush, step("end")>> \in Seq(Step)
<1>0. CtlSize \in Nat /\ g.sizes \subseteq Nat
  BY Constants, ProgramsAssumption
<1>1. Plain(g, << >>)
  BY DEF Plain, Ordered
<1>2. ASSUME NEW s \in g.sizes \cup {CtlSize} PROVE Plain(g, <<log(s)>>) /\ <<log(s)>> \in Seq(Step)
  <2> DEFINE r == <<log(s)>>
  <2>1. r \in Seq(Step) /\ Len(r) = 1 /\ r[1][1] = "log" /\ r[1][2] = s
    BY <1>0, StepTypes DEF log
  <2> HIDE DEF r
  <2>2. Plain(g, r)
    BY <2>1 DEF Plain, Ordered
  <2> QED BY <2>1, <2>2 DEF r
<1>3. Plain(g, fork_steps) /\ fork_steps \in Seq(Step)
  <2> DEFINE r == fork_steps
  <2>1. r \in Seq(Step) /\ Len(r) = 2 /\ r[1][1] = "flush" /\ r[2][1] = "fork"
    BY StepTypes DEF flush, step, fork_steps
  <2> HIDE DEF r
  <2>2. Plain(g, r)
    BY <2>1 DEF Plain, Ordered
  <2> QED BY <2>1, <2>2 DEF r
<1>4. /\ g.threads => Plain(g, <<log(CtlSize), step("spawn"), log(CtlSize)>>)
      /\ <<log(CtlSize), step("spawn"), log(CtlSize)>> \in Seq(Step)
  <2> DEFINE r == <<log(CtlSize), step("spawn"), log(CtlSize)>>
  <2>1. /\ r \in Seq(Step) /\ Len(r) = 3 /\ r[1][1] = "log" /\ r[2][1] = "spawn" /\ r[3][1] = "log"
        /\ r[1][2] = CtlSize /\ r[3][2] = CtlSize
    BY <1>0, StepTypes DEF log, step
  <2> HIDE DEF r
  <2>2. g.threads => Plain(g, r)
    BY <2>1 DEF Plain, Ordered, AfterFlush
  <2> QED BY <2>1, <2>2 DEF r
<1>5. Plain(g, <<log(CtlSize), flush, step("exec")>>) /\ <<log(CtlSize), flush, step("exec")>> \in Seq(Step)
  <2> DEFINE r == <<log(CtlSize), flush, step("exec")>>
  <2>1. /\ r \in Seq(Step) /\ Len(r) = 3 /\ r[1][1] = "log" /\ r[2][1] = "flush" /\ r[3][1] = "exec"
        /\ r[1][2] = CtlSize
    BY <1>0, StepTypes DEF log, step, flush
  <2> HIDE DEF r
  <2>2. Plain(g, r)
    BY <2>1 DEF Plain, Ordered, AfterFlush
  <2> QED BY <2>1, <2>2 DEF r
<1>6. Plain(g, <<flush, step("end")>>) /\ <<flush, step("end")>> \in Seq(Step)
  <2> DEFINE r == <<flush, step("end")>>
  <2>1. r \in Seq(Step) /\ Len(r) = 2 /\ r[1][1] = "flush" /\ r[2][1] = "end"
    BY StepTypes DEF flush, step
  <2> HIDE DEF r
  <2>2. Plain(g, r)
    BY <2>1 DEF Plain, Ordered
  <2> QED BY <2>1, <2>2 DEF r
<1> QED BY <1>1, <1>2, <1>3, <1>4, <1>5, <1>6

(* A list of exit() starts with a flush or a log. *)
Leaves(q) == q \in Seq(Step) /\ Exits(q) /\ q[1][1] \in {"flush", "log"}

LEMMA ExitLists ==
  /\ Leaves(exit_steps) /\ Leaves(Tail(exit_steps)) /\ Leaves(<<flush, step("die")>>)
  /\ exit_steps[1][1] = "flush"
<1>1. Leaves(exit_steps) /\ exit_steps[1][1] = "flush"
  <2> DEFINE r == exit_steps
  <2>1. /\ r \in Seq(Step) /\ Len(r) = 5 /\ r # << >>
        /\ r[1][1] = "flush" /\ r[2][1] = "log" /\ r[2][2] = CtlSize
        /\ r[3][1] = "flush" /\ r[4][1] = "close" /\ r[5][1] = "die"
    BY StepTypes DEF flush, step, log, CtlSize, exit_steps
  <2> HIDE DEF r
  <2>2. Ordered(r)
    BY <2>1 DEF Ordered, AfterFlush
  <2>3. Exits(r)
    BY <2>1, <2>2 DEF Exits
  <2> QED BY <2>1, <2>3 DEF r, Leaves
<1>2. Leaves(Tail(exit_steps))
  <2>1. exit_steps # << >> /\ Tail(exit_steps) \in Seq(Step) /\ exit_steps \in Seq(Step) /\ Exits(exit_steps)
    BY <1>1, TailSteps DEF Leaves, Exits
  <2>2. Exits(Tail(exit_steps))
    BY <1>1, <2>1, ExitsTail
  <2>3. Tail(exit_steps)[1][1] = "log"
    BY DEF exit_steps, flush, log, step
  <2> QED BY <2>1, <2>2, <2>3 DEF Leaves
<1>3. Leaves(<<flush, step("die")>>)
  <2> DEFINE r == <<flush, step("die")>>
  <2>1. r \in Seq(Step) /\ Len(r) = 2 /\ r # << >> /\ r[1][1] = "flush" /\ r[2][1] = "die"
    BY StepTypes DEF flush, step
  <2> HIDE DEF r
  <2>2. Ordered(r) /\ Exits(r)
    BY <2>1 DEF Ordered, Exits
  <2> QED BY <2>1, <2>2 DEF r, Leaves
<1> QED BY <1>1, <1>2, <1>3

(* The list of a record for which there is no room. *)
LEMMA Expanded ==
  ASSUME NEW g \in Programs, NEW q \in Seq(Step), q # << >>, q[1][1] = "log", q[1][2] <= PIPE_BUF
  PROVE  LET r == <<flush, append(q[1][2])>> \o Tail(q)
         IN  /\ r \in Seq(Step) /\ r # << >> /\ r[1][1] = "flush"
             /\ Plain(g, q) => Plain(g, r)
             /\ Exits(q) => Exits(r)
<1> DEFINE s == q[1][2]
           a == <<flush, append(s)>>
           b == Tail(q)
           r == a \o b
           n == Len(q)
<1>1. /\ n \in Nat /\ n >= 1 /\ q[1] \in Step /\ b \in Seq(Step) /\ Len(b) = n - 1
      /\ \A i \in 1..n-1 : b[i] = q[i+1]
  BY TailSteps
<1>2. s \in Nat
  BY <1>1 DEF Step
<1>3. a \in Seq(Step) /\ Len(a) = 2 /\ a[1] = flush /\ a[2] = append(s)
  BY <1>2, StepTypes
<1> HIDE DEF a, b, s
<1>4. /\ r \in Seq(Step) /\ Len(r) = Len(a) + Len(b)
      /\ \A i \in 1..Len(a) + Len(b) : r[i] = IF i <= Len(a) THEN a[i] ELSE b[i - Len(a)]
  BY <1>1, <1>3, ConcatProperties, ZenonT(60)
<1> HIDE DEF r
<1>5. Len(r) = n + 1 /\ r[1] = flush /\ r[2] = append(s) /\ r # << >>
  <2>1. PICK m \in Nat : m = Len(b) /\ m = n - 1
    BY <1>1
  <2>2. Len(r) = 2 + m /\ \A i \in 1..2+m : r[i] = IF i <= 2 THEN a[i] ELSE b[i - 2]
    BY <1>3, <1>4, <2>1, Zenon
  <2>3. 1 \in 1..2+m /\ 2 \in 1..2+m /\ 1 <= 2 /\ 2 <= 2 /\ 2 + m # 0
    OBVIOUS
  <2>4. r[1] = a[1] /\ r[2] = a[2]
    BY <2>2, <2>3, Zenon
  <2>5. Len(r) = n + 1 /\ Len(r) # 0
    BY <1>1, <2>1, <2>2
  <2>6. r # << >>
    BY <2>5
  <2> QED BY <1>3, <2>4, <2>5, <2>6, Zenon
<1>6. ASSUME NEW i \in 3..n+1 PROVE r[i] = q[i-1] /\ i - 1 \in 2..n
  <2>1. r[i] = b[i-2] /\ i - 2 \in 1..n-1
    BY <1>1, <1>3, <1>4
  <2>2. b[i-2] = q[(i-2)+1] /\ (i - 2) + 1 = i - 1
    BY <1>1, <2>1
  <2> QED BY <1>1, <2>1, <2>2, SMTT(40)
<1>7. r[1][1] = "flush" /\ r[2][1] = "append" /\ r[2][2] = s /\ s = q[1][2] /\ s <= PIPE_BUF
  BY <1>5 DEF flush, append, s
<1>8. ASSUME Ordered(q) PROVE Ordered(r)
  <2> SUFFICES ASSUME NEW i \in 2..n+1, r[i][1] \in AfterFlush PROVE r[i-1][1] \in {"flush", "close"}
    BY <1>5 DEF Ordered
  <2>1. CASE i = 2
    BY <1>7, <2>1
  <2>2. CASE i = 3
    <3>1. n >= 2 /\ r[3] = q[2] /\ r[2] = append(s)
      BY <1>1, <1>5, <1>6, <2>2
    <3>2. q[2][1] \notin AfterFlush
      <4>1. 2 \in 2..Len(q) /\ 2 - 1 = 1
        BY <1>1, <3>1
      <4> QED BY <1>8, <4>1 DEF Ordered
    <3> QED BY <2>2, <3>1, <3>2
  <2>3. CASE i > 3
    <3>1. r[i] = q[i-1] /\ r[i-1] = q[(i-1)-1] /\ i - 1 \in 2..n
      BY <1>1, <1>6, <2>3
    <3> QED BY <1>8, <3>1 DEF Ordered
  <2> QED BY <2>1, <2>2, <2>3
<1>9. ASSUME Plain(g, q) PROVE Plain(g, r)
  <2>1. Ordered(r)
    BY <1>8, <1>9 DEF Plain
  <2>2. s \in g.sizes \cup {CtlSize}
    BY <1>1, <1>7, <1>9 DEF Plain
  <2>3. ASSUME NEW i \in 1..n+1
        PROVE  /\ r[i][1] \in {"log", "append", "flush", "fork", "spawn", "exec", "end"}
               /\ r[i][1] \in {"log", "append"} => r[i][2] \in g.sizes \cup {CtlSize}
               /\ r[i][1] = "append" => r[i][2] <= PIPE_BUF
               /\ r[i][1] = "spawn" => g.threads
    <3>1. CASE i \in {1, 2}
      BY <1>7, <2>2, <3>1
    <3>2. CASE i \in 3..n+1
      <4>1. r[i] = q[i-1] /\ i - 1 \in 1..Len(q)
        BY <1>1, <1>6, <3>2, SMTT(40)
      <4> QED BY <1>9, <4>1 DEF Plain
    <3> QED BY <1>1, <3>1, <3>2
  <2> QED BY <1>5, <2>1, <2>3 DEF Plain
<1>10. ASSUME Exits(q) PROVE Exits(r)
  <2>1. Ordered(r)
    BY <1>8, <1>10 DEF Exits
  <2>2. n >= 2 /\ s = CtlSize
    <3>1. n # 1
      BY <1>10 DEF Exits
    <3> QED BY <1>1, <1>7, <1>10, <3>1 DEF Exits
  <2>3. r[n+1][1] = "die"
    <3>1. r[n+1] = q[n]
      BY <1>1, <1>6, <2>2
    <3> QED BY <1>10, <3>1 DEF Exits
  <2>4. ASSUME NEW i \in 1..n
        PROVE  /\ r[i][1] \in {"log", "append", "flush", "close"}
               /\ r[i][1] \in {"log", "append"} => r[i][2] = CtlSize
               /\ r[i][1] = "close" => i = n
    <3>1. CASE i \in {1, 2}
      BY <1>7, <2>2, <3>1
    <3>2. CASE i \in 3..n
      <4>1. r[i] = q[i-1] /\ i - 1 \in 1..Len(q)-1
        BY <1>1, <1>6, <3>2
      <4>2. /\ q[i-1][1] \in {"log", "append", "flush", "close"}
            /\ q[i-1][1] \in {"log", "append"} => q[i-1][2] = CtlSize
            /\ q[i-1][1] = "close" => i - 1 = Len(q) - 1
        BY <1>10, <4>1 DEF Exits
      <4> QED BY <1>1, <4>1, <4>2
    <3> QED BY <1>1, <3>1, <3>2
  <2>5. Len(r) - 1 = n
    BY <1>1, <1>5
  <2> QED BY <1>5, <2>1, <2>3, <2>4, <2>5, ZenonT(60) DEF Exits
<1> QED BY <1>4, <1>5, <1>7, <1>9, <1>10 DEF r, a, b, s

(* The kinds of list exclude each other, and the first step tells which    *)
(* one it is.                                                              *)
LEMMA NotStarts ==
  ASSUME NEW g \in Programs, NEW q \in Seq(Step), Plain(g, q) \/ Exits(q)
  PROVE  ~Starts(q) /\ q # Socket
<1> SUFFICES ASSUME Starts(q) PROVE FALSE
  BY DEF Starts
<1>1. /\ q # << >> /\ q[1][1] \in {"socket", "connect", "dup2", "close", "newfd", "ctx"}
      /\ \A i \in 1..Len(q) : q[i][1] # "die"
  BY StartTypes, StartHas
<1>2. Len(q) \in Nat /\ Len(q) >= 1
  BY <1>1
<1>3. CASE Plain(g, q)
  BY <1>1, <1>2, <1>3 DEF Plain
<1>4. CASE Exits(q)
  BY <1>1, <1>2, <1>4 DEF Exits
<1> QED BY <1>3, <1>4

LEMMA NotPlain ==
  ASSUME NEW g \in Programs, NEW q \in Seq(Step), Exits(q)
  PROVE  ~Plain(g, q)
<1>1. q # << >> /\ q[Len(q)][1] = "die" /\ Len(q) \in Nat /\ Len(q) >= 1
  BY DEF Exits
<1> QED BY <1>1 DEF Plain

LEMMA ListAt ==
  ASSUME NEW g \in Programs, NEW q \in Seq(Step), q # << >>, IsList(g, q)
  PROVE  /\ q[1][1] = "socket" => q = Socket
         /\ q[1][1] = "connect" => q = Connect
         /\ q[1][1] = "dup2" => q = Dup2
         /\ q[1][1] = "newfd" => q = NewFd
         /\ q[1][1] = "ctx" => q = Ctx
         /\ q[1][1] = "close" => q = Close \/ Exits(q)
         /\ q[1][1] \in {"fork", "spawn", "exec", "end"} => Plain(g, q)
         /\ q[1][1] \in {"log", "append", "flush"} => Plain(g, q) \/ Exits(q)
         /\ q[1][1] = "die" => Exits(q)
<1>1. Len(q) \in Nat /\ Len(q) >= 1
  OBVIOUS
<1>2. CASE Plain(g, q)
  <2>1. q[1][1] \in {"log", "append", "flush", "fork", "spawn", "exec", "end"}
    BY <1>1, <1>2 DEF Plain
  <2> QED BY <1>2, <2>1
<1>3. CASE Exits(q)
  <2>1. q[1][1] \in {"log", "append", "flush", "close", "die"}
    BY <1>1, <1>3 DEF Exits
  <2> QED BY <1>3, <2>1
<1>4. CASE Starts(q)
  <2>1. /\ Socket[1][1] = "socket" /\ Connect[1][1] = "connect" /\ Dup2[1][1] = "dup2"
        /\ Close[1][1] = "close" /\ NewFd[1][1] = "newfd" /\ Ctx[1][1] = "ctx"
    BY StartHeads DEF step
  <2>2. q \in {Socket, Connect, Dup2, Close, NewFd, Ctx}
    BY <1>4 DEF Starts
  <2> QED BY <2>1, <2>2
<1> QED BY <1>2, <1>3, <1>4 DEF IsList

(* What is left of a call after a step. *)
LEMMA DoneList ==
  ASSUME NEW g \in Programs, NEW q \in Seq(Step), q # << >>, Plain(g, q) \/ Exits(q), q[1][1] # "die"
  PROVE  LET r == Tail(q)
         IN  /\ r \in Seq(Step) /\ (Plain(g, q) => Plain(g, r)) /\ (Exits(q) => Exits(r))
             /\ ~Starts(r) /\ r # Socket
             /\ r # << >> /\ r[1][1] \in AfterFlush => q[1][1] \in {"flush", "close"}
<1>1. Tail(q) \in Seq(Step)
  BY TailSteps
<1>2. CASE Plain(g, q)
  <2>1. ~Exits(q)
    BY <1>2, NotPlain
  <2> QED BY <1>1, <1>2, <2>1, PlainTail, NotStarts
<1>3. CASE Exits(q)
  <2>1. ~Plain(g, q)
    BY <1>3, NotPlain
  <2> QED BY <1>1, <1>3, <2>1, ExitsTail, NotStarts
<1> QED BY <1>2, <1>3

LEMMA StartTail ==
  /\ Tail(Socket) = Connect /\ Tail(Connect) = Dup2 /\ Tail(Dup2) = Close
  /\ Tail(Close) = NewFd /\ Tail(NewFd) = Ctx
  /\ Starts(Socket) /\ Starts(Connect) /\ Starts(Dup2) /\ Starts(Close) /\ Starts(NewFd) /\ Starts(Ctx)
  /\ Connect # Socket /\ Dup2 # Socket /\ Close # Socket /\ NewFd # Socket /\ Ctx # Socket
  /\ Connect # Dup2 /\ Close # Connect /\ NewFd # Connect /\ Ctx # Connect
  /\ Close # Dup2 /\ NewFd # Dup2 /\ Ctx # Dup2 /\ NewFd # Close /\ Ctx # Close /\ Ctx # NewFd
<1>1. /\ Tail(Socket) = Connect /\ Tail(Connect) = Dup2 /\ Tail(Dup2) = Close
      /\ Tail(Close) = NewFd /\ Tail(NewFd) = Ctx
  BY DEF Connect, Dup2, Close, NewFd, Ctx
<1>2. /\ Starts(Socket) /\ Starts(Connect) /\ Starts(Dup2) /\ Starts(Close) /\ Starts(NewFd) /\ Starts(Ctx)
  BY DEF Starts
<1>3. /\ Connect # Socket /\ Dup2 # Socket /\ Close # Socket /\ NewFd # Socket /\ Ctx # Socket
      /\ Connect # Dup2 /\ Close # Connect /\ NewFd # Connect /\ Ctx # Connect
      /\ Close # Dup2 /\ NewFd # Dup2 /\ Ctx # Dup2 /\ NewFd # Close /\ Ctx # Close /\ Ctx # NewFd
  BY StartHeads DEF step
<1> QED BY <1>1, <1>2, <1>3

(* Records in a buffer. *)
LEMMA RecordType ==
  ASSUME NEW t \in Tasks, NEW n \in Nat, NEW s \in Nat \ {0}
  PROVE  /\ Record(t, n, s) \in Seq(Byte) /\ Len(Record(t, n, s)) = s
         /\ \A k \in 1..s : Record(t, n, s)[k] = <<t, n, k, s>>
<1>1. \A k \in 1..s : <<t, n, k, s>> \in Byte
  BY DEF Byte
<1> QED BY <1>1 DEF Record

LEMMA PutType ==
  ASSUME NEW q \in Seq(Byte), NEW t \in Tasks, NEW n \in Nat, NEW s \in Nat \ {0}
  PROVE  LET r == q \o Record(t, n, s)
         IN  /\ r \in Seq(Byte) /\ Len(r) = Len(q) + s /\ Len(q) \in Nat
             /\ \A i \in 1..Len(q) : r[i] = q[i]
             /\ \A k \in 1..s : r[Len(q) + k] = <<t, n, k, s>>
<1> DEFINE b == Record(t, n, s)
<1>1. b \in Seq(Byte) /\ Len(b) = s /\ \A k \in 1..s : b[k] = <<t, n, k, s>>
  BY RecordType
<1> HIDE DEF b
<1>2. /\ q \o b \in Seq(Byte) /\ Len(q \o b) = Len(q) + Len(b)
      /\ \A i \in 1..Len(q) + Len(b) : (q \o b)[i] = IF i <= Len(q) THEN q[i] ELSE b[i - Len(q)]
  BY <1>1, ConcatProperties
<1>3. Len(q) \in Nat
  OBVIOUS
<1>4. \A i \in 1..Len(q) : (q \o b)[i] = q[i]
  BY <1>1, <1>2, <1>3
<1>5. ASSUME NEW k \in 1..s PROVE (q \o b)[Len(q) + k] = <<t, n, k, s>>
  <2>1. Len(q) + k \in 1..Len(q) + Len(b) /\ ~(Len(q) + k <= Len(q)) /\ (Len(q) + k) - Len(q) = k
    BY <1>1, <1>3
  <2> QED BY <1>1, <1>2, <2>1
<1> QED BY <1>1, <1>2, <1>3, <1>4, <1>5 DEF b

-----------------------------------------------------------------------------
(* Connections and descriptors *)

LEMMA Finite ==
  ASSUME Types
  PROVE  /\ Made \subseteq Conns /\ IsFiniteSet(Made) /\ Cardinality(Made) \in Nat
         /\ Claims \subseteq Tasks /\ IsFiniteSet(Claims) /\ Cardinality(Claims) \in Nat
         /\ IsFiniteSet(Conns) /\ Cardinality(Conns) = NConns /\ IsFiniteSet(Tasks)
<1>1. IsFiniteSet(Conns) /\ Cardinality(Conns) = NConns /\ IsFiniteSet(Tasks)
  <2>1. 1 \in Int /\ NConns \in Int /\ NTasks \in Int /\ NConns >= 1
    BY Constants
  <2>2. /\ IsFiniteSet(1..NConns) /\ Cardinality(1..NConns) = IF 1 > NConns THEN 0 ELSE NConns - 1 + 1
        /\ IsFiniteSet(1..NTasks)
    BY <2>1, FS_Interval
  <2> QED BY <2>1, <2>2 DEF Conns, Tasks
<1>2. Made \subseteq Conns
  <2>1. up \subseteq Conns
    BY DEF Types
  <2> QED BY <2>1 DEF Made
<1>3. Claims \subseteq Tasks
  BY DEF Claims
<1>4. IsFiniteSet(Made) /\ IsFiniteSet(Claims)
  BY <1>1, <1>2, <1>3, FS_Subset
<1>5. Cardinality(Made) \in Nat /\ Cardinality(Claims) \in Nat
  BY <1>4, FS_CardinalityType
<1> QED BY <1>1, <1>2, <1>3, <1>4, <1>5

LEMMA Less ==
  ASSUME NEW S, NEW T, IsFiniteSet(S), T \subseteq S
  PROVE  Cardinality(T) <= Cardinality(S) /\ Cardinality(T) \in Nat /\ Cardinality(S) \in Nat
BY FS_Subset, FS_CardinalityType

(* The connections pthread_create() and execve() count. *)
LEMMA ClaimedIs ==
  ASSUME AInv
  PROVE  Claimed = Cardinality(Made) + Cardinality(Claims)
<1>1. ASSUME NEW u \in Tasks, state[u] = "live" PROVE Has(u, "socket") <=> todo[u] = Socket
  <2>1. IsList(prog, todo[u]) /\ todo[u] \in Seq(Step) /\ prog \in Programs
    BY <1>1 DEF AInv, Types, Task, Listed
  <2>2. CASE Starts(todo[u])
    BY <2>2, StartHas DEF Has
  <2>3. CASE Plain(prog, todo[u]) \/ Exits(todo[u])
    <3>1. todo[u] # Socket
      BY <2>1, <2>3, NotStarts
    <3>2. \A i \in 1..Len(todo[u]) : todo[u][i][1] # "socket"
      <4>1. CASE Plain(prog, todo[u])
        BY <4>1 DEF Plain
      <4>2. CASE Exits(todo[u])
        <5>1. Len(todo[u]) \in Nat
          BY <2>1
        <5> QED BY <4>2, <5>1 DEF Exits
      <4> QED BY <2>3, <4>1, <4>2
    <3> QED BY <3>1, <3>2 DEF Has
  <2> QED BY <2>1, <2>2, <2>3 DEF IsList
<1>2. {u \in Tasks : state[u] = "live" /\ Has(u, "socket")} = Claims
  BY <1>1 DEF Claims
<1> QED BY <1>2 DEF Claimed

(* Nobody makes a connection, and nobody is about to who was not. *)
LEMMA RoomKept ==
  ASSUME AInv, UNCHANGED prog, Made' \subseteq Made, Claims' \subseteq Claims
  PROVE  Room'
<1>1. IsFiniteSet(Made) /\ IsFiniteSet(Claims)
  BY Finite DEF AInv
<1>2. PICK M : M = Made'
  OBVIOUS
<1>3. PICK C : C = Claims'
  OBVIOUS
<1>4. /\ Cardinality(M) <= Cardinality(Made) /\ Cardinality(M) \in Nat /\ Cardinality(Made) \in Nat
      /\ Cardinality(C) <= Cardinality(Claims) /\ Cardinality(C) \in Nat /\ Cardinality(Claims) \in Nat
  BY <1>1, <1>2, <1>3, Less
<1>5. Cardinality(Made) + Cardinality(Claims) <= prog.conns /\ prog.conns \in Nat
  BY Constants, ProgramsAssumption DEF AInv, Room, Types
<1>6. Cardinality(M) + Cardinality(C) <= prog.conns
  BY <1>4, <1>5
<1>7. Cardinality(Made)' = Cardinality(M) /\ Cardinality(Claims)' = Cardinality(C)
  BY <1>2, <1>3
<1> QED BY <1>6, <1>7 DEF Room

(* A task that does nothing, but may be ended. *)
SameTask(u) ==
  /\ proc'[u] = proc[u] /\ todo'[u] = todo[u] /\ lb'[u] = lb[u] /\ start'[u] = start[u]
  /\ nrec'[u] = nrec[u]
  /\ state'[u] = state[u] \/ (proc[u] \in Procs /\ state'[u] = "ended")

LEMMA TaskFrame ==
  ASSUME Types, NEW u \in Tasks, Task(u), SameTask(u), UNCHANGED prog
  PROVE  Task(u)'
<1>1. None \notin Procs
  BY Constants
<1>2. CASE state'[u] = state[u]
  BY <1>2 DEF SameTask, Task, Listed
<1>3. CASE proc[u] \in Procs /\ state'[u] = "ended"
  BY <1>3 DEF SameTask, Task
<1> QED BY <1>2, <1>3 DEF SameTask

(* Only the tasks in T do anything, and they make no connection. *)
LEMMA Closing ==
  ASSUME AInv, Types', UNCHANGED prog, NEW T \in SUBSET Tasks,
         \A u \in Tasks \ T : SameTask(u),
         \A u \in T : Task(u)' /\ (state'[u] = "live" => todo'[u] # Socket),
         Made' \subseteq Made, Descriptors'
  PROVE  AInv'
<1>1. \A u \in Tasks : Task(u)'
  BY TaskFrame DEF AInv
<1>2. Claims' \subseteq Claims
  BY DEF SameTask, Claims
<1>3. Room'
  BY <1>2, RoomKept
<1> QED BY <1>1, <1>3 DEF AInv

LEMMA ClosingOne ==
  ASSUME AInv, Types', UNCHANGED prog, NEW t \in Tasks,
         \A u \in Tasks \ {t} : SameTask(u), Task(t)', state'[t] = "live" => todo'[t] # Socket,
         Made' \subseteq Made, Descriptors'
  PROVE  AInv'
<1> DEFINE T == {t}
<1>1. T \in SUBSET Tasks /\ \A u \in Tasks \ T : SameTask(u)
  OBVIOUS
<1>2. \A u \in T : Task(u)' /\ (state'[u] = "live" => todo'[u] # Socket)
  OBVIOUS
<1> HIDE DEF T
<1> QED BY <1>1, <1>2, Closing

(* The descriptors of a process are closed, or stay as they are. *)
LEMMA FewerFds ==
  ASSUME AInv, UNCHANGED up,
         \A p \in Procs, f \in Fds : fdtab'[p][f] \in {fdtab[p][f], None}
  PROVE  Made' \subseteq Made /\ Descriptors'
<1>1. None \notin Conns
  BY Constants
<1>2. Made' \subseteq Made
  BY <1>1 DEF Made
<1>3. Descriptors'
  BY DEF AInv, Descriptors
<1> QED BY <1>2, <1>3

LEMMA SameFds ==
  ASSUME AInv, UNCHANGED <<fdtab, up>>
  PROVE  Made' \subseteq Made /\ Descriptors'
BY DEF AInv, Made, Descriptors

-----------------------------------------------------------------------------
(* The calls *)

LEMMA LiveTask ==
  ASSUME AInv, NEW t \in Tasks, state[t] = "live"
  PROVE  /\ proc[t] \in Procs /\ todo[t] \in Seq(Step) /\ lb[t] \in Seq(Byte) /\ prog \in Programs
         /\ Len(lb[t]) \in Nat /\ start[t] \in Nat /\ start[t] <= Len(lb[t]) /\ Len(lb[t]) <= PIPE_BUF
         /\ Listed(t)
<1>1. Types /\ Task(t)
  BY DEF AInv
<1>2. lb[t] \in Seq(Byte) /\ todo[t] \in Seq(Step) /\ start[t] \in Nat /\ prog \in Programs
  BY <1>1 DEF Types
<1> QED BY <1>1, <1>2 DEF Task

Opening(g, q) ==
  q \in Seq(Step) /\ q # << >> /\ q[1][1] \in {"flush", "log"} /\ (Plain(g, q) \/ Exits(q))

LEMMA BeginKeeps ==
  ASSUME AInv, NEW t \in Tasks, NEW q, Opening(prog, q), Calls(t), Begin(t, q),
         fate' \in [Procs -> {"running", "asked", "fatal"}]
  PROVE  AInv'
<1>1. /\ todo' = [todo EXCEPT ![t] = q]
      /\ UNCHANGED <<proc, lb, start, nrec, ctxfd, newfd, state, logfd, fdtab, up, wire, parent, prog>>
  BY DEF Begin, task, kernel
<1>2. Types
  BY DEF AInv
<1>3. Types'
  BY <1>1, <1>2 DEF Types, Opening
<1>4. todo'[t] = q /\ \A u \in Tasks \ {t} : todo'[u] = todo[u]
  BY <1>1, <1>2 DEF Types
<1>5. Task(t) /\ Listed(t) /\ state[t] = "live" /\ todo[t] = << >>
  BY LiveTask DEF Calls, AInv
<1>6. ~Starts(q) /\ q # Socket
  BY <1>2, NotStarts DEF Opening, Types
<1>7. Listed(t)'
  BY <1>1, <1>4, <1>5, <1>6 DEF Listed, Opening, IsList, AfterFlush
<1>8. Task(t)'
  BY <1>1, <1>5, <1>7 DEF Task
<1>9. \A u \in Tasks \ {t} : SameTask(u)
  BY <1>1, <1>4 DEF SameTask
<1>10. Made' \subseteq Made /\ Descriptors'
  BY <1>1, SameFds
<1> QED BY <1>1, <1>3, <1>4, <1>6, <1>8, <1>9, <1>10, ClosingOne

LEMMA Openings ==
  ASSUME NEW g \in Programs
  PROVE  /\ \A s \in g.sizes : Opening(g, <<log(s)>>)
         /\ Opening(g, fork_steps)
         /\ g.threads => Opening(g, <<log(CtlSize), step("spawn"), log(CtlSize)>>)
         /\ Opening(g, <<log(CtlSize), flush, step("exec")>>)
         /\ Opening(g, <<flush, step("end")>>)
         /\ Opening(g, exit_steps) /\ Opening(g, Tail(exit_steps)) /\ Opening(g, <<flush, step("die")>>)
<1>1. /\ \A s \in g.sizes : <<log(s)>> # << >> /\ <<log(s)>>[1][1] \in {"flush", "log"}
      /\ fork_steps # << >> /\ fork_steps[1][1] \in {"flush", "log"}
  BY DEF log, flush, fork_steps
<1>2. <<log(CtlSize), step("spawn"), log(CtlSize)>> # << >> /\ <<log(CtlSize), step("spawn"), log(CtlSize)>>[1][1] \in {"flush", "log"}
  BY DEF log
<1>3. <<log(CtlSize), flush, step("exec")>> # << >> /\ <<log(CtlSize), flush, step("exec")>>[1][1] \in {"flush", "log"}
  BY DEF log
<1>4. <<flush, step("end")>> # << >> /\ <<flush, step("end")>>[1][1] \in {"flush", "log"}
  BY DEF flush
<1>5. \A q : Leaves(q) => Opening(g, q)
  BY DEF Leaves, Opening, Exits
<1> QED BY <1>1, <1>2, <1>3, <1>4, <1>5, PlainLists, ExitLists, Zenon DEF Opening

LEMMA CallsKeep ==
  ASSUME AInv, NEW t \in Tasks, Program(t)
  PROVE  AInv'
<1>0. Types /\ prog \in Programs
  BY DEF AInv, Types
<1>1. UNCHANGED fate => fate' \in [Procs -> {"running", "asked", "fatal"}]
  BY <1>0 DEF Types
<1>2. CASE Call(t)
  <2>1. PICK s \in prog.sizes : Begin(t, <<log(s)>>)
    BY <1>2 DEF Call
  <2> QED BY <1>0, <1>1, <1>2, <2>1, Openings, BeginKeeps DEF Call
<1>3. CASE fork(t)
  BY <1>0, <1>1, <1>3, Openings, BeginKeeps DEF fork
<1>4. CASE pthread_create(t)
  BY <1>0, <1>1, <1>4, Openings, BeginKeeps DEF pthread_create
<1>5. CASE execve(t)
  BY <1>0, <1>1, <1>5, Openings, BeginKeeps DEF execve
<1>6. CASE exit(t)
  <2>1. fate' \in [Procs -> {"running", "asked", "fatal"}]
    <3>1. fate' = [fate EXCEPT ![proc[t]] = "asked"]
      BY <1>6 DEF exit
    <3> QED BY <1>0, <3>1 DEF Types
  <2> QED BY <1>0, <1>6, <2>1, Openings, BeginKeeps DEF exit
<1>7. CASE Return(t)
  BY <1>0, <1>1, <1>7, Openings, BeginKeeps DEF Return
<1> QED BY <1>2, <1>3, <1>4, <1>5, <1>6, <1>7 DEF Program

-----------------------------------------------------------------------------
(* The steps *)

LEMMA StepAt ==
  ASSUME AInv, NEW t \in Tasks, NEW op, At(t, op)
  PROVE  /\ state[t] = "live" /\ todo[t] # << >> /\ Head(todo[t]) = todo[t][1] /\ todo[t][1][1] = op
         /\ todo[t] \in Seq(Step) /\ todo[t][1][2] \in Nat /\ IsList(prog, todo[t]) /\ prog \in Programs
         /\ proc[t] \in Procs /\ lb[t] \in Seq(Byte) /\ Len(lb[t]) \in Nat /\ Len(lb[t]) <= PIPE_BUF
         /\ start[t] \in Nat /\ start[t] <= Len(lb[t]) /\ Listed(t)
         /\ op # "flush" => start[t] = 0
<1>1. state[t] = "live" /\ todo[t] # << >> /\ Head(todo[t])[1] = op
  BY DEF At
<1>2. /\ proc[t] \in Procs /\ todo[t] \in Seq(Step) /\ lb[t] \in Seq(Byte) /\ prog \in Programs
      /\ Len(lb[t]) \in Nat /\ start[t] \in Nat /\ start[t] <= Len(lb[t]) /\ Len(lb[t]) <= PIPE_BUF
      /\ Listed(t)
  BY <1>1, LiveTask
<1>3. Head(todo[t]) = todo[t][1] /\ todo[t][1] \in Step
  BY <1>1, <1>2, TailSteps
<1>4. todo[t][1][2] \in Nat
  BY <1>3 DEF Step
<1>5. IsList(prog, todo[t]) /\ (op # "flush" => start[t] = 0)
  BY <1>1, <1>2, <1>3 DEF Listed
<1> QED BY <1>1, <1>2, <1>3, <1>4, <1>5

(* A step of a call, after which the task goes on. *)
LEMMA DoneKeeps ==
  ASSUME AInv, NEW t \in Tasks, NEW op, At(t, op), Plain(prog, todo[t]) \/ Exits(todo[t]), op # "die",
         Done(t), Types', UNCHANGED <<prog, proc, state>>,
         \A u \in Tasks \ {t} : lb'[u] = lb[u] /\ start'[u] = start[u] /\ nrec'[u] = nrec[u],
         Len(lb'[t]) <= PIPE_BUF, start'[t] = 0, op \in {"flush", "close"} => lb'[t] = << >>,
         Made' \subseteq Made, Descriptors'
  PROVE  AInv'
<1> DEFINE q == todo[t]
           r == Tail(q)
<1>1. /\ state[t] = "live" /\ q # << >> /\ q[1][1] = op /\ q \in Seq(Step)
      /\ prog \in Programs /\ proc[t] \in Procs
  BY StepAt
<1>2. /\ r \in Seq(Step) /\ (Plain(prog, r) \/ Exits(r))
      /\ ~Starts(r) /\ r # Socket
      /\ r # << >> /\ r[1][1] \in AfterFlush => q[1][1] \in {"flush", "close"}
  BY <1>1, DoneList
<1>3. todo \in [Tasks -> Seq(Step)] /\ lb' \in [Tasks -> Seq(Byte)]
  BY DEF AInv, Types
<1>4. todo'[t] = r /\ \A u \in Tasks \ {t} : todo'[u] = todo[u]
  BY <1>3 DEF Done
<1> HIDE DEF q, r
<1>5. Listed(t)'
  BY <1>1, <1>2, <1>4 DEF Listed, IsList
<1>6. Task(t)'
  <2>1. Len(lb'[t]) \in Nat
    BY <1>3
  <2>2. 0 <= Len(lb'[t])
    BY <2>1
  <2> QED BY <1>1, <1>5, <2>2 DEF Task
<1>7. \A u \in Tasks \ {t} : SameTask(u)
  BY <1>4 DEF SameTask
<1> QED BY <1>2, <1>4, <1>6, <1>7, ClosingOne

(* A step of logd_init(). *)
LEMMA StartKeeps ==
  ASSUME AInv, NEW t \in Tasks, state[t] = "live", Starts(todo[t]), Done(t), Types',
         UNCHANGED <<prog, proc, state, start, nrec>>,
         \A u \in Tasks \ {t} : lb'[u] = lb[u], lb'[t] = << >>
  PROVE  /\ \A u \in Tasks : Task(u)'
         /\ \A u \in Tasks \ {t} : SameTask(u)
         /\ todo'[t] = Tail(todo[t]) /\ todo'[t] # Socket
<1> DEFINE q == todo[t]
           r == Tail(q)
<1>1. /\ proc[t] \in Procs /\ prog \in Programs /\ start[t] = 0 /\ q # << >>
  BY LiveTask, StartTypes DEF Listed, AfterFlush
<1>2. todo \in [Tasks -> Seq(Step)]
  BY DEF AInv, Types
<1>3. todo'[t] = r /\ \A u \in Tasks \ {t} : todo'[u] = todo[u]
  BY <1>2 DEF Done
<1>4. IsList(prog, r) /\ r # Socket
  <2>1. CASE q = Ctx
    <3>1. r = <<log(2)>>
      BY <2>1, StartLists
    <3>2. Plain(prog, r) /\ r \in Seq(Step)
      BY <1>1, <3>1, PlainLists, Constants, ZenonT(60)
    <3>3. r # Socket
      BY <1>1, <3>2, NotStarts
    <3> QED BY <3>2, <3>3 DEF IsList
  <2>2. CASE q # Ctx
    BY <2>2, StartTail DEF Starts, IsList
  <2> QED BY <2>1, <2>2
<1> HIDE DEF q, r
<1>5. Listed(t)'
  BY <1>1, <1>3, <1>4 DEF Listed
<1>6. Task(t)'
  BY <1>1, <1>5, Constants DEF Task
<1>7. \A u \in Tasks \ {t} : SameTask(u)
  BY <1>3 DEF SameTask
<1>8. \A u \in Tasks \ {t} : Task(u)'
  BY <1>7, TaskFrame DEF AInv
<1> QED BY <1>3, <1>4, <1>6, <1>7, <1>8 DEF q, r

LEMMA StartKept ==
  ASSUME AInv, NEW t \in Tasks, state[t] = "live", Starts(todo[t]), Done(t), Types',
         UNCHANGED <<prog, proc, state, start, nrec>>,
         \A u \in Tasks \ {t} : lb'[u] = lb[u], lb'[t] = << >>,
         Made' \subseteq Made, Descriptors'
  PROVE  AInv'
<1>1. Task(t)' /\ (\A u \in Tasks \ {t} : SameTask(u)) /\ todo'[t] # Socket
  BY StartKeeps
<1> QED BY <1>1, ClosingOne

(* The size of a record that a task logs. *)
LEMMA LogSize ==
  ASSUME AInv, NEW t \in Tasks, NEW op \in {"log", "append"}, At(t, op)
  PROVE  /\ Plain(prog, todo[t]) \/ Exits(todo[t])
         /\ todo[t][1][2] \in Nat \ {0} /\ todo[t][1][2] \in prog.sizes \cup {CtlSize}
         /\ Exits(todo[t]) => todo[t][1][2] = CtlSize
         /\ op = "append" => todo[t][1][2] <= PIPE_BUF /\ lb[t] = << >>
<1>1. /\ todo[t] # << >> /\ todo[t][1][1] = op /\ todo[t] \in Seq(Step) /\ IsList(prog, todo[t])
      /\ prog \in Programs /\ Listed(t)
  BY StepAt
<1>2. Plain(prog, todo[t]) \/ Exits(todo[t])
  BY <1>1, ListAt
<1>3. Len(todo[t]) \in Nat /\ Len(todo[t]) >= 1
  BY <1>1
<1>4. op = "append" => lb[t] = << >>
  BY <1>1 DEF Listed, AfterFlush
<1>5. prog.sizes \subseteq Nat \ {0} /\ CtlSize = 2 /\ PIPE_BUF \in Nat /\ PIPE_BUF > 2
  BY <1>1, ProgramsAssumption, Constants
<1>6. CASE Plain(prog, todo[t])
  <2>1. /\ todo[t][1][2] \in prog.sizes \cup {CtlSize}
        /\ op = "append" => todo[t][1][2] <= PIPE_BUF
    BY <1>1, <1>3, <1>6 DEF Plain
  <2>2. ~Exits(todo[t])
    BY <1>1, <1>6, NotPlain
  <2> QED BY <1>4, <1>5, <1>6, <2>1, <2>2
<1>7. CASE Exits(todo[t])
  <2>1. todo[t][1][2] = CtlSize
    <3>1. 1 \in 1..Len(todo[t])-1
      BY <1>1, <1>3, <1>7 DEF Exits
    <3> QED BY <1>1, <1>7, <3>1 DEF Exits
  <2> QED BY <1>4, <1>5, <1>7, <2>1
<1> QED BY <1>2, <1>6, <1>7

(* A task that goes on with another list. *)
LEMMA ListKeeps ==
  ASSUME AInv, NEW t \in Tasks, state[t] = "live", NEW q, Opening(prog, q), Types',
         todo' = [todo EXCEPT ![t] = q], UNCHANGED <<prog, proc, state, lb, nrec>>,
         start'[t] = 0, \A u \in Tasks \ {t} : start'[u] = start[u],
         Made' \subseteq Made, Descriptors'
  PROVE  AInv'
<1>1. todo \in [Tasks -> Seq(Step)] /\ prog \in Programs
  BY DEF AInv, Types
<1>2. todo'[t] = q /\ \A u \in Tasks \ {t} : todo'[u] = todo[u]
  BY <1>1
<1>3. Task(t) /\ proc[t] \in Procs /\ Len(lb[t]) \in Nat
  BY LiveTask DEF AInv
<1>4. ~Starts(q) /\ q # Socket
  BY <1>1, NotStarts DEF Opening
<1>5. Listed(t)'
  BY <1>2, <1>4 DEF Listed, Opening, IsList, AfterFlush
<1>6. Task(t)'
  BY <1>3, <1>5 DEF Task
<1>7. \A u \in Tasks \ {t} : SameTask(u)
  BY <1>2 DEF SameTask
<1> QED BY <1>2, <1>4, <1>6, <1>7, ClosingOne

LEMMA FatalType ==
  ASSUME Types, NEW t \in Tasks, Fatal(t)
  PROVE  fate' \in [Procs -> {"running", "asked", "fatal"}]
BY DEF Types, Fatal

LEMMA PutKeeps ==
  ASSUME AInv, NEW t \in Tasks, NEW op \in {"log", "append"}, At(t, op),
         Put(t, todo[t][1][2]), Done(t), Len(lb[t]) + todo[t][1][2] <= PIPE_BUF,
         UNCHANGED <<proc, start, ctxfd, newfd, state, logfd, fdtab, up, wire, fate, parent, prog>>
  PROVE  AInv'
<1> DEFINE r == Tail(todo[t])
<1>1. /\ state[t] = "live" /\ todo[t] # << >> /\ todo[t] \in Seq(Step) /\ lb[t] \in Seq(Byte)
      /\ Len(lb[t]) \in Nat /\ start[t] = 0
  BY StepAt
<1>2. PICK s \in Nat \ {0} : s = todo[t][1][2]
  BY LogSize
<1>3. PICK n \in Nat : n = nrec[t] + 1
  BY DEF AInv, Types
<1>0. Plain(prog, todo[t]) \/ Exits(todo[t])
  BY LogSize
<1> DEFINE b == lb[t] \o Record(t, n, s)
<1>4. b \in Seq(Byte) /\ Len(b) = Len(lb[t]) + s
  <2>1. PICK q \in Seq(Byte) : q = lb[t]
    BY <1>1
  <2>2. LET z == q \o Record(t, n, s)
        IN  /\ z \in Seq(Byte) /\ Len(z) = Len(q) + s /\ Len(q) \in Nat
            /\ \A i \in 1..Len(q) : z[i] = q[i]
            /\ \A j \in 1..s : z[Len(q) + j] = <<t, n, j, s>>
    BY PutType, ZenonT(60)
  <2> QED BY <2>1, <2>2, Zenon
<1>5. r \in Seq(Step)
  BY <1>1, TailSteps
<1>6. lb' = [lb EXCEPT ![t] = b] /\ nrec' = [nrec EXCEPT ![t] = n] /\ todo' = [todo EXCEPT ![t] = r]
  BY <1>2, <1>3 DEF Put, Done, AInv, Types
<1> HIDE DEF b, r
<1>7. Types'
  BY <1>3, <1>4, <1>5, <1>6 DEF AInv, Types
<1>8. /\ lb'[t] = b
      /\ \A u \in Tasks \ {t} : lb'[u] = lb[u] /\ start'[u] = start[u] /\ nrec'[u] = nrec[u]
  BY <1>6 DEF AInv, Types
<1>9. Len(lb'[t]) <= PIPE_BUF /\ start'[t] = 0 /\ op \notin {"flush", "close"} /\ op # "die"
  BY <1>1, <1>2, <1>4, <1>8
<1>10. Made' \subseteq Made /\ Descriptors'
  BY SameFds
<1> QED BY <1>0, <1>7, <1>8, <1>9, <1>10, DoneKeeps

LEMMA AllocKeeps ==
  ASSUME AInv, NEW t \in Tasks, lb_alloc_bytes(t)
  PROVE  AInv'
<1> DEFINE s == todo[t][1][2]
<1>1. At(t, "log") /\ UNCHANGED <<proc, start, ctxfd, newfd, state, logfd, fdtab, up, wire, parent, prog>>
  BY DEF lb_alloc_bytes, kernel
<1>2. /\ state[t] = "live" /\ todo[t] # << >> /\ Head(todo[t]) = todo[t][1] /\ todo[t][1][1] = "log"
      /\ todo[t] \in Seq(Step) /\ s \in Nat /\ prog \in Programs /\ Len(lb[t]) \in Nat /\ start[t] = 0
  BY <1>1, StepAt
<1>3. Plain(prog, todo[t]) \/ Exits(todo[t])
  BY <1>1, LogSize
<1>4. Made' \subseteq Made /\ Descriptors'
  BY <1>1, SameFds
<1>5. Types
  BY DEF AInv
<1>6. CASE todo' = [todo EXCEPT ![t] = exit_steps] /\ Fatal(t) /\ UNCHANGED <<nrec, lb>>
  <2>1. Opening(prog, exit_steps)
    BY <1>2, Openings
  <2>2. fate' \in [Procs -> {"running", "asked", "fatal"}] /\ exit_steps \in Seq(Step)
    BY <1>5, <1>6, <2>1, FatalType DEF Opening
  <2>3. Types'
    BY <1>1, <1>5, <1>6, <2>2 DEF Types
  <2> QED BY <1>1, <1>2, <1>4, <1>6, <2>1, <2>3, ListKeeps
<1>7. CASE s <= PIPE_BUF /\ todo' = [todo EXCEPT ![t] = <<flush, append(s)>> \o Tail(@)] /\ UNCHANGED <<nrec, lb, fate>>
  <2> DEFINE q == <<flush, append(s)>> \o Tail(todo[t])
  <2>1. /\ q \in Seq(Step) /\ q # << >> /\ q[1][1] = "flush"
        /\ Plain(prog, q) \/ Exits(q)
    BY <1>2, <1>3, <1>7, Expanded
  <2>2. todo' = [todo EXCEPT ![t] = q]
    BY <1>5, <1>7 DEF Types
  <2> HIDE DEF q
  <2>3. Opening(prog, q)
    BY <2>1 DEF Opening
  <2>4. UNCHANGED <<nrec, lb, fate>>
    BY <1>7
  <2>5. Types'
    BY <1>1, <1>5, <2>1, <2>2, <2>4 DEF Types
  <2> QED BY <1>1, <1>2, <1>4, <2>2, <2>3, <2>4, <2>5, ListKeeps
<1>8. CASE s <= PIPE_BUF /\ ~NoRoom(t, s) /\ Put(t, s) /\ Done(t) /\ UNCHANGED fate
  <2>1. Len(lb[t]) + s <= PIPE_BUF
    BY <1>2, <1>8, Constants DEF NoRoom
  <2> QED BY <1>1, <1>8, <2>1, PutKeeps
<1> QED BY <1>2, <1>6, <1>7, <1>8 DEF lb_alloc_bytes

LEMMA AppendKeeps ==
  ASSUME AInv, NEW t \in Tasks, LogAfterFlush(t)
  PROVE  AInv'
<1>1. At(t, "append") /\ UNCHANGED <<proc, start, ctxfd, newfd, state, logfd, fdtab, up, wire, fate, parent, prog>>
  BY DEF LogAfterFlush, kernel
<1>2. Put(t, todo[t][1][2]) /\ Done(t)
  BY <1>1, StepAt DEF LogAfterFlush
<1>3. todo[t][1][2] \in Nat /\ todo[t][1][2] <= PIPE_BUF /\ lb[t] = << >>
  BY <1>1, LogSize
<1>4. Len(lb[t]) + todo[t][1][2] <= PIPE_BUF
  BY <1>3
<1> QED BY <1>1, <1>2, <1>4, PutKeeps

LEMMA WriteKeeps ==
  ASSUME AInv, NEW t \in Tasks, lb_flush_write(t)
  PROVE  AInv'
<1> DEFINE c == ConnOf(t)
<1>1. /\ At(t, "flush") /\ c \in up
      /\ UNCHANGED <<proc, todo, lb, nrec, ctxfd, newfd, state, logfd, fdtab, up, fate, parent, prog>>
  BY DEF lb_flush_write
<1>2. PICK r \in 1..Len(lb[t]) - start[t] :
        /\ wire' = [wire EXCEPT ![c] = @ \o SubSeq(lb[t], start[t] + 1, start[t] + r)]
        /\ start' = [start EXCEPT ![t] = @ + r]
  BY DEF lb_flush_write
<1>3. /\ state[t] = "live" /\ todo[t] # << >> /\ todo[t][1][1] = "flush" /\ lb[t] \in Seq(Byte)
      /\ Len(lb[t]) \in Nat /\ start[t] \in Nat /\ Len(lb[t]) <= PIPE_BUF /\ Listed(t)
      /\ todo[t] \in Seq(Step) /\ IsList(prog, todo[t]) /\ prog \in Programs
  BY <1>1, StepAt
<1>4. Types /\ c \in Conns
  BY <1>1 DEF AInv, Types
<1> HIDE DEF c
<1> DEFINE w == SubSeq(lb[t], start[t] + 1, start[t] + r)
<1>5. w \in Seq(Byte)
  <2>1. \A i \in start[t]+1..start[t]+r : lb[t][i] \in Byte
    BY <1>3
  <2>2. start[t] + 1 \in Int /\ start[t] + r \in Int
    BY <1>3
  <2> QED BY <2>1, <2>2, SubSeqProperties
<1>6. wire[c] \in Seq(Byte)
  BY <1>4 DEF Types
<1> HIDE DEF w
<1>7. wire[c] \o w \in Seq(Byte)
  BY <1>5, <1>6, ConcatProperties
<1>8. wire' = [wire EXCEPT ![c] = wire[c] \o w] /\ start' = [start EXCEPT ![t] = start[t] + r]
  BY <1>2, <1>4 DEF Types, w
<1>9. start[t] + r \in Nat /\ start[t] + r <= Len(lb[t])
  BY <1>3
<1>10. Types'
  BY <1>1, <1>4, <1>7, <1>8, <1>9 DEF Types
<1>11. start'[t] = start[t] + r /\ \A u \in Tasks \ {t} : start'[u] = start[u]
  BY <1>4, <1>8 DEF Types
<1>12. todo[t] # Socket
  BY <1>3, ListAt, NotStarts
<1>13. Task(t)'
  <2>1. Task(t)
    BY DEF AInv
  <2>2. Listed(t)'
    BY <1>1, <1>3 DEF Listed
  <2> QED BY <1>1, <1>3, <1>9, <1>11, <2>1, <2>2 DEF Task
<1>14. \A u \in Tasks \ {t} : SameTask(u)
  BY <1>1, <1>11 DEF SameTask
<1>15. Made' \subseteq Made /\ Descriptors'
  BY <1>1, SameFds
<1> QED BY <1>1, <1>10, <1>12, <1>13, <1>14, <1>15, ClosingOne

LEMMA FlushedKeeps ==
  ASSUME AInv, NEW t \in Tasks, lb_flush_done(t)
  PROVE  AInv'
<1>1. /\ At(t, "flush") /\ lb' = [lb EXCEPT ![t] = << >>] /\ start' = [start EXCEPT ![t] = 0] /\ Done(t)
      /\ UNCHANGED <<proc, nrec, ctxfd, newfd, state, logfd, fdtab, up, wire, fate, parent, prog>>
  BY DEF lb_flush_done, kernel
<1>2. /\ state[t] = "live" /\ todo[t] # << >> /\ todo[t][1][1] = "flush" /\ todo[t] \in Seq(Step)
      /\ IsList(prog, todo[t]) /\ prog \in Programs
  BY <1>1, StepAt
<1>3. (Plain(prog, todo[t]) \/ Exits(todo[t])) /\ Tail(todo[t]) \in Seq(Step)
  BY <1>2, ListAt, TailSteps
<1>4. Types
  BY DEF AInv
<1>5. Types'
  <2>1. << >> \in Seq(Byte)
    OBVIOUS
  <2>2. todo' \in [Tasks -> Seq(Step)] /\ lb' \in [Tasks -> Seq(Byte)] /\ start' \in [Tasks -> Nat]
    BY <1>1, <1>3, <1>4, <2>1 DEF Types, Done
  <2> QED BY <1>1, <1>4, <2>2 DEF Types
<1>6. /\ lb'[t] = << >> /\ start'[t] = 0
      /\ \A u \in Tasks \ {t} : lb'[u] = lb[u] /\ start'[u] = start[u] /\ nrec'[u] = nrec[u]
  BY <1>1, <1>4 DEF Types
<1>7. Len(lb'[t]) <= PIPE_BUF
  BY <1>6, Constants
<1>8. Made' \subseteq Made /\ Descriptors'
  BY <1>1, SameFds
<1> QED BY <1>1, <1>3, <1>5, <1>6, <1>7, <1>8, DoneKeeps

(* The process of t ends. *)
LEMMA GoneKeeps ==
  ASSUME AInv, NEW t \in Tasks, state[t] = "live", Gone(t), todo' \in [Tasks -> Seq(Step)],
         \A u \in Tasks \ {t} : todo'[u] = todo[u],
         fate' \in [Procs -> {"running", "asked", "fatal"}],
         UNCHANGED <<proc, lb, start, nrec, ctxfd, newfd, logfd, up, wire, parent, prog>>
  PROVE  AInv'
<1>1. /\ Types /\ proc[t] \in Procs /\ \A u \in Tasks : Task(u)
  BY LiveTask DEF AInv
<1>2. /\ state' = [u \in Tasks |-> IF proc[u] = proc[t] THEN "ended" ELSE state[u]]
      /\ fdtab' = [fdtab EXCEPT ![proc[t]] = [f \in Fds |-> None]]
  BY DEF Gone
<1>3. [f \in Fds |-> None] \in [Fds -> Conns \cup {None}]
  OBVIOUS
<1>4. state' \in [Tasks -> {"idle", "live", "ended"}] /\ fdtab' \in [Procs -> [Fds -> Conns \cup {None}]]
  BY <1>1, <1>2, <1>3 DEF Types
<1>5. Types'
  BY <1>1, <1>4 DEF Types
<1>6. \A p \in Procs, f \in Fds : fdtab'[p][f] \in {fdtab[p][f], None}
  BY <1>1, <1>2 DEF Types
<1>7. Made' \subseteq Made /\ Descriptors'
  BY <1>6, FewerFds
<1>8. \A u \in Tasks \ {t} : SameTask(u)
  BY <1>1, <1>2 DEF SameTask
<1>9. state'[t] = "ended"
  BY <1>2
<1>10. Task(t)'
  BY <1>1, <1>9 DEF Task
<1> QED BY <1>5, <1>7, <1>8, <1>9, <1>10, ClosingOne

LEMMA FailsKeeps ==
  ASSUME AInv, NEW t \in Tasks, lb_flush_fails(t)
  PROVE  AInv'
<1>1. /\ At(t, "flush") /\ Fatal(t)
      /\ UNCHANGED <<proc, lb, nrec, ctxfd, newfd, logfd, up, wire, parent, prog>>
  BY DEF lb_flush_fails
<1>2. Types /\ state[t] = "live" /\ prog \in Programs
  BY <1>1, StepAt DEF AInv
<1>3. fate' \in [Procs -> {"running", "asked", "fatal"}]
  BY <1>1, <1>2, FatalType
<1>4. CASE /\ todo' = [todo EXCEPT ![t] = exit_steps] /\ start' = [start EXCEPT ![t] = 0]
           /\ UNCHANGED <<state, fdtab>>
  <2>1. Opening(prog, exit_steps)
    BY <1>2, Openings
  <2>2. exit_steps \in Seq(Step)
    BY <2>1 DEF Opening
  <2>3. start'[t] = 0 /\ \A u \in Tasks \ {t} : start'[u] = start[u]
    BY <1>2, <1>4 DEF Types
  <2>4. Types'
    BY <1>1, <1>2, <1>3, <1>4, <2>2 DEF Types
  <2>5. Made' \subseteq Made /\ Descriptors'
    BY <1>1, <1>4, SameFds
  <2> QED BY <1>1, <1>2, <1>4, <2>1, <2>3, <2>4, <2>5, ListKeeps
<1>5. CASE Gone(t) /\ UNCHANGED <<todo, start>>
  <2>1. todo' \in [Tasks -> Seq(Step)] /\ \A u \in Tasks \ {t} : todo'[u] = todo[u]
    BY <1>2, <1>5 DEF Types
  <2> QED BY <1>1, <1>2, <1>3, <1>5, <2>1, GoneKeeps
<1> QED BY <1>4, <1>5 DEF lb_flush_fails

(* A task and a process that are not used yet. *)
LEMMA Unused ==
  ASSUME AInv
  PROVE  /\ IdleTasks # {} => MinOf(IdleTasks) \in Tasks /\ state[MinOf(IdleTasks)] = "idle"
         /\ IdleProcs # {} => MinOf(IdleProcs) \in Procs /\ \A u \in Tasks : proc[u] # MinOf(IdleProcs)
<1>1. prog.tasks \in 1..NTasks /\ prog.procs \in 1..NProcs
  BY ProgramsAssumption DEF AInv, Types
<1>2. IdleTasks \in SUBSET Nat /\ IdleProcs \in SUBSET Nat
  BY <1>1, Constants DEF IdleTasks, IdleProcs
<1>3. \A u \in IdleTasks : u \in Tasks /\ state[u] = "idle"
  BY <1>1, Constants DEF IdleTasks, Tasks
<1>4. \A p \in IdleProcs : p \in Procs /\ \A u \in Tasks : proc[u] # p
  BY <1>1, Constants DEF IdleProcs, Procs
<1>5. IdleTasks # {} => MinOf(IdleTasks) \in IdleTasks
  BY <1>2, MinOfIn
<1>6. IdleProcs # {} => MinOf(IdleProcs) \in IdleProcs
  BY <1>2, MinOfIn
<1> QED BY <1>3, <1>4, <1>5, <1>6

(* A step that fails, of a call that goes on. *)
LEMMA FailedKeeps ==
  ASSUME AInv, NEW t \in Tasks, NEW op \in {"fork", "spawn", "exec"}, At(t, op), Done(t),
         UNCHANGED <<proc, lb, start, nrec, ctxfd, newfd, state, logfd, fdtab, up, wire, fate, parent, prog>>
  PROVE  AInv'
<1>1. /\ todo[t] # << >> /\ todo[t] \in Seq(Step) /\ IsList(prog, todo[t]) /\ prog \in Programs
      /\ todo[t][1][1] = op /\ start[t] = 0 /\ Len(lb[t]) <= PIPE_BUF
  BY StepAt
<1>2. Plain(prog, todo[t]) /\ Tail(todo[t]) \in Seq(Step)
  BY <1>1, ListAt, TailSteps
<1>3. Types'
  BY <1>2 DEF AInv, Types, Done
<1>4. Made' \subseteq Made /\ Descriptors'
  BY SameFds
<1> QED BY <1>1, <1>2, <1>3, <1>4, DoneKeeps

LEMMA ForkKeeps ==
  ASSUME AInv, NEW t \in Tasks, fork_child(t)
  PROVE  AInv'
<1>1. At(t, "fork") /\ Done(t) /\ UNCHANGED <<fate, up, wire, prog>>
  BY DEF fork_child
<1>2. CASE UNCHANGED <<task, logfd, fdtab, parent>>
  BY <1>1, <1>2, FailedKeeps DEF task
<1>3. CASE ~(IdleTasks = {} \/ IdleProcs = {})
  <2>1. PICK u \in Tasks : u = MinOf(IdleTasks) /\ state[u] = "idle"
    BY <1>3, Unused
  <2>2. PICK p \in Procs : p = MinOf(IdleProcs) /\ \A v \in Tasks : proc[v] # p
    BY <1>3, Unused
  <2>3. /\ proc'  = [proc EXCEPT ![u] = p] /\ state' = [state EXCEPT ![u] = "live"]
        /\ logfd' = [logfd EXCEPT ![p] = logfd[proc[t]]] /\ fdtab' = [fdtab EXCEPT ![p] = fdtab[proc[t]]]
        /\ ctxfd' = [ctxfd EXCEPT ![u] = logfd[proc[t]]] /\ parent' = [parent EXCEPT ![u] = <<t, nrec[t]>>]
        /\ nrec'  = [nrec EXCEPT ![u] = 1] /\ lb' = [lb EXCEPT ![u] = Record(u, 1, CtlSize)]
        /\ UNCHANGED <<start, newfd>>
    BY <1>3, <2>1, <2>2 DEF fork_child
  <2>4. /\ state[t] = "live" /\ todo[t] # << >> /\ todo[t] \in Seq(Step) /\ IsList(prog, todo[t])
        /\ prog \in Programs /\ todo[t][1][1] = "fork" /\ start[t] = 0 /\ proc[t] \in Procs
    BY <1>1, StepAt
  <2>5. Types /\ Task(t) /\ Task(u) /\ t # u
    BY <2>1, <2>4 DEF AInv
  <2>6. Record(u, 1, CtlSize) \in Seq(Byte) /\ Len(Record(u, 1, CtlSize)) = 2
    <3>1. 1 \in Nat /\ CtlSize \in Nat \ {0} /\ CtlSize = 2
      BY Constants
    <3>2. Record(u, 1, CtlSize) \in Seq(Byte) /\ Len(Record(u, 1, CtlSize)) = CtlSize
      BY <3>1, RecordType, Zenon
    <3> QED BY <3>1, <3>2
  <2>7. Plain(prog, todo[t]) /\ Tail(todo[t]) \in Seq(Step)
    BY <2>4, ListAt, TailSteps
  <2>8. /\ Plain(prog, Tail(todo[t])) /\ ~Starts(Tail(todo[t])) /\ Tail(todo[t]) # Socket
        /\ ~(Tail(todo[t]) # << >> /\ Tail(todo[t])[1][1] \in AfterFlush)
    BY <2>4, <2>7, DoneList
  <2> DEFINE R == Record(u, 1, CtlSize)
             r == Tail(todo[t])
  <2>9. lb' = [lb EXCEPT ![u] = R] /\ todo' = [todo EXCEPT ![t] = r]
    BY <1>1, <2>3 DEF Done
  <2> HIDE DEF R, r
  <2>10. Types'
    <3>1. /\ R \in Seq(Byte) /\ r \in Seq(Step) /\ <<t, nrec[t]>> \in (Tasks \cup {None}) \X Nat
          /\ logfd[proc[t]] \in Fds \cup {-1} /\ fdtab[proc[t]] \in [Fds -> Conns \cup {None}]
      BY <2>4, <2>5, <2>6, <2>7 DEF Types, R, r
    <3>2. /\ proc' \in [Tasks -> Procs \cup {None}] /\ todo' \in [Tasks -> Seq(Step)]
          /\ lb' \in [Tasks -> Seq(Byte)] /\ nrec' \in [Tasks -> Nat]
          /\ state' \in [Tasks -> {"idle", "live", "ended"}]
      BY <2>3, <2>5, <2>9, <3>1 DEF Types
    <3>3. /\ logfd' \in [Procs -> Fds \cup {-1}] /\ fdtab' \in [Procs -> [Fds -> Conns \cup {None}]]
          /\ ctxfd' \in [Tasks -> Fds \cup {-1}] /\ parent' \in [Tasks -> (Tasks \cup {None}) \X Nat]
      BY <2>3, <2>5, <3>1 DEF Types
    <3> QED BY <1>1, <2>3, <2>5, <3>2, <3>3 DEF Types
  <2>11. /\ lb'[u] = R /\ lb'[t] = lb[t] /\ todo'[u] = << >> /\ todo'[t] = r /\ proc'[u] = p /\ proc'[t] = proc[t]
         /\ state'[t] = "live" /\ state'[u] = "live" /\ start'[u] = 0 /\ start'[t] = 0
    <3>1. todo[u] = << >> /\ lb[u] = << >> /\ start[u] = 0
      <4>1. todo[u] = << >> /\ lb[u] = << >> /\ start[u] <= Len(lb[u]) /\ start[u] \in Nat
        BY <2>1, <2>5 DEF Types, Task
      <4> QED BY <4>1
    <3>2. lb'[u] = R /\ lb'[t] = lb[t] /\ todo'[u] = todo[u] /\ todo'[t] = r
      BY <2>5, <2>9 DEF Types
    <3>3. proc'[u] = p /\ proc'[t] = proc[t] /\ state'[t] = state[t] /\ state'[u] = "live"
      BY <2>3, <2>5 DEF Types
    <3> QED BY <2>3, <2>4, <3>1, <3>2, <3>3
  <2>12. Task(t)'
    <3>1. Listed(t)'
      BY <1>1, <2>8, <2>11 DEF Listed, IsList, r
    <3> QED BY <2>4, <2>5, <2>11, <2>3, <3>1 DEF Task
  <2>13. Task(u)'
    <3>1. Plain(prog, << >>) /\ ~Starts(<< >>)
      BY <2>4, PlainLists, StartTypes
    <3>2. Listed(u)'
      BY <1>1, <2>11, <3>1 DEF Listed, IsList
    <3>3. Len(lb'[u]) = 2
      BY <2>6, <2>11 DEF R
    <3> QED BY <2>11, <3>2, <3>3, Constants DEF Task
  <2>14. \A v \in Tasks \ {t, u} : SameTask(v)
    BY <1>1, <2>3, <2>5, <2>9 DEF SameTask, Types
  <2>15. \A x \in Procs, f \in Fds : fdtab'[x][f] = IF x = p THEN fdtab[proc[t]][f] ELSE fdtab[x][f]
    BY <2>3, <2>5 DEF Types
  <2>16. Made' \subseteq Made
    BY <1>1, <2>4, <2>15 DEF Made
  <2>17. Descriptors'
    BY <2>4, <2>15 DEF AInv, Descriptors
  <2>18. todo'[u] # Socket /\ todo'[t] # Socket
    BY <2>8, <2>11, StartTypes DEF r, Starts
  <2> DEFINE T == {t, u}
  <2>19. T \in SUBSET Tasks /\ \A v \in Tasks \ T : SameTask(v)
    BY <2>14
  <2>20. \A v \in T : Task(v)' /\ (state'[v] = "live" => todo'[v] # Socket)
    BY <2>12, <2>13, <2>18
  <2> HIDE DEF T
  <2> QED BY <1>1, <2>10, <2>16, <2>17, <2>19, <2>20, Closing
<1> QED BY <1>2, <1>3 DEF fork_child

(* A task that is about to make a connection, where there is one left. *)
LEMMA RoomGrows ==
  ASSUME AInv, UNCHANGED prog, NEW u \in Tasks, Claimed < prog.conns,
         Claims' \subseteq Claims \cup {u}, Made' \subseteq Made
  PROVE  Room'
<1>1. /\ IsFiniteSet(Made) /\ IsFiniteSet(Claims) /\ Cardinality(Made) \in Nat /\ Cardinality(Claims) \in Nat
      /\ Claimed = Cardinality(Made) + Cardinality(Claims)
  BY Finite, ClaimedIs DEF AInv
<1>2. PICK M : M = Made'
  OBVIOUS
<1>3. PICK C : C = Claims'
  OBVIOUS
<1>4. PICK D : D = Claims \cup {u}
  OBVIOUS
<1>5. IsFiniteSet(D) /\ Cardinality(D) <= Cardinality(Claims) + 1 /\ Cardinality(D) \in Nat
  <2>1. /\ IsFiniteSet(Claims \cup {u})
        /\ Cardinality(Claims \cup {u}) = IF u \in Claims THEN Cardinality(Claims) ELSE Cardinality(Claims)+1
    BY <1>1, FS_AddElement
  <2> QED BY <1>1, <1>4, <2>1
<1>6. Cardinality(M) <= Cardinality(Made) /\ Cardinality(M) \in Nat /\ Cardinality(C) <= Cardinality(D) /\ Cardinality(C) \in Nat
  BY <1>1, <1>2, <1>3, <1>4, <1>5, Less
<1>7. prog.conns \in Nat
  BY Constants, ProgramsAssumption DEF AInv, Types
<1>8. Cardinality(M) + Cardinality(C) <= prog.conns
  BY <1>1, <1>5, <1>6, <1>7
<1>9. Cardinality(Made)' = Cardinality(M) /\ Cardinality(Claims)' = Cardinality(C)
  BY <1>2, <1>3
<1> QED BY <1>8, <1>9 DEF Room

(* A task that makes its connection. *)
LEMMA RoomMade ==
  ASSUME AInv, UNCHANGED prog, NEW t \in Claims, NEW c \in Conns,
         Claims' \subseteq Claims \ {t}, Made' \subseteq Made \cup {c}
  PROVE  Room'
<1>1. /\ IsFiniteSet(Made) /\ IsFiniteSet(Claims) /\ Cardinality(Made) \in Nat /\ Cardinality(Claims) \in Nat
  BY Finite DEF AInv
<1>2. PICK M : M = Made'
  OBVIOUS
<1>3. PICK C : C = Claims'
  OBVIOUS
<1>4. PICK D : D = Claims \ {t}
  OBVIOUS
<1>5. PICK N : N = Made \cup {c}
  OBVIOUS
<1>6. IsFiniteSet(D) /\ Cardinality(D) = Cardinality(Claims) - 1
  BY <1>1, <1>4, FS_RemoveElement
<1>7. IsFiniteSet(N) /\ Cardinality(N) <= Cardinality(Made) + 1
  <2>1. /\ IsFiniteSet(Made \cup {c})
        /\ Cardinality(Made \cup {c}) = IF c \in Made THEN Cardinality(Made) ELSE Cardinality(Made)+1
    BY <1>1, FS_AddElement
  <2> QED BY <1>1, <1>5, <2>1
<1>8. /\ Cardinality(M) <= Cardinality(N) /\ Cardinality(M) \in Nat /\ Cardinality(N) \in Nat
      /\ Cardinality(C) <= Cardinality(D) /\ Cardinality(C) \in Nat /\ Cardinality(D) \in Nat
  BY <1>2, <1>3, <1>4, <1>5, <1>6, <1>7, Less
<1>9. Cardinality(Made) + Cardinality(Claims) <= prog.conns /\ prog.conns \in Nat
  BY Constants, ProgramsAssumption DEF AInv, Room, Types
<1>10. Cardinality(M) + Cardinality(C) <= prog.conns
  BY <1>1, <1>6, <1>7, <1>8, <1>9
<1>11. Cardinality(Made)' = Cardinality(M) /\ Cardinality(Claims)' = Cardinality(C)
  BY <1>2, <1>3
<1> QED BY <1>10, <1>11 DEF Room

(* A task u that starts logd_init(). *)
LEMMA StartsHere ==
  ASSUME Types, NEW u \in Tasks, lb'[u] = << >>, start'[u] = 0, proc'[u] \in Procs, todo'[u] = Socket,
         state'[u] = "live"
  PROVE  Task(u)'
<1>1. Listed(u)'
  BY StartTail DEF Listed, IsList
<1> QED BY <1>1, Constants DEF Task

LEMMA SpawnKeeps ==
  ASSUME AInv, NEW t \in Tasks, spawn(t)
  PROVE  AInv'
<1>1. At(t, "spawn") /\ UNCHANGED <<lb, start, nrec, ctxfd, newfd, logfd, fdtab, up, wire, fate, parent, prog>>
  BY DEF spawn, kernel
<1>2. CASE Done(t) /\ UNCHANGED <<proc, state>>
  BY <1>1, <1>2, FailedKeeps
<1>3. CASE ~(IdleTasks = {} \/ Claimed >= prog.conns)
  <2>1. PICK u \in Tasks : u = MinOf(IdleTasks) /\ state[u] = "idle"
    BY <1>3, Unused
  <2> DEFINE r == Tail(todo[t])
  <2>2. /\ proc'  = [proc EXCEPT ![u] = proc[t]] /\ state' = [state EXCEPT ![u] = "live"]
        /\ todo'  = [todo EXCEPT ![t] = Tail(@), ![u] = Socket]
    BY <1>3, <2>1 DEF spawn, Socket
  <2>3. /\ state[t] = "live" /\ todo[t] # << >> /\ todo[t] \in Seq(Step) /\ IsList(prog, todo[t])
        /\ prog \in Programs /\ todo[t][1][1] = "spawn" /\ start[t] = 0 /\ proc[t] \in Procs
    BY <1>1, StepAt
  <2>4. Types /\ Task(t) /\ Task(u) /\ t # u
    BY <2>1, <2>3 DEF AInv
  <2>5. Plain(prog, todo[t])
    BY <2>3, ListAt
  <2>6. /\ r \in Seq(Step) /\ Plain(prog, r) /\ ~Starts(r) /\ r # Socket
        /\ ~(r # << >> /\ r[1][1] \in AfterFlush)
    BY <2>3, <2>5, DoneList
  <2>7. Socket \in Seq(Step)
    BY StartTail, StartTypes
  <2>8. todo' \in [Tasks -> Seq(Step)] /\ todo'[t] = r /\ todo'[u] = Socket /\ \A v \in Tasks \ {t, u} : todo'[v] = todo[v]
    BY <2>2, <2>4, <2>6, <2>7 DEF Types
  <2> HIDE DEF r
  <2>9. proc'[u] = proc[t] /\ state'[u] = "live" /\ \A v \in Tasks \ {u} : proc'[v] = proc[v] /\ state'[v] = state[v]
    BY <2>2, <2>4 DEF Types
  <2>10. Types'
    BY <1>1, <2>2, <2>3, <2>4, <2>8 DEF Types
  <2>11. lb[u] = << >> /\ start[u] = 0 /\ todo[u] = << >>
    <3>1. todo[u] = << >> /\ lb[u] = << >> /\ start[u] <= Len(lb[u]) /\ start[u] \in Nat
      BY <2>1, <2>4 DEF Types, Task
    <3> QED BY <3>1
  <2>12. Task(u)'
    BY <1>1, <2>3, <2>4, <2>8, <2>9, <2>11, StartsHere
  <2>13. Task(t)'
    <3>1. Listed(t)'
      BY <1>1, <2>3, <2>6, <2>8 DEF Listed, IsList
    <3> QED BY <1>1, <2>3, <2>4, <2>9, <3>1 DEF Task
  <2>14. \A v \in Tasks \ {t, u} : SameTask(v)
    BY <1>1, <2>8, <2>9 DEF SameTask
  <2>15. \A v \in Tasks : Task(v)'
    BY <1>1, <2>12, <2>13, <2>14, TaskFrame DEF AInv
  <2>16. Made' \subseteq Made /\ Descriptors'
    BY <1>1, SameFds
  <2>17. Claims' \subseteq Claims \cup {u}
    BY <2>6, <2>8, <2>9 DEF Claims
  <2>18. Claimed < prog.conns
    <3>1. Claimed \in Nat /\ prog.conns \in Nat
      <4>1. /\ Cardinality(Made) \in Nat /\ Cardinality(Claims) \in Nat
            /\ Claimed = Cardinality(Made) + Cardinality(Claims)
        BY <2>4, Finite, ClaimedIs
      <4>2. prog.conns \in Nat
        BY <2>3, Constants, ProgramsAssumption
      <4> QED BY <4>1, <4>2
    <3> QED BY <1>3, <3>1
  <2>19. Room'
    BY <1>1, <2>16, <2>17, <2>18, RoomGrows
  <2> QED BY <2>10, <2>15, <2>16, <2>19 DEF AInv
<1> QED BY <1>2, <1>3 DEF spawn

LEMMA ExecKeeps ==
  ASSUME AInv, NEW t \in Tasks, exec(t)
  PROVE  AInv'
<1>1. At(t, "exec") /\ UNCHANGED <<proc, lb, start, nrec, ctxfd, newfd, logfd, fdtab, up, wire, parent, prog>>
  BY DEF exec, kernel
<1>2. CASE Done(t) /\ UNCHANGED <<state, fate>>
  BY <1>1, <1>2, FailedKeeps
<1>3. CASE /\ Claimed < prog.conns
           /\ state' = [u \in Tasks |-> IF u # t /\ proc[u] = proc[t] THEN "ended" ELSE state[u]]
           /\ fate'  = [fate EXCEPT ![proc[t]] = "running"]
           /\ todo'  = [todo EXCEPT ![t] = Socket]
  <2>1. /\ state[t] = "live" /\ todo[t] # << >> /\ todo[t][1][1] = "exec" /\ start[t] = 0 /\ proc[t] \in Procs
        /\ Listed(t)
    BY <1>1, StepAt
  <2>2. Types /\ lb[t] = << >>
    BY <2>1 DEF AInv, Listed, AfterFlush
  <2>3. Socket \in Seq(Step)
    BY StartTail, StartTypes
  <2>4. todo'[t] = Socket /\ state'[t] = "live" /\ \A u \in Tasks \ {t} : todo'[u] = todo[u]
    BY <1>3, <2>1, <2>2 DEF Types
  <2>5. Types'
    <3>1. todo' \in [Tasks -> Seq(Step)] /\ fate' \in [Procs -> {"running", "asked", "fatal"}]
      BY <1>3, <2>2, <2>3 DEF Types
    <3>2. state' \in [Tasks -> {"idle", "live", "ended"}]
      BY <1>3, <2>2 DEF Types
    <3> QED BY <1>1, <2>2, <3>1, <3>2 DEF Types
  <2>6. \A u \in Tasks \ {t} : SameTask(u)
    BY <1>1, <1>3, <2>1, <2>4 DEF SameTask
  <2>7. Task(t)'
    BY <1>1, <2>1, <2>2, <2>4, StartsHere
  <2>8. \A u \in Tasks : Task(u)'
    BY <1>1, <2>6, <2>7, TaskFrame DEF AInv
  <2>9. Made' \subseteq Made /\ Descriptors'
    BY <1>1, SameFds
  <2>10. Claims' \subseteq Claims \cup {t}
    BY <2>4, <2>6 DEF Claims, SameTask
  <2>11. Room'
    BY <1>1, <1>3, <2>9, <2>10, RoomGrows
  <2> QED BY <2>5, <2>8, <2>9, <2>11 DEF AInv
<1> QED BY <1>2, <1>3 DEF exec, Socket

(* socket() has a descriptor, and a connection, to return. *)
LEMMA SocketFree ==
  ASSUME AInv, NEW t \in Claims
  PROVE  /\ MinOf(FreeFds(proc[t])) \in Fds \ {LOGD_FD}
         /\ fdtab[proc[t]][MinOf(FreeFds(proc[t]))] = None
         /\ MinOf(Conns \ Made) \in Conns \ Made
<1>1. Types /\ t \in Tasks /\ state[t] = "live"
  BY DEF AInv, Claims
<1>2. PICK p \in Procs : p = proc[t]
  BY <1>1, LiveTask
<1>3. /\ Made \subseteq Conns /\ IsFiniteSet(Made) /\ Cardinality(Made) \in Nat
      /\ IsFiniteSet(Claims) /\ Cardinality(Claims) \in Nat
      /\ IsFiniteSet(Conns) /\ Cardinality(Conns) = NConns
  BY <1>1, Finite
<1>4. Cardinality(Claims) # 0
  BY <1>3, FS_EmptySet
<1>5. Cardinality(Made) < NConns
  <2>1. Cardinality(Made) + Cardinality(Claims) <= prog.conns /\ prog.conns \in 1..NConns
    BY ProgramsAssumption DEF AInv, Room, Types
  <2> QED BY <1>3, <1>4, <2>1, Constants
<1>6. Conns \ Made # {}
  <2>1. Made # Conns
    BY <1>3, <1>5, Constants
  <2> QED BY <1>3, <2>1
<1>7. MinOf(Conns \ Made) \in Conns \ Made
  <2>1. Conns \ Made \in SUBSET Nat
    BY Constants
  <2> QED BY <1>6, <2>1, MinOfIn
<1>8. FreeFds(p) # {}
  <2> SUFFICES ASSUME FreeFds(p) = {} PROVE FALSE
    OBVIOUS
  <2>1. \A f \in Conns : f \in Fds \ {LOGD_FD}
    BY Constants DEF Conns, Fds, LOGD_FD
  <2>2. \A f \in Conns : fdtab[p][f] # None /\ fdtab[p][f] \in Conns
    BY <1>1, <2>1 DEF FreeFds, Types
  <2>3. \A f \in Conns : fdtab[p][f] \in Made
    BY <2>1, <2>2 DEF Made
  <2> DEFINE h == [f \in Conns |-> fdtab[p][f]]
  <2>4. h \in [Conns -> Made]
    BY <2>3
  <2>5. PICK f \in Conns, g \in Conns : f # g /\ h[f] = h[g]
    <3> HIDE DEF h
    <3> QED BY <1>3, <1>5, <2>4, FS_PigeonHole
  <2> QED BY <2>1, <2>2, <2>5 DEF AInv, Descriptors
<1>9. MinOf(FreeFds(p)) \in FreeFds(p)
  <2>1. FreeFds(p) \in SUBSET Nat
    BY Constants DEF FreeFds
  <2> QED BY <1>8, <2>1, MinOfIn
<1> QED BY <1>2, <1>7, <1>9 DEF FreeFds

LEMMA SocketKeeps ==
  ASSUME AInv, NEW t \in Tasks, logd_init_socket(t)
  PROVE  AInv'
<1>1. /\ At(t, "socket") /\ Done(t) /\ UNCHANGED <<proc, lb, start, nrec, ctxfd, newfd, state, up, wire, fate, parent, prog>>
      /\ logfd' = [logfd EXCEPT ![proc[t]] = MinOf(FreeFds(proc[t]))]
      /\ fdtab' = [fdtab EXCEPT ![proc[t]][MinOf(FreeFds(proc[t]))] = MinOf(Conns \ Made)]
  BY DEF logd_init_socket, task
<1>2. /\ state[t] = "live" /\ todo[t] # << >> /\ todo[t] \in Seq(Step) /\ IsList(prog, todo[t])
      /\ prog \in Programs /\ todo[t][1][1] = "socket" /\ start[t] = 0 /\ proc[t] \in Procs /\ Listed(t)
  BY <1>1, StepAt
<1>3. todo[t] = Socket /\ Starts(todo[t]) /\ t \in Claims
  BY <1>2, ListAt, StartTail DEF Claims
<1>4. lb[t] = << >> /\ Types /\ Tail(todo[t]) \in Seq(Step)
  BY <1>2, <1>3, TailSteps DEF Listed, AInv
<1>5. PICK p \in Procs : p = proc[t]
  BY <1>2
<1>6. PICK f \in Fds \ {LOGD_FD} : f = MinOf(FreeFds(p)) /\ fdtab[p][f] = None
  BY <1>3, <1>5, SocketFree
<1>7. PICK c \in Conns : c = MinOf(Conns \ Made) /\ c \notin Made
  BY <1>3, SocketFree
<1>8. logfd' = [logfd EXCEPT ![p] = f] /\ fdtab' = [fdtab EXCEPT ![p][f] = c]
  BY <1>1, <1>5, <1>6, <1>7
<1>9. \A x \in Procs, g \in Fds : fdtab'[x][g] = IF x = p /\ g = f THEN c ELSE fdtab[x][g]
  BY <1>4, <1>8 DEF Types
<1>10. Types'
  <2>1. todo' \in [Tasks -> Seq(Step)]
    BY <1>1, <1>4 DEF Types, Done
  <2>2. logfd' \in [Procs -> Fds \cup {-1}] /\ fdtab' \in [Procs -> [Fds -> Conns \cup {None}]]
    BY <1>4, <1>8 DEF Types
  <2> QED BY <1>1, <1>4, <2>1, <2>2 DEF Types
<1>11. /\ \A u \in Tasks : Task(u)'
       /\ \A u \in Tasks \ {t} : SameTask(u)
       /\ todo'[t] # Socket
  BY <1>1, <1>2, <1>3, <1>4, <1>10, StartKeeps
<1>12. Claims' \subseteq Claims \ {t}
  BY <1>1, <1>11 DEF Claims, SameTask
<1>13. Made' \subseteq Made \cup {c}
  BY <1>1, <1>9, SMTT(40) DEF Made
<1>14. Room'
  BY <1>1, <1>3, <1>12, <1>13, RoomMade
<1>15. Descriptors'
  <2>1. \A x \in Procs, g \in Fds : fdtab[x][g] # c
    BY <1>7 DEF Made
  <2> QED BY <1>9, <2>1 DEF AInv, Descriptors
<1> QED BY <1>10, <1>11, <1>14, <1>15 DEF AInv

LEMMA ConnectKeeps ==
  ASSUME AInv, NEW t \in Tasks, logd_init_connect(t)
  PROVE  AInv'
<1>1. At(t, "connect") /\ UNCHANGED <<proc, lb, start, nrec, ctxfd, newfd, logfd, wire, parent, prog>>
  BY DEF logd_init_connect
<1>2. /\ state[t] = "live" /\ todo[t] # << >> /\ todo[t] \in Seq(Step) /\ IsList(prog, todo[t])
      /\ prog \in Programs /\ todo[t][1][1] = "connect" /\ proc[t] \in Procs /\ Listed(t)
  BY <1>1, StepAt
<1>3. todo[t] = Connect /\ Starts(todo[t])
  BY <1>2, ListAt, StartTail
<1>4. lb[t] = << >> /\ Types /\ Tail(todo[t]) \in Seq(Step)
  BY <1>2, <1>3, TailSteps DEF Listed, AInv
<1>5. CASE Global(t) \in Conns \ up /\ up' = up \cup {Global(t)} /\ Done(t) /\ UNCHANGED <<state, fdtab, fate>>
  <2>1. Types'
    <3>1. todo' \in [Tasks -> Seq(Step)]
      BY <1>4, <1>5 DEF Types, Done
    <3>2. up' \subseteq Conns
      BY <1>4, <1>5 DEF Types
    <3> QED BY <1>1, <1>4, <1>5, <3>1, <3>2 DEF Types
  <2>2. Global(t) \in Made
    BY <1>2, <1>5, Constants DEF Global, Made
  <2>3. Made' \subseteq Made
    BY <1>5, <2>2 DEF Made
  <2>4. Descriptors'
    BY <1>5 DEF AInv, Descriptors
  <2> QED BY <1>1, <1>2, <1>3, <1>4, <1>5, <2>1, <2>3, <2>4, StartKept
<1>6. CASE Fatal(t) /\ Gone(t) /\ UNCHANGED <<todo, up>>
  <2>1. todo' \in [Tasks -> Seq(Step)] /\ \A u \in Tasks \ {t} : todo'[u] = todo[u]
    BY <1>4, <1>6 DEF Types
  <2>2. fate' \in [Procs -> {"running", "asked", "fatal"}]
    BY <1>4, <1>6, FatalType
  <2> QED BY <1>1, <1>2, <1>6, <2>1, <2>2, GoneKeeps
<1> QED BY <1>5, <1>6 DEF logd_init_connect

LEMMA Dup2Keeps ==
  ASSUME AInv, NEW t \in Tasks, logd_init_dup2(t)
  PROVE  AInv'
<1>1. At(t, "dup2") /\ Done(t) /\ UNCHANGED <<proc, lb, start, nrec, ctxfd, state, logfd, up, wire, fate, parent, prog>>
  BY DEF logd_init_dup2
<1>2. /\ state[t] = "live" /\ todo[t] # << >> /\ todo[t] \in Seq(Step) /\ IsList(prog, todo[t])
      /\ prog \in Programs /\ todo[t][1][1] = "dup2" /\ proc[t] \in Procs /\ Listed(t)
  BY <1>1, StepAt
<1>3. todo[t] = Dup2 /\ Starts(todo[t])
  BY <1>2, ListAt, StartTail
<1>4. lb[t] = << >> /\ Types /\ Tail(todo[t]) \in Seq(Step)
  BY <1>2, <1>3, TailSteps DEF Listed, AInv
<1>5. todo' \in [Tasks -> Seq(Step)]
  BY <1>1, <1>4 DEF Types, Done
<1>6. CASE newfd' = [newfd EXCEPT ![t] = -1] /\ UNCHANGED fdtab
  <2>1. Types'
    BY <1>1, <1>4, <1>5, <1>6 DEF Types
  <2>2. Made' \subseteq Made /\ Descriptors'
    BY <1>1, <1>6, SameFds
  <2> QED BY <1>1, <1>2, <1>3, <1>4, <2>1, <2>2, StartKept
<1>7. CASE /\ Global(t) # None /\ newfd' = [newfd EXCEPT ![t] = LOGD_FD]
           /\ fdtab' = [fdtab EXCEPT ![proc[t]][LOGD_FD] = Global(t)]
  <2>1. PICK c \in Conns : c = Global(t)
    BY <1>2, <1>4, <1>7 DEF Global, Types
  <2>2. c \in Made
    BY <1>2, <1>7, <2>1 DEF Global, Made
  <2>3. fdtab' = [fdtab EXCEPT ![proc[t]][LOGD_FD] = c] /\ LOGD_FD \in Fds
    BY <1>7, <2>1, Constants
  <2>4. \A x \in Procs, g \in Fds : fdtab'[x][g] = IF x = proc[t] /\ g = LOGD_FD THEN c ELSE fdtab[x][g]
    BY <1>4, <2>3 DEF Types
  <2>5. Types'
    <3>1. newfd' \in [Tasks -> {LOGD_FD, -1}]
      BY <1>4, <1>7 DEF Types
    <3>2. fdtab \in [Procs -> [Fds -> Conns \cup {None}]]
      BY <1>4 DEF Types
    <3>3. fdtab' \in [Procs -> [Fds -> Conns \cup {None}]]
      BY <1>2, <2>3, <3>2
    <3> QED BY <1>1, <1>4, <1>5, <3>1, <3>3 DEF Types
  <2>6. Made' \subseteq Made
    BY <1>1, <2>2, <2>4 DEF Made
  <2>7. Descriptors'
    BY <2>4 DEF AInv, Descriptors
  <2> QED BY <1>1, <1>2, <1>3, <1>4, <2>5, <2>6, <2>7, StartKept
<1> QED BY <1>6, <1>7 DEF logd_init_dup2

LEMMA CloseKeeps ==
  ASSUME AInv, NEW t \in Tasks, close_logfd(t)
  PROVE  AInv'
<1>1. /\ At(t, "close") /\ Done(t)
      /\ UNCHANGED <<proc, lb, start, nrec, ctxfd, newfd, state, logfd, up, wire, fate, parent, prog>>
      /\ fdtab' = IF logfd[proc[t]] \in Fds THEN [fdtab EXCEPT ![proc[t]][logfd[proc[t]]] = None] ELSE fdtab
  BY DEF close_logfd, task
<1>2. /\ state[t] = "live" /\ todo[t] # << >> /\ todo[t] \in Seq(Step) /\ IsList(prog, todo[t])
      /\ prog \in Programs /\ todo[t][1][1] = "close" /\ proc[t] \in Procs /\ Listed(t)
      /\ start[t] = 0 /\ Len(lb[t]) <= PIPE_BUF
  BY <1>1, StepAt
<1>3. lb[t] = << >> /\ Types /\ Tail(todo[t]) \in Seq(Step)
  BY <1>2, TailSteps DEF Listed, AInv, AfterFlush
<1>4. \A x \in Procs, g \in Fds : fdtab'[x][g] \in {fdtab[x][g], None}
  BY <1>1, <1>3 DEF Types
<1>5. Types'
  <2>1. todo' \in [Tasks -> Seq(Step)]
    BY <1>1, <1>3 DEF Types, Done
  <2>2. fdtab' \in [Procs -> [Fds -> Conns \cup {None}]]
    BY <1>1, <1>3 DEF Types
  <2> QED BY <1>1, <1>3, <2>1, <2>2 DEF Types
<1>6. Made' \subseteq Made /\ Descriptors'
  BY <1>1, <1>4, FewerFds
<1>7. CASE todo[t] = Close
  <2>1. Starts(todo[t])
    BY <1>7, StartTail
  <2> QED BY <1>1, <1>2, <1>3, <1>5, <1>6, <2>1, StartKept
<1>8. CASE Exits(todo[t])
  BY <1>1, <1>2, <1>3, <1>5, <1>6, <1>8, DoneKeeps
<1> QED BY <1>2, <1>7, <1>8, ListAt

LEMMA NewFdKeeps ==
  ASSUME AInv, NEW t \in Tasks, logd_init_newfd(t)
  PROVE  AInv'
<1>1. /\ At(t, "newfd") /\ Done(t) /\ logfd' = [logfd EXCEPT ![proc[t]] = newfd[t]]
      /\ UNCHANGED <<proc, lb, start, nrec, ctxfd, newfd, state, fdtab, up, wire, fate, parent, prog>>
  BY DEF logd_init_newfd, task, kernel
<1>2. /\ state[t] = "live" /\ todo[t] # << >> /\ todo[t] \in Seq(Step) /\ IsList(prog, todo[t])
      /\ prog \in Programs /\ todo[t][1][1] = "newfd" /\ Listed(t)
  BY <1>1, StepAt
<1>3. todo[t] = NewFd /\ Starts(todo[t])
  BY <1>2, ListAt, StartTail
<1>4. lb[t] = << >> /\ Types /\ Tail(todo[t]) \in Seq(Step)
  BY <1>2, <1>3, TailSteps DEF Listed, AInv
<1>5. Types'
  <2>1. todo' \in [Tasks -> Seq(Step)]
    BY <1>1, <1>4 DEF Types, Done
  <2>2. logfd' \in [Procs -> Fds \cup {-1}]
    BY <1>1, <1>4, Constants DEF Types
  <2> QED BY <1>1, <1>4, <2>1, <2>2 DEF Types
<1>6. Made' \subseteq Made /\ Descriptors'
  BY <1>1, SameFds
<1> QED BY <1>1, <1>2, <1>3, <1>4, <1>5, <1>6, StartKept

LEMMA AllocCtxKeeps ==
  ASSUME AInv, NEW t \in Tasks, alloc_ctx(t)
  PROVE  AInv'
<1>1. /\ At(t, "ctx") /\ Done(t) /\ ctxfd' = [ctxfd EXCEPT ![t] = logfd[proc[t]]] /\ lb' = [lb EXCEPT ![t] = << >>]
      /\ UNCHANGED <<proc, start, nrec, newfd, state, logfd, fdtab, up, wire, fate, parent, prog>>
  BY DEF alloc_ctx, kernel
<1>2. /\ state[t] = "live" /\ todo[t] # << >> /\ todo[t] \in Seq(Step) /\ IsList(prog, todo[t])
      /\ prog \in Programs /\ todo[t][1][1] = "ctx" /\ proc[t] \in Procs /\ Listed(t)
  BY <1>1, StepAt
<1>3. todo[t] = Ctx /\ Starts(todo[t])
  BY <1>2, ListAt, StartTail
<1>4. Types /\ Tail(todo[t]) \in Seq(Step)
  BY <1>2, TailSteps DEF AInv
<1>5. Types'
  <2>1. todo' \in [Tasks -> Seq(Step)]
    BY <1>1, <1>4 DEF Types, Done
  <2>2. ctxfd' \in [Tasks -> Fds \cup {-1}] /\ lb' \in [Tasks -> Seq(Byte)]
    BY <1>1, <1>2, <1>4 DEF Types
  <2> QED BY <1>1, <1>4, <2>1, <2>2 DEF Types
<1>6. lb'[t] = << >> /\ \A u \in Tasks \ {t} : lb'[u] = lb[u]
  BY <1>1, <1>4 DEF Types
<1>7. Made' \subseteq Made /\ Descriptors'
  BY <1>1, SameFds
<1> QED BY <1>1, <1>2, <1>3, <1>5, <1>6, <1>7, StartKept

LEMMA EndKeeps ==
  ASSUME AInv, NEW t \in Tasks, End(t)
  PROVE  AInv'
<1>1. /\ At(t, "end") /\ Done(t) /\ state' = [state EXCEPT ![t] = "ended"]
      /\ UNCHANGED <<proc, lb, start, nrec, ctxfd, newfd, logfd, fdtab, up, wire, fate, parent, prog>>
  BY DEF End, kernel
<1>2. Types /\ Task(t) /\ proc[t] \in Procs /\ Tail(todo[t]) \in Seq(Step)
  BY <1>1, StepAt, TailSteps DEF AInv
<1>3. Types'
  BY <1>1, <1>2 DEF Types, Done
<1>4. state'[t] = "ended" /\ \A u \in Tasks \ {t} : SameTask(u)
  BY <1>1, <1>2 DEF Types, Done, SameTask
<1>5. Task(t)'
  BY <1>1, <1>2, <1>4 DEF Task
<1>6. Made' \subseteq Made /\ Descriptors'
  BY <1>1, SameFds
<1> QED BY <1>1, <1>3, <1>4, <1>5, <1>6, ClosingOne

LEMMA ExitKeeps ==
  ASSUME AInv, NEW t \in Tasks, real_exit(t)
  PROVE  AInv'
<1>1. /\ At(t, "die") /\ Gone(t) /\ Done(t)
      /\ UNCHANGED <<proc, lb, start, nrec, ctxfd, newfd, logfd, up, wire, fate, parent, prog>>
  BY DEF real_exit
<1>2. Types /\ state[t] = "live" /\ Tail(todo[t]) \in Seq(Step)
  BY <1>1, StepAt, TailSteps DEF AInv
<1>3. /\ todo' \in [Tasks -> Seq(Step)] /\ (\A u \in Tasks \ {t} : todo'[u] = todo[u])
      /\ fate' \in [Procs -> {"running", "asked", "fatal"}]
  BY <1>1, <1>2 DEF Types, Done
<1> QED BY <1>1, <1>2, <1>3, GoneKeeps

LEMMA AInit ==
  ASSUME Init
  PROVE  AInv
<1>1. 1 \in Tasks /\ 1 \in Procs /\ 1 \in Conns /\ LOGD_FD \in Fds /\ None \notin Conns
  BY Constants DEF Tasks, Procs, Conns
<1>2. Types
  BY <1>1 DEF Init, Types
<1>3. \A t \in Tasks : Task(t)
  <2> TAKE t \in Tasks
  <2>1. todo[t] = << >> /\ lb[t] = << >> /\ start[t] = 0 /\ nrec[t] = 0 /\ state[t] \in {"idle", "live"}
        /\ proc[t] = (IF t = 1 THEN 1 ELSE None) /\ state[t] = (IF t = 1 THEN "live" ELSE "idle")
    BY DEF Init
  <2>2. Plain(prog, << >>) /\ ~Starts(<< >>)
    BY <1>2, PlainLists, StartTypes DEF Types
  <2>3. Listed(t)
    BY <2>1, <2>2 DEF Listed, IsList
  <2> QED BY <1>1, <2>1, <2>3, Constants DEF Task
<1>4. Room
  <2>1. Made \subseteq {1}
    BY <1>1 DEF Init, Made
  <2>2. Claims = {}
    <3>1. Socket # << >>
      BY StartTail, StartTypes
    <3> QED BY <3>1 DEF Init, Claims
  <2>3. IsFiniteSet({1}) /\ Cardinality({1}) = 1
    BY FS_Singleton
  <2>4. Cardinality(Made) <= 1 /\ Cardinality(Made) \in Nat
    BY <2>1, <2>3, Less
  <2>5. Cardinality(Claims) = 0
    BY <2>2, FS_EmptySet
  <2>6. prog.conns \in Nat /\ prog.conns >= 1
    BY <1>2, ProgramsAssumption, Constants DEF Types
  <2> QED BY <2>4, <2>5, <2>6 DEF Room
<1>5. Descriptors
  BY DEF Init, Descriptors
<1> QED BY <1>2, <1>3, <1>4, <1>5 DEF AInv

LEMMA ANext ==
  ASSUME AInv, [Next]_vars
  PROVE  AInv'
<1>1. CASE Next
  <2>1. PICK t \in Tasks : Program(t) \/ Library(t)
    BY <1>1 DEF Next
  <2>2. CASE Library(t)
    BY <2>2, AllocKeeps, AppendKeeps, WriteKeeps, FailsKeeps, FlushedKeeps, ForkKeeps, SpawnKeeps,
       ExecKeeps, SocketKeeps, ConnectKeeps, Dup2Keeps, CloseKeeps, NewFdKeeps, AllocCtxKeeps,
       EndKeeps, ExitKeeps DEF Library
  <2> QED BY <2>1, <2>2, CallsKeep
<1>2. CASE UNCHANGED vars
  <2>1. UNCHANGED <<prog, proc, todo, lb, start, nrec, ctxfd, newfd, state, logfd, fdtab, fate, up, wire, parent>>
    BY <1>2 DEF vars
  <2>2. Types'
    BY <2>1 DEF AInv, Types
  <2>3. \A u \in Tasks : Task(u)'
    BY <2>1, TaskFrame DEF AInv, SameTask
  <2>4. Made' \subseteq Made /\ Descriptors' /\ Claims' \subseteq Claims
    BY <2>1, SameFds DEF Claims
  <2>5. Room'
    BY <2>1, <2>4, RoomKept
  <2> QED BY <2>2, <2>3, <2>4, <2>5 DEF AInv
<1> QED BY <1>1, <1>2

LEMMA AInvariant == Spec => []AInv
BY AInit, ANext, PTL DEF Spec

(* lb_alloc_bytes() keeps every thread's buffer within PIPE_BUF, lb_flush() *)
(* never runs past its end, and socket() has a descriptor to return.       *)
THEOREM TypeCorrect == Spec => []TypeOK
<1>1. ASSUME AInv PROVE TypeOK
  <2>1. Types /\ \A t \in Tasks : Task(t)
    BY <1>1 DEF AInv
  <2>2. ASSUME NEW t \in Tasks
        PROVE  /\ lb[t] \in Seq(Byte) /\ Len(lb[t]) <= PIPE_BUF
               /\ start[t] \in 0..Len(lb[t]) /\ todo[t] \in Seq(Step)
    <3>1. lb[t] \in Seq(Byte) /\ start[t] \in Nat /\ todo[t] \in Seq(Step)
      BY <2>1 DEF Types
    <3>2. Len(lb[t]) <= PIPE_BUF /\ start[t] <= Len(lb[t])
      BY <2>1 DEF Task
    <3> QED BY <3>1, <3>2
  <2> QED BY <2>1, <2>2 DEF TypeOK, Types
<1> QED BY <1>1, AInvariant, PTL

-----------------------------------------------------------------------------
(* Processes *)

(* What a step of a task of another process leaves as it is for process p. *)
Elsewhere(p) ==
  /\ \A u \in Tasks : proc[u] = p \/ proc'[u] = p =>
       /\ proc'[u] = proc[u] /\ state'[u] = state[u] /\ todo'[u] = todo[u]
       /\ ctxfd'[u] = ctxfd[u] /\ newfd'[u] = newfd[u]
  /\ fate'[p] = fate[p] /\ logfd'[p] = logfd[p] /\ fdtab'[p] = fdtab[p] /\ up \subseteq up'
  /\ \A c \in up' \ up : \E x \in Procs \ {p}, g \in Fds : fdtab[x][g] = c
  /\ \A q \in Procs \ {p}, f \in Fds :
       \/ fdtab'[q][f] = None \/ fdtab'[q][f] \notin Made
       \/ \E x \in Procs \ {p}, g \in Fds : fdtab'[q][f] = fdtab[x][g]

LEMMA PhaseFrame ==
  ASSUME AInv, NEW v \in Tasks, NEW p \in Procs, proc[v] = p, Phase(v), Elsewhere(p)
  PROVE  Phase(v)'
<1>1. /\ proc'[v] = proc[v] /\ todo'[v] = todo[v] /\ newfd'[v] = newfd[v]
      /\ logfd'[p] = logfd[p] /\ fdtab'[p] = fdtab[p] /\ up \subseteq up'
  BY DEF Elsewhere
<1>2. LOGD_FD \in Fds /\ None \notin Conns
  BY Constants
<1>3. CASE todo[v] = Connect
  <2> DEFINE c == fdtab[p][logfd[p]]
  <2>1. /\ logfd[p] \in Fds \ {LOGD_FD} /\ c \in Conns \ up
        /\ \A q \in Procs, f \in Fds : fdtab[q][f] = c => q = p /\ f = logfd[p]
    BY <1>3 DEF Phase
  <2>2. c \notin up'
    BY <2>1 DEF Elsewhere
  <2>3. c \in Made /\ c # None
    BY <1>2, <2>1 DEF Made
  <2>4. ASSUME NEW q \in Procs, NEW f \in Fds, fdtab'[q][f] = c PROVE q = p /\ f = logfd[p]
    <3>1. q = p
      BY <2>1, <2>3, <2>4 DEF Elsewhere
    <3> QED BY <1>1, <2>1, <2>4, <3>1
  <2>5. /\ logfd'[p] \in Fds \ {LOGD_FD} /\ fdtab'[p][logfd'[p]] \in Conns \ up'
        /\ \A q \in Procs, f \in Fds : fdtab'[q][f] = fdtab'[p][logfd'[p]] => q = p /\ f = logfd'[p]
    <3>1. fdtab'[p][logfd'[p]] = c
      BY <1>1
    <3> HIDE DEF c
    <3> QED BY <1>1, <2>1, <2>2, <2>4, <3>1
  <2>6. todo'[v] = Connect /\ proc'[v] = p
    BY <1>1, <1>3
  <2> HIDE DEF c
  <2> QED BY <2>5, <2>6, StartTail DEF Phase
<1>4. CASE todo[v] # Connect
  BY <1>1, <1>4 DEF Phase
<1> QED BY <1>3, <1>4

LEMMA OrderlyFrame ==
  ASSUME AInv, UNCHANGED prog, NEW v \in Tasks, NEW p \in Procs, proc[v] = p, Orderly(v), Elsewhere(p)
  PROVE  Orderly(v)'
<1>1. /\ \A u \in Tasks : proc[u] = p \/ proc'[u] = p =>
           /\ proc'[u] = proc[u] /\ state'[u] = state[u] /\ todo'[u] = todo[u]
           /\ ctxfd'[u] = ctxfd[u] /\ newfd'[u] = newfd[u]
      /\ fate'[p] = fate[p] /\ logfd'[p] = logfd[p] /\ fdtab'[p] = fdtab[p] /\ up \subseteq up'
  BY DEF Elsewhere
<1>2. proc'[v] = p /\ todo'[v] = todo[v] /\ ctxfd'[v] = ctxfd[v]
  BY <1>1
<1>3. Mates(v)' = Mates(v) /\ \A u \in Mates(v) : u \in Tasks /\ todo'[u] = todo[u]
  BY <1>1, <1>2 DEF Mates
<1>4. CASE fate[p] = "running"
  <2>1. Running(v)
    BY <1>4 DEF Orderly
  <2>2. Starts(todo[v]) => Phase(v)'
    BY <2>1, PhaseFrame DEF Running
  <2>3. Running(v)'
    BY <1>1, <1>2, <1>3, <2>1, <2>2 DEF Running
  <2> QED BY <1>1, <1>2, <1>4, <2>3 DEF Orderly
<1>5. CASE fate[p] # "running"
  <2>1. Ending(v)
    BY <1>5 DEF Orderly
  <2>2. Ending(v)'
    BY <1>1, <1>2, <1>3, <2>1 DEF Ending
  <2> QED BY <1>1, <1>2, <1>5, <2>2 DEF Orderly
<1> QED BY <1>4, <1>5

(* A step of task t that leaves alone what other processes have. *)
Local(t) ==
  /\ \A u \in Tasks \ {t} :
       /\ proc[u] # proc[t] => state'[u] = state[u]
       /\ todo'[u] = todo[u] /\ ctxfd'[u] = ctxfd[u] /\ newfd'[u] = newfd[u]
       /\ lb'[u] = lb[u] /\ start'[u] = start[u]
  /\ \A p \in Procs \ {proc[t]} : fate'[p] = fate[p] /\ logfd'[p] = logfd[p] /\ fdtab'[p] = fdtab[p]
  /\ up \subseteq up' /\ \A c \in up' \ up : \E g \in Fds : fdtab[proc[t]][g] = c
  /\ \A f \in Fds : \/ fdtab'[proc[t]][f] = None \/ fdtab'[proc[t]][f] \notin Made
                    \/ \E g \in Fds : fdtab'[proc[t]][f] = fdtab[proc[t]][g]

LEMMA LocalElsewhere ==
  ASSUME AInv, NEW t \in Tasks, proc[t] \in Procs, UNCHANGED proc, Local(t), NEW p \in Procs \ {proc[t]}
  PROVE  Elsewhere(p)
<1>1. \A u \in Tasks : proc[u] = p \/ proc'[u] = p =>
        /\ proc'[u] = proc[u] /\ state'[u] = state[u] /\ todo'[u] = todo[u]
        /\ ctxfd'[u] = ctxfd[u] /\ newfd'[u] = newfd[u]
  BY DEF Local
<1>2. fate'[p] = fate[p] /\ logfd'[p] = logfd[p] /\ fdtab'[p] = fdtab[p] /\ up \subseteq up'
  BY DEF Local
<1>3. \A c \in up' \ up : \E x \in Procs \ {p}, g \in Fds : fdtab[x][g] = c
  BY DEF Local
<1>4. ASSUME NEW q \in Procs \ {p}, NEW f \in Fds
      PROVE  \/ fdtab'[q][f] = None \/ fdtab'[q][f] \notin Made
             \/ \E x \in Procs \ {p}, g \in Fds : fdtab'[q][f] = fdtab[x][g]
  <2>1. CASE q = proc[t]
    BY <2>1 DEF Local
  <2>2. CASE q # proc[t]
    BY <2>2 DEF Local
  <2> QED BY <2>1, <2>2
<1> QED BY <1>1, <1>2, <1>3, <1>4 DEF Elsewhere

Fits == \A s \in prog.sizes : s <= PIPE_BUF

LEMMA LocalKeeps ==
  ASSUME AInv, BInv, NEW t \in Tasks, state[t] = "live", UNCHANGED <<prog, proc>>, Local(t),
         ~prog.threads /\ state'[t] = "ended" /\ fate'[proc[t]] = "asked" => start'[t] = Len(lb'[t]),
         Tidy /\ Fits => fate'[proc[t]] # "fatal",
         Tidy => \A v \in Tasks : proc[v] = proc[t] /\ state'[v] = "live" => Orderly(v)'
  PROVE  BInv'
<1>1. proc[t] \in Procs /\ None \notin Procs /\ Single /\ Fresh /\ NothingLeft /\ proc \in [Tasks -> Procs \cup {None}]
  BY LiveTask, Constants DEF BInv, AInv, Types
<1>2. Single'
  BY <1>1 DEF Single
<1>3. Fresh'
  BY <1>1 DEF Fresh, Local
<1>4. NothingLeft'
  <2> SUFFICES ASSUME NEW u \in Tasks, state'[u] = "ended", fate'[proc[u]] = "asked", ~prog.threads
               PROVE  start'[u] = Len(lb'[u])
    BY DEF NothingLeft
  <2>1. CASE u = t
    BY <2>1
  <2>2. CASE u # t
    <3>1. proc[u] # None
      <4> SUFFICES ASSUME proc[u] = None PROVE FALSE
        OBVIOUS
      <4>1. state[u] = "ended"
        BY <1>1, <2>2 DEF Local
      <4> QED BY <1>1, <4>1 DEF AInv, Task
    <3>2. proc[u] # proc[t] /\ proc[u] \in Procs
      BY <1>1, <2>2, <3>1 DEF Single
    <3>3. state[u] = "ended" /\ fate[proc[u]] = "asked" /\ lb'[u] = lb[u] /\ start'[u] = start[u]
      BY <2>2, <3>2 DEF Local
    <3> QED BY <1>1, <3>3 DEF NothingLeft
  <2> QED BY <2>1, <2>2
<1>5. ASSUME Tidy' PROVE Unharmed' /\ \A v \in Tasks : state'[v] = "live" => Orderly(v)'
  <2>1. Tidy /\ Unharmed /\ \A v \in Tasks : state[v] = "live" => Orderly(v)
    BY <1>5 DEF Tidy, BInv
  <2>2. Unharmed'
    BY <2>1 DEF Unharmed, Fits, Local
  <2>3. ASSUME NEW v \in Tasks, state'[v] = "live", proc[v] # proc[t] PROVE Orderly(v)'
    <3>1. state[v] = "live"
      BY <2>3 DEF Local
    <3>2. proc[v] \in Procs \ {proc[t]}
      BY <2>3, <3>1, LiveTask
    <3> QED BY <1>1, <2>1, <3>1, <3>2, LocalElsewhere, OrderlyFrame
  <2> QED BY <2>1, <2>2, <2>3
<1> QED BY <1>2, <1>3, <1>4, <1>5 DEF BInv

(* The tasks of a process that t belongs to. *)
LEMMA Sole ==
  ASSUME AInv, BInv, ~prog.threads, NEW t \in Tasks, state[t] = "live"
  PROVE  \A u \in Tasks : proc[u] = proc[t] => u = t
BY LiveTask, Constants DEF BInv, Single

(* A step of t that, of what Orderly() is about, changes only its list. *)
Still(t) ==
  /\ UNCHANGED <<prog, proc, state, ctxfd, newfd, logfd, fdtab, up>>
  /\ \A u \in Tasks \ {t} : todo'[u] = todo[u] /\ lb'[u] = lb[u] /\ start'[u] = start[u]

LEMMA StillLocal ==
  ASSUME AInv, NEW t \in Tasks, Still(t), \A p \in Procs \ {proc[t]} : fate'[p] = fate[p]
  PROVE  Local(t)
BY DEF Still, Local

SameKind(q, r) ==
  /\ r \in Seq(Step)
  /\ \/ Plain(prog, q) /\ Plain(prog, r)
     \/ Exits(q) /\ Exits(r) /\ q[1][1] \in {"log", "append", "flush"}

LEMMA StillKeeps ==
  ASSUME AInv, BInv, NEW t \in Tasks, state[t] = "live", Still(t), UNCHANGED fate,
         SameKind(todo[t], todo'[t])
  PROVE  BInv'
<1>1. /\ UNCHANGED <<prog, proc, state, ctxfd, newfd, logfd, fdtab, up>>
      /\ \A u \in Tasks \ {t} : todo'[u] = todo[u]
  BY DEF Still
<1>2. Local(t)
  BY StillLocal
<1>3. /\ Exits(todo'[t]) <=> Exits(todo[t])
      /\ Plain(prog, todo'[t]) <=> Plain(prog, todo[t])
      /\ ~Starts(todo[t]) /\ ~Starts(todo'[t])
  BY LiveTask, NotPlain, NotStarts DEF SameKind
<1>4. \A u \in Tasks : /\ Exits(todo'[u]) <=> Exits(todo[u])
                       /\ Plain(prog, todo'[u]) <=> Plain(prog, todo[u])
                       /\ Starts(todo'[u]) <=> Starts(todo[u])
                       /\ Starts(todo[u]) => todo'[u] = todo[u]
  BY <1>1, <1>3
<1>5. ASSUME Tidy, NEW v \in Tasks, proc[v] = proc[t], state'[v] = "live" PROVE Orderly(v)'
  <2>1. state[v] = "live" /\ Orderly(v) /\ Orderly(t)
    BY <1>1, <1>5 DEF BInv
  <2>2. Mates(v)' = Mates(v) /\ Mates(v) \subseteq Tasks
    BY <1>1 DEF Mates
  <2>3. CASE fate[proc[t]] = "running"
    <3>1. Running(v)
      BY <1>5, <2>1, <2>3 DEF Orderly
    <3>2. Starts(todo[v]) => Phase(v)'
      BY <1>1, <1>4, <3>1 DEF Running, Phase
    <3>3. Running(v)'
      BY <1>1, <1>4, <2>2, <3>1, <3>2 DEF Running
    <3> QED BY <1>1, <1>5, <2>3, <3>3 DEF Orderly
  <2>4. CASE fate[proc[t]] # "running"
    <3>1. Ending(v)
      BY <1>5, <2>1, <2>4 DEF Orderly
    <3>2. \E u \in Mates(v)' : Exits(todo'[u])
      BY <1>4, <2>2, <3>1 DEF Ending
    <3>3. ASSUME ~prog.threads
          PROVE  v = t /\ ctxfd[t] = LOGD_FD /\ fdtab[proc[t]][LOGD_FD] \in up
      <4>1. v = t /\ \A u \in Mates(v) : u = t
        BY <1>5, <3>3, Sole DEF Mates
      <4>2. Exits(todo[t]) /\ ctxfd[t] = LOGD_FD
        BY <3>1, <3>3, <4>1 DEF Ending
      <4>3. ~Plain(prog, todo[t])
        BY <4>2, LiveTask, NotPlain
      <4>4. todo[t][1][1] \in {"log", "append", "flush"} /\ todo[t] # << >>
        BY <4>2, <4>3 DEF SameKind, Exits
      <4> QED BY <3>1, <3>3, <4>1, <4>2, <4>4 DEF Ending
    <3>4. Ending(v)'
      BY <1>1, <3>2, <3>3 DEF Ending
    <3> QED BY <1>1, <1>5, <2>4, <3>4 DEF Orderly
  <2> QED BY <2>3, <2>4
<1>6. Tidy /\ Fits => fate'[proc[t]] # "fatal"
  BY LiveTask DEF BInv, Unharmed, Fits
<1>7. UNCHANGED <<prog, proc>> /\ state'[t] # "ended"
  BY <1>1
<1> QED BY <1>2, <1>5, <1>6, <1>7, LocalKeeps

LEMMA BeginStill ==
  ASSUME AInv, BInv, NEW t \in Tasks, Calls(t), NEW q \in Seq(Step), Plain(prog, q), Begin(t, q), UNCHANGED fate
  PROVE  BInv'
<1>1. /\ todo' = [todo EXCEPT ![t] = q] /\ state[t] = "live" /\ todo[t] = << >>
      /\ UNCHANGED <<proc, lb, start, nrec, ctxfd, newfd, state, logfd, fdtab, up, wire, parent, prog>>
  BY DEF Begin, Calls, task, kernel
<1>2. todo \in [Tasks -> Seq(Step)] /\ prog \in Programs
  BY DEF AInv, Types
<1>3. todo'[t] = q /\ \A u \in Tasks \ {t} : todo'[u] = todo[u]
  BY <1>1, <1>2
<1>4. Still(t)
  BY <1>1, <1>3 DEF Still
<1>5. SameKind(todo[t], todo'[t])
  BY <1>1, <1>2, <1>3, PlainLists DEF SameKind
<1> QED BY <1>1, <1>4, <1>5, StillKeeps

(* A task that exits from a call that would have returned. *)
LEMMA LeaveKeeps ==
  ASSUME AInv, BInv, NEW t \in Tasks, state[t] = "live", Still(t), Plain(prog, todo[t]), Leaves(todo'[t]),
         \A p \in Procs \ {proc[t]} : fate'[p] = fate[p], fate'[proc[t]] # "running",
         Tidy /\ Fits => fate'[proc[t]] # "fatal"
  PROVE  BInv'
<1>1. /\ UNCHANGED <<prog, proc, state, ctxfd, newfd, logfd, fdtab, up>>
      /\ \A u \in Tasks \ {t} : todo'[u] = todo[u]
  BY DEF Still
<1>2. Local(t)
  BY StillLocal
<1>3. Exits(todo'[t]) /\ ~Exits(todo[t])
  BY LiveTask, NotPlain DEF Leaves
<1>4. ASSUME Tidy, NEW v \in Tasks, proc[v] = proc[t], state'[v] = "live" PROVE Orderly(v)'
  <2>1. t \in Mates(v)'
    BY <1>1, <1>4 DEF Mates
  <2>2. ASSUME ~prog.threads PROVE v = t /\ ctxfd[t] = LOGD_FD /\ fdtab[proc[t]][LOGD_FD] \in up
    <3>1. v = t /\ \A u \in Mates(t) : u = t
      BY <1>4, <2>2, Sole DEF Mates
    <3>2. Orderly(t)
      BY <1>4 DEF BInv
    <3>3. fate[proc[t]] = "running"
      BY <1>3, <3>1, <3>2 DEF Orderly, Ending
    <3> QED BY <3>1, <3>2, <3>3 DEF Orderly, Running
  <2>3. Ending(v)'
    BY <1>1, <1>3, <2>1, <2>2 DEF Ending
  <2> QED BY <1>1, <1>4, <2>3 DEF Orderly
<1>5. UNCHANGED <<prog, proc>> /\ state'[t] # "ended"
  BY <1>1
<1> QED BY <1>2, <1>4, <1>5, LocalKeeps

LEMMA LeaveCall ==
  ASSUME AInv, BInv, NEW t \in Tasks, Calls(t), NEW q, Leaves(q), Begin(t, q),
         fate' = [fate EXCEPT ![proc[t]] = "asked"]
  PROVE  BInv'
<1>1. /\ todo' = [todo EXCEPT ![t] = q] /\ state[t] = "live" /\ todo[t] = << >>
      /\ UNCHANGED <<proc, lb, start, nrec, ctxfd, newfd, state, logfd, fdtab, up, wire, parent, prog>>
  BY DEF Begin, Calls, task, kernel
<1>2. todo \in [Tasks -> Seq(Step)] /\ prog \in Programs /\ fate \in [Procs -> {"running", "asked", "fatal"}]
  BY DEF AInv, Types
<1>3. todo'[t] = q /\ \A u \in Tasks \ {t} : todo'[u] = todo[u]
  BY <1>1, <1>2
<1>4. Still(t)
  BY <1>1, <1>3 DEF Still
<1>5. Plain(prog, todo[t]) /\ Leaves(todo'[t])
  BY <1>1, <1>2, <1>3, PlainLists
<1>6. fate'[proc[t]] = "asked" /\ \A p \in Procs \ {proc[t]} : fate'[p] = fate[p]
  BY <1>1, <1>2, LiveTask
<1> QED BY <1>1, <1>4, <1>5, <1>6, LeaveKeeps

LEMMA CallsOrderly ==
  ASSUME AInv, BInv, NEW t \in Tasks, Program(t)
  PROVE  BInv'
<1>1. prog \in Programs
  BY DEF AInv, Types
<1>2. CASE Call(t)
  <2>1. PICK s \in prog.sizes : Begin(t, <<log(s)>>)
    BY <1>2 DEF Call
  <2>2. Plain(prog, <<log(s)>>) /\ <<log(s)>> \in Seq(Step)
    BY <1>1, PlainLists
  <2> QED BY <1>2, <2>1, <2>2, BeginStill DEF Call
<1>3. CASE fork(t)
  BY <1>1, <1>3, PlainLists, BeginStill DEF fork
<1>4. CASE pthread_create(t)
  BY <1>1, <1>4, PlainLists, BeginStill DEF pthread_create
<1>5. CASE execve(t)
  BY <1>1, <1>5, PlainLists, BeginStill DEF execve
<1>6. CASE Return(t)
  BY <1>1, <1>6, PlainLists, BeginStill DEF Return
<1>7. CASE exit(t)
  BY <1>7, ExitLists, LeaveCall DEF exit
<1> QED BY <1>2, <1>3, <1>4, <1>5, <1>6, <1>7 DEF Program

LEMMA AllocOrderly ==
  ASSUME AInv, BInv, NEW t \in Tasks, lb_alloc_bytes(t)
  PROVE  BInv'
<1> DEFINE s == todo[t][1][2]
<1>1. At(t, "log") /\ UNCHANGED <<proc, start, ctxfd, newfd, state, logfd, fdtab, up, wire, parent, prog>>
  BY DEF lb_alloc_bytes, kernel
<1>2. /\ state[t] = "live" /\ todo[t] # << >> /\ Head(todo[t]) = todo[t][1] /\ todo[t][1][1] = "log"
      /\ todo[t] \in Seq(Step) /\ s \in Nat /\ prog \in Programs /\ proc[t] \in Procs
  BY <1>1, StepAt
<1>3. /\ Plain(prog, todo[t]) \/ Exits(todo[t])
      /\ s \in prog.sizes \cup {CtlSize} /\ (Exits(todo[t]) => s = CtlSize)
  BY <1>1, LogSize
<1>4. /\ todo \in [Tasks -> Seq(Step)] /\ lb \in [Tasks -> Seq(Byte)]
      /\ fate \in [Procs -> {"running", "asked", "fatal"}]
  BY DEF AInv, Types
<1>5. CASE s > PIPE_BUF /\ todo' = [todo EXCEPT ![t] = exit_steps] /\ Fatal(t) /\ UNCHANGED <<nrec, lb>>
  <2>1. todo'[t] = exit_steps /\ \A u \in Tasks \ {t} : todo'[u] = todo[u]
    BY <1>4, <1>5
  <2>2. Still(t)
    BY <1>1, <1>5, <2>1 DEF Still
  <2>3. s # CtlSize
    BY <1>2, <1>5, Constants
  <2>4. Plain(prog, todo[t]) /\ ~Fits
    BY <1>2, <1>3, <1>5, <2>3, Constants DEF Fits
  <2>5. fate'[proc[t]] # "running" /\ \A p \in Procs \ {proc[t]} : fate'[p] = fate[p]
    BY <1>2, <1>4, <1>5 DEF Fatal
  <2> QED BY <1>2, <2>1, <2>2, <2>4, <2>5, ExitLists, LeaveKeeps
<1>6. CASE s <= PIPE_BUF /\ todo' = [todo EXCEPT ![t] = <<flush, append(s)>> \o Tail(@)] /\ UNCHANGED <<nrec, lb, fate>>
  <2>1. todo'[t] = <<flush, append(s)>> \o Tail(todo[t]) /\ \A u \in Tasks \ {t} : todo'[u] = todo[u]
    BY <1>4, <1>6
  <2>2. Still(t)
    BY <1>1, <1>6, <2>1 DEF Still
  <2>3. SameKind(todo[t], todo'[t])
    BY <1>2, <1>3, <1>6, <2>1, Expanded DEF SameKind
  <2> QED BY <1>2, <1>6, <2>2, <2>3, StillKeeps
<1>7. CASE Put(t, s) /\ Done(t) /\ UNCHANGED fate
  <2>1. todo'[t] = Tail(todo[t]) /\ \A u \in Tasks \ {t} : todo'[u] = todo[u] /\ lb'[u] = lb[u]
    BY <1>4, <1>7 DEF Done, Put
  <2>2. Still(t)
    BY <1>1, <2>1 DEF Still
  <2>3. SameKind(todo[t], todo'[t])
    BY <1>2, <1>3, <2>1, DoneList DEF SameKind
  <2> QED BY <1>2, <1>7, <2>2, <2>3, StillKeeps
<1>8. \/ s > PIPE_BUF /\ todo' = [todo EXCEPT ![t] = exit_steps] /\ Fatal(t) /\ UNCHANGED <<nrec, lb>>
      \/ s <= PIPE_BUF /\ todo' = [todo EXCEPT ![t] = <<flush, append(s)>> \o Tail(@)] /\ UNCHANGED <<nrec, lb, fate>>
      \/ Put(t, s) /\ Done(t) /\ UNCHANGED fate
  BY <1>2 DEF lb_alloc_bytes
<1> HIDE DEF s
<1> QED BY <1>5, <1>6, <1>7, <1>8

LEMMA AppendOrderly ==
  ASSUME AInv, BInv, NEW t \in Tasks, LogAfterFlush(t)
  PROVE  BInv'
<1>1. /\ At(t, "append") /\ UNCHANGED <<proc, start, ctxfd, newfd, state, logfd, fdtab, up, wire, fate, parent, prog>>
      /\ Put(t, Head(todo[t])[2]) /\ Done(t)
  BY DEF LogAfterFlush, kernel
<1>2. /\ state[t] = "live" /\ todo[t] # << >> /\ todo[t][1][1] = "append"
      /\ todo[t] \in Seq(Step) /\ prog \in Programs
  BY <1>1, StepAt
<1>3. Plain(prog, todo[t]) \/ Exits(todo[t])
  BY <1>1, LogSize
<1>4. todo \in [Tasks -> Seq(Step)] /\ lb \in [Tasks -> Seq(Byte)]
  BY DEF AInv, Types
<1>5. todo'[t] = Tail(todo[t]) /\ \A u \in Tasks \ {t} : todo'[u] = todo[u] /\ lb'[u] = lb[u]
  BY <1>1, <1>4 DEF Done, Put
<1>6. Still(t)
  BY <1>1, <1>5 DEF Still
<1>7. SameKind(todo[t], todo'[t])
  BY <1>2, <1>3, <1>5, DoneList DEF SameKind
<1> QED BY <1>1, <1>2, <1>6, <1>7, StillKeeps

LEMMA WriteOrderly ==
  ASSUME AInv, BInv, NEW t \in Tasks, lb_flush_write(t)
  PROVE  BInv'
<1>1. /\ At(t, "flush")
      /\ UNCHANGED <<proc, todo, lb, nrec, ctxfd, newfd, state, logfd, fdtab, up, fate, parent, prog>>
  BY DEF lb_flush_write
<1>2. PICK r : start' = [start EXCEPT ![t] = @ + r]
  BY DEF lb_flush_write
<1>3. /\ state[t] = "live" /\ todo[t] # << >> /\ todo[t][1][1] = "flush"
      /\ todo[t] \in Seq(Step) /\ prog \in Programs /\ IsList(prog, todo[t])
  BY <1>1, StepAt
<1>4. \A u \in Tasks \ {t} : start'[u] = start[u]
  BY <1>2 DEF AInv, Types
<1>5. Still(t)
  BY <1>1, <1>4 DEF Still
<1>6. SameKind(todo[t], todo'[t])
  BY <1>1, <1>3, ListAt DEF SameKind
<1> QED BY <1>1, <1>3, <1>5, <1>6, StillKeeps

LEMMA FlushedOrderly ==
  ASSUME AInv, BInv, NEW t \in Tasks, lb_flush_done(t)
  PROVE  BInv'
<1>1. /\ At(t, "flush") /\ Done(t) /\ lb' = [lb EXCEPT ![t] = << >>] /\ start' = [start EXCEPT ![t] = 0]
      /\ UNCHANGED <<proc, nrec, ctxfd, newfd, state, logfd, fdtab, up, wire, fate, parent, prog>>
  BY DEF lb_flush_done, kernel
<1>2. /\ state[t] = "live" /\ todo[t] # << >> /\ todo[t][1][1] = "flush"
      /\ todo[t] \in Seq(Step) /\ prog \in Programs /\ IsList(prog, todo[t])
  BY <1>1, StepAt
<1>3. Plain(prog, todo[t]) \/ Exits(todo[t])
  BY <1>2, ListAt
<1>4. todo \in [Tasks -> Seq(Step)] /\ lb \in [Tasks -> Seq(Byte)] /\ start \in [Tasks -> Nat]
  BY DEF AInv, Types
<1>5. /\ todo'[t] = Tail(todo[t])
      /\ \A u \in Tasks \ {t} : todo'[u] = todo[u] /\ lb'[u] = lb[u] /\ start'[u] = start[u]
  BY <1>1, <1>4 DEF Done
<1>6. Still(t)
  BY <1>1, <1>5 DEF Still
<1>7. SameKind(todo[t], todo'[t])
  BY <1>2, <1>3, <1>5, DoneList DEF SameKind
<1> QED BY <1>1, <1>2, <1>6, <1>7, StillKeeps

LEMMA FailedOrderly ==
  ASSUME AInv, BInv, NEW t \in Tasks, NEW op \in {"fork", "spawn", "exec"}, At(t, op), Done(t),
         UNCHANGED <<proc, lb, start, nrec, ctxfd, newfd, state, logfd, fdtab, up, wire, fate, parent, prog>>
  PROVE  BInv'
<1>1. /\ state[t] = "live" /\ todo[t] # << >> /\ todo[t][1][1] = op
      /\ todo[t] \in Seq(Step) /\ prog \in Programs /\ IsList(prog, todo[t])
  BY StepAt
<1>2. Plain(prog, todo[t])
  BY <1>1, ListAt
<1>3. todo'[t] = Tail(todo[t]) /\ \A u \in Tasks \ {t} : todo'[u] = todo[u]
  BY DEF Done, AInv, Types
<1>4. Still(t)
  BY <1>3 DEF Still
<1>5. SameKind(todo[t], todo'[t])
  BY <1>1, <1>2, <1>3, DoneList DEF SameKind
<1> QED BY <1>1, <1>4, <1>5, StillKeeps

(* The end of a process. *)
LEMMA GoneOrderly ==
  ASSUME AInv, BInv, NEW t \in Tasks, state[t] = "live", Gone(t),
         \A u \in Tasks \ {t} : todo'[u] = todo[u],
         \A p \in Procs \ {proc[t]} : fate'[p] = fate[p],
         UNCHANGED <<proc, lb, start, nrec, ctxfd, newfd, logfd, up, wire, parent, prog>>,
         ~prog.threads /\ fate'[proc[t]] = "asked" => start[t] = Len(lb[t]),
         Tidy /\ Fits => fate'[proc[t]] # "fatal"
  PROVE  BInv'
<1>1. /\ state' = [u \in Tasks |-> IF proc[u] = proc[t] THEN "ended" ELSE state[u]]
      /\ fdtab' = [fdtab EXCEPT ![proc[t]] = [f \in Fds |-> None]]
  BY DEF Gone
<1>2. proc[t] \in Procs /\ fdtab \in [Procs -> [Fds -> Conns \cup {None}]]
  BY LiveTask DEF AInv, Types
<1>3. /\ \A u \in Tasks : state'[u] = IF proc[u] = proc[t] THEN "ended" ELSE state[u]
      /\ \A p \in Procs \ {proc[t]} : fdtab'[p] = fdtab[p]
      /\ \A f \in Fds : fdtab'[proc[t]][f] = None
  BY <1>1, <1>2
<1>4. Local(t)
  BY <1>3 DEF Local
<1>5. UNCHANGED <<prog, proc>> /\ \A v \in Tasks : proc[v] = proc[t] => state'[v] # "live"
  BY <1>3
<1>6. ~prog.threads /\ state'[t] = "ended" /\ fate'[proc[t]] = "asked" => start'[t] = Len(lb'[t])
  OBVIOUS
<1> QED BY <1>4, <1>5, <1>6, LocalKeeps

LEMMA ExitOrderly ==
  ASSUME AInv, BInv, NEW t \in Tasks, real_exit(t)
  PROVE  BInv'
<1>1. /\ At(t, "die") /\ Gone(t) /\ Done(t)
      /\ UNCHANGED <<proc, lb, start, nrec, ctxfd, newfd, logfd, up, wire, fate, parent, prog>>
  BY DEF real_exit
<1>2. /\ state[t] = "live" /\ todo[t] # << >> /\ todo[t][1][1] = "die" /\ Listed(t) /\ start[t] = 0
      /\ proc[t] \in Procs
  BY <1>1, StepAt
<1>3. lb[t] = << >>
  BY <1>2 DEF Listed, AfterFlush
<1>4. \A u \in Tasks \ {t} : todo'[u] = todo[u]
  BY <1>1 DEF Done, AInv, Types
<1>5. Tidy /\ Fits => fate'[proc[t]] # "fatal"
  BY <1>1, <1>2 DEF BInv, Unharmed, Fits
<1> QED BY <1>1, <1>2, <1>3, <1>4, <1>5, GoneOrderly

(* A flush whose write() fails is one of a process that exits already, and *)
(* that has had threads.                                                   *)
LEMMA FailingFlush ==
  ASSUME AInv, BInv, Tidy, NEW t \in Tasks, At(t, "flush"), ConnOf(t) \notin up
  PROVE  fate[proc[t]] # "running" /\ prog.threads
<1>1. /\ state[t] = "live" /\ todo[t] # << >> /\ todo[t][1][1] = "flush"
      /\ todo[t] \in Seq(Step) /\ prog \in Programs /\ IsList(prog, todo[t])
  BY StepAt
<1>2. Plain(prog, todo[t]) \/ Exits(todo[t])
  BY <1>1, ListAt
<1>3. Orderly(t)
  BY <1>1 DEF BInv
<1>4. ctxfd[t] = LOGD_FD => fdtab[proc[t]][LOGD_FD] \notin up
  BY Constants DEF ConnOf
<1>5. fate[proc[t]] # "running"
  BY <1>2, <1>3, <1>4 DEF Orderly, Running
<1>6. prog \in Programs /\ prog.threads \in BOOLEAN
  BY <1>1, ProgramsAssumption
<1> QED BY <1>1, <1>3, <1>4, <1>5, <1>6 DEF Orderly, Ending

LEMMA FailsOrderly ==
  ASSUME AInv, BInv, NEW t \in Tasks, lb_flush_fails(t)
  PROVE  BInv'
<1>1. /\ At(t, "flush") /\ Fatal(t) /\ ConnOf(t) \notin up
      /\ UNCHANGED <<proc, lb, nrec, ctxfd, newfd, logfd, up, wire, parent, prog>>
  BY DEF lb_flush_fails
<1>2. state[t] = "live" /\ proc[t] \in Procs /\ prog \in Programs
  BY <1>1, StepAt
<1>3. /\ todo \in [Tasks -> Seq(Step)] /\ start \in [Tasks -> Nat]
      /\ fate \in [Procs -> {"running", "asked", "fatal"}]
  BY DEF AInv, Types
<1>4. \A p \in Procs \ {proc[t]} : fate'[p] = fate[p]
  BY <1>1, <1>2, <1>3 DEF Fatal
<1>5. Tidy => fate[proc[t]] # "running" /\ prog.threads
  BY <1>1, FailingFlush
<1>6. Tidy => fate'[proc[t]] = fate[proc[t]]
  BY <1>1, <1>2, <1>3, <1>5 DEF Fatal
<1>7. Tidy /\ Fits => fate'[proc[t]] # "fatal"
  BY <1>2, <1>6 DEF BInv, Unharmed, Fits
<1>8. CASE todo' = [todo EXCEPT ![t] = exit_steps] /\ start' = [start EXCEPT ![t] = 0] /\ UNCHANGED <<state, fdtab>>
  <2>1. /\ todo'[t] = exit_steps
        /\ \A u \in Tasks \ {t} : todo'[u] = todo[u] /\ lb'[u] = lb[u] /\ start'[u] = start[u]
    BY <1>1, <1>3, <1>8
  <2>2. Still(t)
    BY <1>1, <1>8, <2>1 DEF Still
  <2>3. Local(t)
    BY <1>4, <2>2, StillLocal
  <2>4. ASSUME Tidy, NEW v \in Tasks, proc[v] = proc[t], state'[v] = "live" PROVE Orderly(v)'
    <3>1. t \in Mates(v)' /\ Exits(todo'[t])
      BY <1>1, <1>2, <1>8, <2>1, <2>4, ExitLists DEF Mates, Leaves
    <3>2. Ending(v)'
      BY <1>1, <1>5, <2>4, <3>1 DEF Ending
    <3> QED BY <1>1, <1>5, <1>6, <2>4, <3>2 DEF Orderly
  <2>5. UNCHANGED <<prog, proc>> /\ state'[t] # "ended"
    BY <1>1, <1>2, <1>8
  <2> QED BY <1>2, <1>7, <2>3, <2>4, <2>5, LocalKeeps
<1>9. CASE Gone(t) /\ UNCHANGED <<todo, start>>
  <2>1. prog.threads \in BOOLEAN /\ prog.overlap \in BOOLEAN
    BY <1>2, ProgramsAssumption
  <2>2. prog.threads
    BY <1>5, <2>1 DEF Tidy
  <2> QED BY <1>1, <1>2, <1>4, <1>7, <1>9, <2>2, GoneOrderly
<1> QED BY <1>8, <1>9 DEF lb_flush_fails

LEMMA EndOrderly ==
  ASSUME AInv, BInv, NEW t \in Tasks, End(t)
  PROVE  BInv'
<1>1. /\ At(t, "end") /\ Done(t) /\ state' = [state EXCEPT ![t] = "ended"]
      /\ UNCHANGED <<proc, lb, start, nrec, ctxfd, newfd, logfd, fdtab, up, wire, fate, parent, prog>>
  BY DEF End, kernel
<1>2. /\ state[t] = "live" /\ todo[t] # << >> /\ todo[t][1][1] = "end" /\ Listed(t) /\ start[t] = 0
      /\ proc[t] \in Procs /\ todo[t] \in Seq(Step) /\ prog \in Programs /\ IsList(prog, todo[t])
  BY <1>1, StepAt
<1>3. lb[t] = << >>
  BY <1>2 DEF Listed, AfterFlush
<1>4. Plain(prog, todo[t])
  BY <1>2, ListAt
<1>5. ~Exits(todo[t]) /\ ~Starts(todo[t])
  BY <1>2, <1>4, NotPlain, NotStarts
<1>6. state'[t] = "ended" /\ \A u \in Tasks \ {t} : state'[u] = state[u] /\ todo'[u] = todo[u]
  BY <1>1 DEF Done, AInv, Types
<1>7. Local(t)
  BY <1>1, <1>6 DEF Local
<1>8. ASSUME Tidy, NEW v \in Tasks, proc[v] = proc[t], state'[v] = "live" PROVE Orderly(v)'
  <2>1. v # t /\ state[v] = "live" /\ todo'[v] = todo[v]
    BY <1>6, <1>8
  <2>2. Orderly(v)
    BY <1>8, <2>1 DEF BInv
  <2>3. /\ Mates(v)' \subseteq Mates(v) /\ Mates(v) \subseteq Mates(v)' \cup {t}
        /\ Mates(v) \subseteq Tasks /\ t \notin Mates(v)'
    BY <1>1, <1>6 DEF Mates
  <2>4. /\ \A u \in Mates(v)' : todo'[u] = todo[u]
        /\ \A u \in Mates(v) : Exits(todo[u]) \/ Starts(todo[u]) => u \in Mates(v)' /\ todo'[u] = todo[u]
    BY <1>5, <1>6, <2>3
  <2>5. CASE fate[proc[t]] = "running"
    <3>1. Running(v)
      BY <1>8, <2>2, <2>5 DEF Orderly
    <3>2. Starts(todo[v]) => Phase(v)'
      BY <1>1, <2>1, <3>1 DEF Running, Phase
    <3>3. Running(v)'
      BY <1>1, <2>1, <2>3, <2>4, <3>1, <3>2 DEF Running
    <3> QED BY <1>1, <1>8, <2>5, <3>3 DEF Orderly
  <2>6. CASE fate[proc[t]] # "running"
    <3>1. Ending(v)
      BY <1>8, <2>2, <2>6 DEF Orderly
    <3>2. prog.threads
      <4>1. prog.threads \in BOOLEAN
        BY <1>2, ProgramsAssumption
      <4>2. ~prog.threads => v = t
        BY <1>2, <1>8, Sole
      <4> QED BY <2>1, <4>1, <4>2
    <3>3. Ending(v)'
      BY <1>1, <2>4, <3>1, <3>2 DEF Ending
    <3> QED BY <1>1, <1>8, <2>6, <3>3 DEF Orderly
  <2> QED BY <2>5, <2>6
<1>9. Tidy /\ Fits => fate'[proc[t]] # "fatal"
  BY <1>1, <1>2 DEF BInv, Unharmed, Fits
<1>10. ~prog.threads /\ state'[t] = "ended" /\ fate'[proc[t]] = "asked" => start'[t] = Len(lb'[t])
  BY <1>1, <1>2, <1>3
<1> QED BY <1>1, <1>2, <1>7, <1>8, <1>9, <1>10, LocalKeeps

(* A list of logd_init() is of no other kind. *)
LEMMA OnlyStarts ==
  ASSUME NEW g \in Programs, NEW q, Starts(q)
  PROVE  q \in Seq(Step) /\ ~Plain(g, q) /\ ~Exits(q)
BY StartTypes, NotStarts

LEMMA ExecOrderly ==
  ASSUME AInv, BInv, NEW t \in Tasks, exec(t)
  PROVE  BInv'
<1>1. /\ At(t, "exec")
      /\ UNCHANGED <<proc, lb, start, nrec, ctxfd, newfd, logfd, fdtab, up, wire, parent, prog>>
  BY DEF exec, kernel
<1>2. CASE Done(t) /\ UNCHANGED <<state, fate>>
  BY <1>1, <1>2, FailedOrderly
<1>3. CASE /\ state' = [u \in Tasks |-> IF u # t /\ proc[u] = proc[t] THEN "ended" ELSE state[u]]
           /\ fate'  = [fate EXCEPT ![proc[t]] = "running"]
           /\ todo'  = [todo EXCEPT ![t] = Socket]
  <2>1. state[t] = "live" /\ proc[t] \in Procs /\ prog \in Programs
    BY <1>1, StepAt
  <2>2. /\ \A u \in Tasks : state'[u] = IF u # t /\ proc[u] = proc[t] THEN "ended" ELSE state[u]
        /\ fate'[proc[t]] = "running" /\ \A p \in Procs \ {proc[t]} : fate'[p] = fate[p]
        /\ todo'[t] = Socket /\ \A u \in Tasks \ {t} : todo'[u] = todo[u]
    BY <1>3, <2>1 DEF AInv, Types
  <2>3. Local(t)
    BY <1>1, <2>2 DEF Local
  <2>4. Starts(Socket) /\ ~Plain(prog, Socket) /\ ~Exits(Socket)
    BY <2>1, StartTail, OnlyStarts
  <2>5. Phase(t)'
    BY <2>2, StartTail DEF Phase
  <2>6. Mates(t)' \subseteq {t}
    BY <1>1, <2>2 DEF Mates
  <2>7. Running(t)'
    BY <1>1, <2>2, <2>4, <2>5, <2>6 DEF Running
  <2>8. Orderly(t)'
    BY <1>1, <2>2, <2>7 DEF Orderly
  <2>9. \A v \in Tasks : proc[v] = proc[t] /\ state'[v] = "live" => v = t
    BY <2>2
  <2>10. state'[t] # "ended" /\ fate'[proc[t]] # "fatal"
    BY <2>1, <2>2
  <2> QED BY <1>1, <2>1, <2>3, <2>8, <2>9, <2>10, LocalKeeps
<1> QED BY <1>2, <1>3 DEF exec, Socket

(* In a process that is not running, other threads have had to be created  *)
(* for one of them to be in logd_init(), and one of the others exits.      *)
LEMMA StartedEnding ==
  ASSUME AInv, BInv, Tidy, NEW t \in Tasks, state[t] = "live", ~Exits(todo[t]), fate[proc[t]] # "running"
  PROVE  prog.threads /\ \E u \in Mates(t) : u # t /\ Exits(todo[u])
<1>1. Ending(t)
  BY DEF BInv, Orderly
<1>2. PICK u \in Mates(t) : Exits(todo[u])
  BY <1>1 DEF Ending
<1>3. u \in Tasks /\ proc[u] = proc[t] /\ u # t
  BY <1>2 DEF Mates
<1>4. prog.threads \in BOOLEAN
  BY ProgramsAssumption DEF AInv, Types
<1>5. ~prog.threads => u = t
  BY <1>3, Sole
<1> QED BY <1>2, <1>3, <1>4, <1>5

(* What a step of logd_init() leaves alone. *)
Starting(t) ==
  /\ UNCHANGED <<prog, proc, state, fate, start>> /\ Local(t)
  /\ \A u \in Tasks \ {t} : todo'[u] = todo[u] /\ ctxfd'[u] = ctxfd[u]

LEMMA StartingEnds ==
  ASSUME AInv, BInv, Tidy, NEW t \in Tasks, state[t] = "live", Starts(todo[t]), Starting(t),
         fate[proc[t]] # "running", NEW v \in Tasks, proc[v] = proc[t]
  PROVE  Orderly(v)'
<1>1. prog \in Programs
  BY DEF AInv, Types
<1>2. ~Exits(todo[t])
  BY <1>1, OnlyStarts
<1>3. prog.threads
  BY <1>2, StartedEnding
<1>4. PICK u \in Mates(t) : u # t /\ Exits(todo[u])
  BY <1>2, StartedEnding
<1>5. u \in Mates(v)' /\ Exits(todo'[u])
  BY <1>4 DEF Mates, Starting
<1>6. Ending(v)'
  BY <1>3, <1>5 DEF Ending, Starting
<1> QED BY <1>6 DEF Orderly, Starting

LEMMA StartOrderly ==
  ASSUME AInv, BInv, NEW t \in Tasks, state[t] = "live", Starts(todo[t]), Starting(t), Starts(todo'[t]),
         Tidy /\ fate[proc[t]] = "running" =>
           /\ Phase(t)'
           /\ fdtab[proc[t]][LOGD_FD] \in up => fdtab'[proc[t]][LOGD_FD] \in up'
  PROVE  BInv'
<1>1. /\ UNCHANGED <<prog, proc, state, fate, start>> /\ Local(t)
      /\ \A u \in Tasks \ {t} : todo'[u] = todo[u] /\ ctxfd'[u] = ctxfd[u]
  BY DEF Starting
<1>2. prog \in Programs /\ proc[t] \in Procs
  BY LiveTask
<1>3. ~Exits(todo[t]) /\ ~Exits(todo'[t]) /\ ~Plain(prog, todo'[t])
  BY <1>2, OnlyStarts
<1>4. ASSUME Tidy, NEW v \in Tasks, proc[v] = proc[t], state'[v] = "live" PROVE Orderly(v)'
  <2>1. CASE fate[proc[t]] = "running"
    <3>1. state[v] = "live" /\ Running(v) /\ Running(t)
      BY <1>1, <1>4, <2>1 DEF BInv, Orderly
    <3>2. /\ Mates(v)' = Mates(v) /\ Mates(v) = Mates(t) /\ Mates(v) \subseteq Tasks
          /\ v \in Mates(v) /\ t \in Mates(v)'
      BY <1>1, <1>4, <3>1 DEF Mates
    <3>3. \A u \in Mates(v) \ {t} : ~Starts(todo'[u])
      BY <1>1, <3>1, <3>2 DEF Running
    <3>4. Running(v)'
      <4>1. CASE v = t
        <5>1. Phase(t)'
          BY <1>4, <2>1
        <5> QED BY <1>1, <1>3, <3>2, <3>3, <4>1, <5>1 DEF Running
      <4>2. CASE v # t
        <5>1. todo'[v] = todo[v] /\ ctxfd'[v] = ctxfd[v] /\ ~Starts(todo'[v])
          BY <1>1, <3>2, <3>3, <4>2
        <5>2. ~Exits(todo'[v])
          BY <3>1, <5>1 DEF Running
        <5>3. Plain(prog, todo'[v]) => ctxfd'[v] = LOGD_FD /\ fdtab'[proc[v]][LOGD_FD] \in up'
          BY <1>4, <2>1, <3>1, <5>1 DEF Running
        <5>4. \E u \in Mates(v)' : Starts(todo'[u])
          BY <3>2
        <5> QED BY <1>1, <5>1, <5>2, <5>3, <5>4 DEF Running
      <4> QED BY <4>1, <4>2
    <3> QED BY <1>1, <1>4, <2>1, <3>4 DEF Orderly
  <2>2. CASE fate[proc[t]] # "running"
    BY <1>4, <2>2, StartingEnds
  <2> QED BY <2>1, <2>2
<1>5. Tidy /\ Fits => fate'[proc[t]] # "fatal"
  BY <1>1, <1>2 DEF BInv, Unharmed, Fits
<1>6. UNCHANGED <<prog, proc>> /\ state'[t] # "ended"
  BY <1>1
<1> QED BY <1>1, <1>4, <1>5, <1>6, LocalKeeps

(* How far logd_init() has come in a process that is running. *)
LEMMA StartPhase ==
  ASSUME AInv, BInv, Tidy, NEW t \in Tasks, state[t] = "live", Starts(todo[t]), fate[proc[t]] = "running"
  PROVE  Phase(t)
BY DEF BInv, Orderly, Running

LEMMA SocketOrderly ==
  ASSUME AInv, BInv, NEW t \in Tasks, logd_init_socket(t)
  PROVE  BInv'
<1>1. /\ At(t, "socket") /\ Done(t)
      /\ UNCHANGED <<proc, lb, start, nrec, ctxfd, newfd, state, up, wire, fate, parent, prog>>
      /\ logfd' = [logfd EXCEPT ![proc[t]] = MinOf(FreeFds(proc[t]))]
      /\ fdtab' = [fdtab EXCEPT ![proc[t]][MinOf(FreeFds(proc[t]))] = MinOf(Conns \ Made)]
  BY DEF logd_init_socket, task
<1>2. /\ state[t] = "live" /\ todo[t] # << >> /\ todo[t] \in Seq(Step) /\ IsList(prog, todo[t])
      /\ prog \in Programs /\ todo[t][1][1] = "socket" /\ proc[t] \in Procs
  BY <1>1, StepAt
<1>3. todo[t] = Socket
  BY <1>2, ListAt
<1>4. t \in Claims
  BY <1>2, <1>3 DEF Claims
<1>5. PICK f \in Fds \ {LOGD_FD}, c \in Conns \ Made : f = MinOf(FreeFds(proc[t])) /\ c = MinOf(Conns \ Made)
  BY <1>4, SocketFree
<1>6. PICK p \in Procs : p = proc[t]
  BY <1>2
<1>7. /\ fdtab \in [Procs -> [Fds -> Conns \cup {None}]] /\ logfd \in [Procs -> Fds \cup {-1}]
      /\ todo \in [Tasks -> Seq(Step)]
  BY DEF AInv, Types
<1>8. /\ logfd'[p] = f /\ fdtab'[p][f] = c /\ \A g \in Fds \ {f} : fdtab'[p][g] = fdtab[p][g]
      /\ \A q \in Procs \ {p} : logfd'[q] = logfd[q] /\ fdtab'[q] = fdtab[q]
  <2>1. logfd' = [logfd EXCEPT ![p] = f] /\ fdtab' = [fdtab EXCEPT ![p][f] = c]
    BY <1>1, <1>5, <1>6
  <2> QED BY <1>7, <2>1
<1>9. todo'[t] = Connect /\ \A u \in Tasks \ {t} : todo'[u] = todo[u]
  BY <1>1, <1>3, <1>7, StartTail DEF Done
<1>10. Local(t)
  <2>1. \A g \in Fds : fdtab'[p][g] \notin Made \/ \E h \in Fds : fdtab'[p][g] = fdtab[p][h]
    BY <1>5, <1>8
  <2> QED BY <1>1, <1>6, <1>8, <1>9, <2>1, ZenonT(60) DEF Local
<1>11. Starting(t)
  BY <1>1, <1>9, <1>10 DEF Starting
<1>12. Phase(t)'
  <2>1. c \notin up /\ \A q \in Procs, g \in Fds : fdtab[q][g] # c
    BY <1>5 DEF Made
  <2>2. \A q \in Procs, g \in Fds : fdtab'[q][g] = c => q = p /\ g = f
    BY <1>8, <2>1
  <2>3. proc'[t] = p /\ logfd'[p] = f /\ fdtab'[p][logfd'[p]] = c
    BY <1>1, <1>6, <1>8
  <2>4. /\ logfd'[p] \in Fds \ {LOGD_FD} /\ fdtab'[p][logfd'[p]] \in Conns \ up'
        /\ \A q \in Procs, g \in Fds : fdtab'[q][g] = fdtab'[p][logfd'[p]] => q = p /\ g = logfd'[p]
    <3>1. logfd'[p] \in Fds \ {LOGD_FD} /\ c \in Conns \ up'
      BY <1>1, <1>5, <2>1, <2>3
    <3> QED BY <2>2, <2>3, <3>1, Zenon
  <2> QED BY <1>9, <2>3, <2>4, StartTail DEF Phase
<1>13. fdtab[proc[t]][LOGD_FD] \in up => fdtab'[proc[t]][LOGD_FD] \in up'
  BY <1>1, <1>5, <1>6, <1>8, Constants
<1> QED BY <1>2, <1>3, <1>9, <1>11, <1>12, <1>13, StartTail, StartOrderly

LEMMA ConnectOrderly ==
  ASSUME AInv, BInv, NEW t \in Tasks, logd_init_connect(t)
  PROVE  BInv'
<1>1. At(t, "connect") /\ UNCHANGED <<proc, lb, start, nrec, ctxfd, newfd, logfd, wire, parent, prog>>
  BY DEF logd_init_connect
<1>2. /\ state[t] = "live" /\ todo[t] # << >> /\ todo[t] \in Seq(Step) /\ IsList(prog, todo[t])
      /\ prog \in Programs /\ todo[t][1][1] = "connect" /\ proc[t] \in Procs
  BY <1>1, StepAt
<1>3. todo[t] = Connect
  BY <1>2, ListAt
<1>4. /\ fdtab \in [Procs -> [Fds -> Conns \cup {None}]] /\ todo \in [Tasks -> Seq(Step)]
      /\ fate \in [Procs -> {"running", "asked", "fatal"}]
  BY DEF AInv, Types
<1>5. Tidy /\ fate[proc[t]] = "running" => Phase(t)
  BY <1>2, <1>3, StartTail, StartPhase
<1>6. CASE /\ Global(t) \in Conns \ up /\ up' = up \cup {Global(t)} /\ Done(t)
           /\ UNCHANGED <<state, fdtab, fate>>
  <2>1. todo'[t] = Dup2 /\ \A u \in Tasks \ {t} : todo'[u] = todo[u]
    BY <1>3, <1>4, <1>6, StartTail DEF Done
  <2>2. logfd[proc[t]] \in Fds /\ Global(t) = fdtab[proc[t]][logfd[proc[t]]]
    BY <1>6, Constants DEF Global
  <2>3. PICK c : c = Global(t)
    OBVIOUS
  <2>4. Local(t)
    BY <1>1, <1>6, <2>1, <2>2, <2>3 DEF Local
  <2>5. Starting(t)
    BY <1>1, <1>6, <2>1, <2>4 DEF Starting
  <2>6. ASSUME Phase(t) PROVE Phase(t)'
    <3>1. logfd[proc[t]] \in Fds \ {LOGD_FD}
      BY <1>3, <2>6 DEF Phase
    <3> QED BY <1>1, <1>6, <2>1, <2>2, <3>1, StartTail DEF Phase
  <2>7. fdtab[proc[t]][LOGD_FD] \in up => fdtab'[proc[t]][LOGD_FD] \in up'
    BY <1>6
  <2> QED BY <1>2, <1>3, <1>5, <2>1, <2>5, <2>6, <2>7, StartTail, StartOrderly
<1>7. CASE Global(t) \in up \cup {None} /\ Fatal(t) /\ Gone(t) /\ UNCHANGED <<todo, up>>
  <2>1. ASSUME Tidy PROVE fate[proc[t]] # "running" /\ prog.threads
    <3>1. ~Phase(t)
      BY <1>3, <1>7, Constants DEF Phase, Global
    <3>2. fate[proc[t]] # "running"
      BY <1>5, <2>1, <3>1
    <3> QED BY <1>2, <1>3, <2>1, <3>2, StartTail, OnlyStarts, StartedEnding
  <2>2. \A p \in Procs \ {proc[t]} : fate'[p] = fate[p]
    BY <1>2, <1>4, <1>7 DEF Fatal
  <2>3. Tidy => fate'[proc[t]] = fate[proc[t]]
    BY <1>2, <1>4, <1>7, <2>1 DEF Fatal
  <2>4. Tidy /\ Fits => fate'[proc[t]] # "fatal"
    BY <1>2, <2>3 DEF BInv, Unharmed, Fits
  <2>5. prog.threads
    <3>1. prog.threads \in BOOLEAN /\ prog.overlap \in BOOLEAN
      BY <1>2, ProgramsAssumption
    <3> QED BY <2>1, <3>1 DEF Tidy
  <2> QED BY <1>1, <1>2, <1>7, <2>2, <2>4, <2>5, GoneOrderly
<1> QED BY <1>6, <1>7 DEF logd_init_connect

LEMMA Dup2Orderly ==
  ASSUME AInv, BInv, NEW t \in Tasks, logd_init_dup2(t)
  PROVE  BInv'
<1>1. /\ At(t, "dup2") /\ Done(t)
      /\ UNCHANGED <<proc, lb, start, nrec, ctxfd, state, logfd, up, wire, fate, parent, prog>>
      /\ IF Global(t) = None
         THEN newfd' = [newfd EXCEPT ![t] = -1] /\ UNCHANGED fdtab
         ELSE /\ newfd' = [newfd EXCEPT ![t] = LOGD_FD]
              /\ fdtab' = [fdtab EXCEPT ![proc[t]][LOGD_FD] = Global(t)]
  BY DEF logd_init_dup2
<1>2. /\ state[t] = "live" /\ todo[t] # << >> /\ todo[t] \in Seq(Step) /\ IsList(prog, todo[t])
      /\ prog \in Programs /\ todo[t][1][1] = "dup2" /\ proc[t] \in Procs
  BY <1>1, StepAt
<1>3. todo[t] = Dup2
  BY <1>2, ListAt
<1>4. /\ fdtab \in [Procs -> [Fds -> Conns \cup {None}]] /\ todo \in [Tasks -> Seq(Step)]
      /\ newfd \in [Tasks -> {LOGD_FD, -1}] /\ LOGD_FD \in Fds /\ None \notin Conns
  BY Constants DEF AInv, Types
<1>5. todo'[t] = Close /\ \A u \in Tasks \ {t} : todo'[u] = todo[u]
  BY <1>1, <1>3, <1>4, StartTail DEF Done
<1>6. PICK p \in Procs : p = proc[t]
  BY <1>2
<1>7. PICK c : c = Global(t)
  OBVIOUS
<1>8. CASE c = None
  <2>1. UNCHANGED fdtab /\ \A u \in Tasks \ {t} : newfd'[u] = newfd[u]
    BY <1>1, <1>4, <1>7, <1>8
  <2>2. Local(t)
    BY <1>1, <1>5, <2>1 DEF Local
  <2>3. Starting(t)
    BY <1>1, <1>5, <2>2 DEF Starting
  <2>4. ~Phase(t)
    BY <1>3, <1>4, <1>7, <1>8 DEF Phase, Global, AInv, Types
  <2>5. ~(Tidy /\ fate[proc[t]] = "running")
    BY <1>2, <1>3, <2>4, StartTail, StartPhase
  <2> QED BY <1>2, <1>3, <1>5, <2>3, <2>5, StartTail, StartOrderly
<1>9. CASE c # None
  <2>1. fdtab' = [fdtab EXCEPT ![p][LOGD_FD] = c] /\ newfd' = [newfd EXCEPT ![t] = LOGD_FD]
    BY <1>1, <1>6, <1>7, <1>9
  <2>2. /\ fdtab'[p][LOGD_FD] = c /\ \A f \in Fds \ {LOGD_FD} : fdtab'[p][f] = fdtab[p][f]
        /\ \A q \in Procs \ {p} : fdtab'[q] = fdtab[q]
        /\ newfd'[t] = LOGD_FD /\ \A u \in Tasks \ {t} : newfd'[u] = newfd[u]
    BY <1>4, <2>1
  <2>3. logfd[p] \in Fds /\ c = fdtab[p][logfd[p]]
    BY <1>6, <1>7, <1>9 DEF Global
  <2>4. Local(t)
    <3>1. \A f \in Fds : \E g \in Fds : fdtab'[p][f] = fdtab[p][g]
      BY <2>2, <2>3
    <3> QED BY <1>1, <1>5, <1>6, <2>2, <3>1 DEF Local
  <2>5. Starting(t)
    BY <1>1, <1>5, <2>4 DEF Starting
  <2>6. ASSUME Phase(t) PROVE Phase(t)' /\ fdtab'[p][LOGD_FD] \in up'
    <3>1. logfd[p] # LOGD_FD /\ c \in up
      BY <1>3, <1>6, <2>3, <2>6 DEF Phase
    <3>2. logfd'[p] # LOGD_FD /\ fdtab'[p][LOGD_FD] \in up' /\ newfd'[t] = LOGD_FD /\ proc'[t] = p
      BY <1>1, <1>6, <2>2, <3>1
    <3> QED BY <1>5, <3>2, StartTail DEF Phase
  <2>7. Tidy /\ fate[proc[t]] = "running" => Phase(t)
    BY <1>2, <1>3, StartTail, StartPhase
  <2> QED BY <1>2, <1>3, <1>5, <1>6, <2>5, <2>6, <2>7, StartTail, StartOrderly
<1> QED BY <1>8, <1>9

(* The last thing exit() does after it closes the descriptor. *)
LEMMA CloseDies ==
  ASSUME NEW q \in Seq(Step), Exits(q), q[1][1] = "close"
  PROVE  Exits(Tail(q)) /\ Tail(q) # << >> /\ Tail(q)[1][1] = "die"
<1>1. Exits(Tail(q))
  BY ExitsTail
<1>2. q # << >> /\ Tail(q) # << >>
  BY <1>1 DEF Exits
<1>3. Len(q) \in Nat /\ Len(q) >= 1 /\ Len(Tail(q)) = Len(q) - 1 /\ \A i \in 1..Len(q)-1 : Tail(q)[i] = q[i+1]
  BY <1>2, TailSteps
<1>4. q[Len(q)][1] = "die" /\ \A i \in 1..Len(q)-1 : q[i][1] = "close" => i = Len(q) - 1
  BY DEF Exits
<1>5. Len(q) = 2
  <2>1. PICK n \in Nat : n = Len(q) /\ n >= 1
    BY <1>3
  <2>2. n # 1
    BY <1>4, <2>1
  <2>3. 1 \in 1..n-1
    BY <1>3, <2>1, <2>2
  <2>4. 1 = n - 1
    BY <1>4, <2>1, <2>3
  <2>5. n = 2
    BY <2>4
  <2> QED BY <2>1, <2>5
<1>6. Tail(q)[1] = q[2] /\ q[2][1] = "die"
  <2>1. PICK r : r = Tail(q)
    OBVIOUS
  <2>2. \A i \in 1..1 : r[i] = q[i+1]
    BY <1>3, <1>5, <2>1
  <2>3. r[1] = q[2]
    BY <2>2
  <2>4. q[2][1] = "die"
    BY <1>4, <1>5
  <2> QED BY <2>1, <2>3, <2>4, Zenon
<1> QED BY <1>1, <1>2, <1>6

LEMMA CloseOrderly ==
  ASSUME AInv, BInv, NEW t \in Tasks, close_logfd(t)
  PROVE  BInv'
<1>1. /\ At(t, "close") /\ Done(t)
      /\ UNCHANGED <<proc, lb, start, nrec, ctxfd, newfd, state, logfd, up, wire, fate, parent, prog>>
      /\ fdtab' = IF logfd[proc[t]] \in Fds THEN [fdtab EXCEPT ![proc[t]][logfd[proc[t]]] = None] ELSE fdtab
  BY DEF close_logfd, task
<1>2. /\ state[t] = "live" /\ todo[t] # << >> /\ todo[t] \in Seq(Step) /\ IsList(prog, todo[t])
      /\ prog \in Programs /\ todo[t][1][1] = "close" /\ proc[t] \in Procs
  BY <1>1, StepAt
<1>3. fdtab \in [Procs -> [Fds -> Conns \cup {None}]] /\ todo \in [Tasks -> Seq(Step)] /\ LOGD_FD \in Fds
  BY Constants DEF AInv, Types
<1>4. PICK p \in Procs : p = proc[t]
  BY <1>2
<1>5. /\ \A q \in Procs \ {p} : fdtab'[q] = fdtab[q]
      /\ \A f \in Fds : fdtab'[p][f] = IF f = logfd[p] THEN None ELSE fdtab[p][f]
  <2>1. fdtab' = IF logfd[p] \in Fds THEN [fdtab EXCEPT ![p][logfd[p]] = None] ELSE fdtab
    BY <1>1, <1>4
  <2> QED BY <1>3, <2>1
<1>6. todo'[t] = Tail(todo[t]) /\ \A u \in Tasks \ {t} : todo'[u] = todo[u]
  BY <1>1, <1>3 DEF Done
<1>7. Local(t)
  BY <1>1, <1>4, <1>5, <1>6 DEF Local
<1>8. CASE todo[t] = Close
  <2>1. todo'[t] = NewFd
    BY <1>6, <1>8, StartTail
  <2>2. Starting(t)
    BY <1>1, <1>6, <1>7 DEF Starting
  <2>3. ASSUME Phase(t) PROVE Phase(t)' /\ fdtab'[p][LOGD_FD] \in up'
    <3>1. logfd[p] # LOGD_FD /\ fdtab[p][LOGD_FD] \in up /\ newfd[t] = LOGD_FD
      BY <1>4, <1>8, <2>3 DEF Phase
    <3>2. fdtab'[p][LOGD_FD] \in up' /\ newfd'[t] = LOGD_FD /\ proc'[t] = p
      BY <1>1, <1>3, <1>4, <1>5, <3>1
    <3> QED BY <2>1, <3>2, StartTail DEF Phase
  <2>4. Tidy /\ fate[proc[t]] = "running" => Phase(t)
    BY <1>2, <1>8, StartTail, StartPhase
  <2> QED BY <1>2, <1>4, <1>8, <2>1, <2>2, <2>3, <2>4, StartTail, StartOrderly
<1>9. CASE Exits(todo[t])
  <2>1. Exits(todo'[t]) /\ todo'[t][1][1] = "die"
    BY <1>2, <1>6, <1>9, CloseDies
  <2>2. ASSUME Tidy, NEW v \in Tasks, proc[v] = proc[t], state'[v] = "live" PROVE Orderly(v)'
    <3>1. Orderly(t) /\ Orderly(v)
      BY <1>1, <1>2, <2>2 DEF BInv
    <3>2. fate[proc[t]] # "running"
      BY <1>9, <3>1 DEF Orderly, Running
    <3>3. t \in Mates(v)'
      BY <1>1, <1>2, <2>2 DEF Mates
    <3>4. ASSUME ~prog.threads PROVE v = t /\ ctxfd[t] = LOGD_FD
      BY <1>2, <2>2, <3>1, <3>2, <3>4, Sole DEF Orderly, Ending
    <3>5. Ending(v)'
      BY <1>1, <2>1, <3>3, <3>4 DEF Ending
    <3> QED BY <1>1, <2>2, <3>2, <3>5 DEF Orderly
  <2>3. Tidy /\ Fits => fate'[proc[t]] # "fatal"
    BY <1>1, <1>2 DEF BInv, Unharmed, Fits
  <2>4. UNCHANGED <<prog, proc>> /\ state'[t] # "ended"
    BY <1>1, <1>2
  <2> QED BY <1>2, <1>7, <2>2, <2>3, <2>4, LocalKeeps
<1> QED BY <1>2, <1>8, <1>9, ListAt

LEMMA NewFdOrderly ==
  ASSUME AInv, BInv, NEW t \in Tasks, logd_init_newfd(t)
  PROVE  BInv'
<1>1. /\ At(t, "newfd") /\ Done(t) /\ logfd' = [logfd EXCEPT ![proc[t]] = newfd[t]]
      /\ UNCHANGED <<proc, lb, start, nrec, ctxfd, newfd, state, fdtab, up, wire, fate, parent, prog>>
  BY DEF logd_init_newfd, task, kernel
<1>2. /\ state[t] = "live" /\ todo[t] # << >> /\ todo[t] \in Seq(Step) /\ IsList(prog, todo[t])
      /\ prog \in Programs /\ todo[t][1][1] = "newfd" /\ proc[t] \in Procs
  BY <1>1, StepAt
<1>3. todo[t] = NewFd
  BY <1>2, ListAt
<1>4. /\ todo'[t] = Ctx /\ \A u \in Tasks \ {t} : todo'[u] = todo[u]
      /\ logfd'[proc[t]] = newfd[t] /\ \A p \in Procs \ {proc[t]} : logfd'[p] = logfd[p]
  BY <1>1, <1>2, <1>3, StartTail DEF Done, AInv, Types
<1>5. Local(t)
  BY <1>1, <1>4 DEF Local
<1>6. Starting(t)
  BY <1>1, <1>4, <1>5 DEF Starting
<1>7. ASSUME Phase(t) PROVE Phase(t)'
  <2>1. newfd[t] = LOGD_FD /\ fdtab[proc[t]][LOGD_FD] \in up
    BY <1>3, <1>7 DEF Phase
  <2> QED BY <1>1, <1>4, <2>1, StartTail DEF Phase
<1>8. Tidy /\ fate[proc[t]] = "running" => Phase(t)
  BY <1>2, <1>3, StartTail, StartPhase
<1>9. fdtab[proc[t]][LOGD_FD] \in up => fdtab'[proc[t]][LOGD_FD] \in up'
  BY <1>1
<1> QED BY <1>2, <1>3, <1>4, <1>6, <1>7, <1>8, <1>9, StartTail, StartOrderly

LEMMA AllocCtxOrderly ==
  ASSUME AInv, BInv, NEW t \in Tasks, alloc_ctx(t)
  PROVE  BInv'
<1>1. /\ At(t, "ctx") /\ Done(t) /\ ctxfd' = [ctxfd EXCEPT ![t] = logfd[proc[t]]] /\ lb' = [lb EXCEPT ![t] = << >>]
      /\ UNCHANGED <<proc, start, nrec, newfd, state, logfd, fdtab, up, wire, fate, parent, prog>>
  BY DEF alloc_ctx, kernel
<1>2. /\ state[t] = "live" /\ todo[t] # << >> /\ todo[t] \in Seq(Step) /\ IsList(prog, todo[t])
      /\ prog \in Programs /\ todo[t][1][1] = "ctx" /\ proc[t] \in Procs
  BY <1>1, StepAt
<1>3. todo[t] = Ctx
  BY <1>2, ListAt
<1>4. /\ todo'[t] = <<log(CtlSize)>> /\ ctxfd'[t] = logfd[proc[t]]
      /\ \A u \in Tasks \ {t} : todo'[u] = todo[u] /\ ctxfd'[u] = ctxfd[u] /\ lb'[u] = lb[u]
  <2>1. todo'[t] = Tail(Ctx) /\ Tail(Ctx) = <<log(CtlSize)>>
    BY <1>1, <1>3, StartLists DEF Done, AInv, Types, CtlSize
  <2> QED BY <1>1, <2>1 DEF Done, AInv, Types
<1>5. Local(t)
  BY <1>1, <1>4 DEF Local
<1>6. Plain(prog, todo'[t]) /\ todo'[t] \in Seq(Step)
  BY <1>2, <1>4, PlainLists
<1>7. ~Exits(todo'[t]) /\ ~Starts(todo'[t])
  BY <1>2, <1>6, NotPlain, NotStarts
<1>8. ASSUME Tidy, NEW v \in Tasks, proc[v] = proc[t], state'[v] = "live" PROVE Orderly(v)'
  <2>1. CASE fate[proc[t]] = "running"
    <3>1. state[v] = "live" /\ Running(v) /\ Running(t) /\ Starts(todo[t])
      BY <1>1, <1>2, <1>3, <1>8, <2>1, StartTail DEF BInv, Orderly
    <3>2. logfd[proc[t]] = LOGD_FD /\ fdtab[proc[t]][LOGD_FD] \in up
      BY <1>3, <3>1 DEF Running, Phase
    <3>3. CASE v = t
      BY <1>1, <1>4, <1>7, <2>1, <3>2, <3>3 DEF Orderly, Running
    <3>4. CASE v # t
      <4>1. v \in Mates(t) \ {t}
        BY <1>8, <3>1, <3>4 DEF Mates
      <4>2. ~Starts(todo[v])
        BY <3>1, <4>1 DEF Running
      <4>3. Running(v)'
        BY <1>1, <1>4, <1>8, <3>1, <3>2, <3>4, <4>2 DEF Running
      <4> QED BY <1>1, <1>8, <2>1, <4>3 DEF Orderly
    <3> QED BY <3>3, <3>4
  <2>2. CASE fate[proc[t]] # "running"
    <3>1. Starting(t)
      BY <1>1, <1>4, <1>5 DEF Starting
    <3> QED BY <1>2, <1>3, <1>8, <2>2, <3>1, StartTail, StartingEnds
  <2> QED BY <2>1, <2>2
<1>9. Tidy /\ Fits => fate'[proc[t]] # "fatal"
  BY <1>1, <1>2 DEF BInv, Unharmed, Fits
<1>10. UNCHANGED <<prog, proc>> /\ state'[t] # "ended"
  BY <1>1, <1>2
<1> QED BY <1>2, <1>5, <1>8, <1>9, <1>10, LocalKeeps

(* When a program forks or creates a thread without overlap, no task of    *)
(* the process starts or exits, so that the descriptor is in place.        *)
Quiet(t) ==
  /\ fate[proc[t]] = "running" /\ logfd[proc[t]] = LOGD_FD /\ fdtab[proc[t]][LOGD_FD] \in up
  /\ \A v \in Tasks : proc[v] = proc[t] /\ state[v] = "live" => Plain(prog, todo[v]) /\ ctxfd[v] = LOGD_FD

LEMMA QuietThen ==
  ASSUME AInv, BInv, Tidy, NEW t \in Tasks, NEW op \in {"fork", "spawn"}, At(t, op), Apart(t)
  PROVE  Quiet(t)
<1>1. /\ state[t] = "live" /\ todo[t] # << >> /\ todo[t] \in Seq(Step) /\ IsList(prog, todo[t])
      /\ prog \in Programs /\ todo[t][1][1] = op /\ proc[t] \in Procs
  BY StepAt
<1>2. Plain(prog, todo[t])
  BY <1>1, ListAt
<1>3. ASSUME NEW v \in Tasks, proc[v] = proc[t], state[v] = "live" PROVE Plain(prog, todo[v])
  <2>1. CASE v = t
    BY <1>2, <2>1
  <2>2. CASE v # t
    <3>1. ~prog.overlap
      <4>1. prog.threads \/ v = t
        BY <1>1, <1>3, Sole
      <4> QED BY <2>2, <4>1 DEF Tidy
    <3>2. ~Has(v, "ctx") /\ ~Has(v, "die")
      BY <1>3, <2>2, <3>1 DEF Apart
    <3>3. ~Starts(todo[v])
      BY <3>2, StartHas DEF Has
    <3>4. ~Exits(todo[v])
      <4> SUFFICES ASSUME Exits(todo[v]) PROVE FALSE
        OBVIOUS
      <4>1. todo[v] \in Seq(Step)
        BY <1>3, LiveTask
      <4>2. todo[v] # << >> /\ todo[v][Len(todo[v])][1] = "die"
        BY DEF Exits
      <4>3. Len(todo[v]) \in 1..Len(todo[v])
        BY <4>1, <4>2
      <4> QED BY <3>2, <4>2, <4>3 DEF Has
    <3> QED BY <1>3, <3>3, <3>4, LiveTask DEF Listed, IsList
  <2> QED BY <2>1, <2>2
<1>4. \A v \in Mates(t) : v \in Tasks /\ proc[v] = proc[t] /\ state[v] = "live" /\ Plain(prog, todo[v])
  BY <1>3 DEF Mates
<1>5. \A v \in Mates(t) : ~Exits(todo[v]) /\ ~Starts(todo[v])
  BY <1>1, <1>4, LiveTask, NotPlain, NotStarts
<1>6. fate[proc[t]] = "running"
  BY <1>1, <1>5 DEF BInv, Orderly, Ending
<1>7. ASSUME NEW v \in Tasks, proc[v] = proc[t], state[v] = "live" PROVE Running(v)
  BY <1>6, <1>7 DEF BInv, Orderly
<1>8. logfd[proc[t]] = LOGD_FD /\ fdtab[proc[t]][LOGD_FD] \in up
  BY <1>1, <1>2, <1>5, <1>7 DEF Running
<1>9. \A v \in Tasks : proc[v] = proc[t] /\ state[v] = "live" => Plain(prog, todo[v]) /\ ctxfd[v] = LOGD_FD
  BY <1>3, <1>7 DEF Running
<1> QED BY <1>6, <1>8, <1>9 DEF Quiet

(* A task that runs with the descriptor in place. *)
LEMMA InPlace ==
  ASSUME Types', NEW v \in Tasks, NEW p \in Procs, proc'[v] = p, fate'[p] = "running", Plain(prog', todo'[v]),
         ctxfd'[v] = LOGD_FD, fdtab'[p][LOGD_FD] \in up',
         logfd'[p] = LOGD_FD \/ \E u \in Mates(v)' : Starts(todo'[u])
  PROVE  Orderly(v)'
<1>1. prog' \in Programs /\ todo'[v] \in Seq(Step)
  BY DEF Types
<1>2. ~Exits(todo'[v]) /\ ~Starts(todo'[v])
  BY <1>1, NotPlain, NotStarts
<1>3. Running(v)'
  BY <1>2 DEF Running
<1> QED BY <1>3 DEF Orderly

LEMMA ForkOrderly ==
  ASSUME AInv, BInv, AInv', NEW t \in Tasks, fork_child(t)
  PROVE  BInv'
<1>1. At(t, "fork") /\ Apart(t) /\ Done(t) /\ UNCHANGED <<fate, up, wire, prog>>
  BY DEF fork_child
<1>2. CASE UNCHANGED <<task, logfd, fdtab, parent>>
  BY <1>1, <1>2, FailedOrderly DEF task
<1>3. CASE ~(IdleTasks = {} \/ IdleProcs = {})
  <2>1. PICK u \in Tasks : u = MinOf(IdleTasks) /\ state[u] = "idle"
    BY <1>3, Unused
  <2>2. PICK p \in Procs : p = MinOf(IdleProcs) /\ \A v \in Tasks : proc[v] # p
    BY <1>3, Unused
  <2>3. /\ proc'  = [proc EXCEPT ![u] = p] /\ state' = [state EXCEPT ![u] = "live"]
        /\ logfd' = [logfd EXCEPT ![p] = logfd[proc[t]]] /\ fdtab' = [fdtab EXCEPT ![p] = fdtab[proc[t]]]
        /\ ctxfd' = [ctxfd EXCEPT ![u] = logfd[proc[t]]] /\ lb' = [lb EXCEPT ![u] = Record(u, 1, CtlSize)]
        /\ UNCHANGED <<start, newfd>>
    BY <1>3, <2>1, <2>2 DEF fork_child
  <2>4. /\ state[t] = "live" /\ todo[t] # << >> /\ todo[t] \in Seq(Step) /\ IsList(prog, todo[t])
        /\ prog \in Programs /\ todo[t][1][1] = "fork" /\ proc[t] \in Procs
    BY <1>1, StepAt
  <2>5. Types /\ Types' /\ t # u /\ todo[u] = << >> /\ proc[u] = None
    BY <2>1, <2>4 DEF AInv, Task
  <2>6. PICK o \in Procs : o = proc[t] /\ o # p
    BY <2>2, <2>4
  <2>7. /\ proc'[u] = p /\ state'[u] = "live" /\ logfd'[p] = logfd[o] /\ fdtab'[p] = fdtab[o] /\ ctxfd'[u] = logfd[o]
        /\ todo'[t] = Tail(todo[t]) /\ todo'[u] = << >>
        /\ \A v \in Tasks \ {u} : proc'[v] = proc[v] /\ state'[v] = state[v] /\ ctxfd'[v] = ctxfd[v] /\ lb'[v] = lb[v]
        /\ \A q \in Procs \ {p} : logfd'[q] = logfd[q] /\ fdtab'[q] = fdtab[q]
        /\ \A v \in Tasks \ {t} : todo'[v] = todo[v]
    BY <1>1, <2>3, <2>5, <2>6 DEF Types, Done
  <2>8. None \notin Procs /\ Single /\ Fresh /\ NothingLeft
    BY Constants DEF BInv
  <2>9. Single'
    BY <1>1, <2>2, <2>5, <2>7, <2>8 DEF Single
  <2>10. Fresh'
    BY <1>1, <2>2, <2>5, <2>7, <2>8 DEF Fresh
  <2>11. NothingLeft'
    BY <1>1, <2>3, <2>7, <2>8 DEF NothingLeft
  <2>12. ASSUME Tidy' PROVE Unharmed' /\ \A v \in Tasks : state'[v] = "live" => Orderly(v)'
    <3>1. Tidy /\ Unharmed /\ \A v \in Tasks : state[v] = "live" => Orderly(v)
      BY <1>1, <2>12 DEF Tidy, BInv
    <3>2. Unharmed'
      BY <1>1, <3>1 DEF Unharmed
    <3>3. Quiet(t)
      BY <1>1, <3>1, QuietThen
    <3>4. fate[o] = "running" /\ logfd[o] = LOGD_FD /\ fdtab[o][LOGD_FD] \in up
      BY <2>6, <3>3 DEF Quiet
    <3>5. Orderly(u)'
      <4>1. fate'[p] = "running"
        BY <1>1, <2>2, <2>8 DEF Fresh
      <4>2. Plain(prog', todo'[u])
        BY <1>1, <2>4, <2>7, PlainLists
      <4>3. ctxfd'[u] = LOGD_FD /\ fdtab'[p][LOGD_FD] \in up' /\ logfd'[p] = LOGD_FD
        BY <1>1, <2>7, <3>4
      <4> QED BY <2>5, <2>7, <4>1, <4>2, <4>3, InPlace
    <3>6. ASSUME NEW v \in Tasks \ {u}, state'[v] = "live", proc[v] = o PROVE Orderly(v)'
      <4>1. state[v] = "live" /\ proc'[v] = o /\ ctxfd'[v] = ctxfd[v]
        BY <2>7, <3>6
      <4>2. Plain(prog, todo[v]) /\ ctxfd'[v] = LOGD_FD
        BY <2>6, <3>3, <3>6, <4>1 DEF Quiet
      <4>3. Plain(prog', todo'[v])
        <5>1. CASE v = t
          BY <1>1, <2>4, <2>7, <4>2, <5>1, PlainTail
        <5>2. CASE v # t
          BY <1>1, <2>7, <4>2, <5>2
        <5> QED BY <5>1, <5>2
      <4>4. fate'[o] = "running" /\ fdtab'[o][LOGD_FD] \in up' /\ logfd'[o] = LOGD_FD
        BY <1>1, <2>6, <2>7, <3>4
      <4> QED BY <2>5, <4>1, <4>2, <4>3, <4>4, InPlace
    <3>7. ASSUME NEW v \in Tasks \ {u}, state'[v] = "live", proc[v] # o PROVE Orderly(v)'
      <4>1. state[v] = "live"
        BY <2>7, <3>7
      <4>2. PICK q \in Procs : q = proc[v] /\ q # p /\ q # o
        BY <2>2, <3>7, <4>1, LiveTask
      <4>3. Elsewhere(q)
        <5>1. \A w \in Tasks : proc[w] = q \/ proc'[w] = q =>
                /\ proc'[w] = proc[w] /\ state'[w] = state[w] /\ todo'[w] = todo[w]
                /\ ctxfd'[w] = ctxfd[w] /\ newfd'[w] = newfd[w]
          BY <2>3, <2>5, <2>6, <2>7, <2>8, <4>2
        <5>2. \A x \in Procs \ {q}, f \in Fds : \E y \in Procs \ {q}, g \in Fds : fdtab'[x][f] = fdtab[y][g]
          BY <2>6, <2>7, <4>2
        <5> QED BY <1>1, <2>7, <4>2, <5>1, <5>2 DEF Elsewhere
      <4>4. Orderly(v)
        BY <3>1, <4>1
      <4> QED BY <1>1, <4>2, <4>3, <4>4, OrderlyFrame
    <3> QED BY <3>2, <3>5, <3>6, <3>7
  <2> QED BY <2>9, <2>10, <2>11, <2>12 DEF BInv
<1> QED BY <1>2, <1>3 DEF fork_child

LEMMA SpawnOrderly ==
  ASSUME AInv, BInv, AInv', NEW t \in Tasks, spawn(t)
  PROVE  BInv'
<1>1. /\ At(t, "spawn") /\ Apart(t)
      /\ UNCHANGED <<lb, start, nrec, ctxfd, newfd, logfd, fdtab, up, wire, fate, parent, prog>>
  BY DEF spawn, kernel
<1>2. CASE Done(t) /\ UNCHANGED <<proc, state>>
  BY <1>1, <1>2, FailedOrderly
<1>3. CASE ~(IdleTasks = {} \/ Claimed >= prog.conns)
  <2>1. PICK u \in Tasks : u = MinOf(IdleTasks) /\ state[u] = "idle"
    BY <1>3, Unused
  <2>2. /\ proc'  = [proc EXCEPT ![u] = proc[t]] /\ state' = [state EXCEPT ![u] = "live"]
        /\ todo'  = [todo EXCEPT ![t] = Tail(@), ![u] = Socket]
    BY <1>3, <2>1 DEF spawn, Socket
  <2>3. /\ state[t] = "live" /\ todo[t] # << >> /\ todo[t] \in Seq(Step) /\ IsList(prog, todo[t])
        /\ prog \in Programs /\ todo[t][1][1] = "spawn" /\ proc[t] \in Procs
    BY <1>1, StepAt
  <2>4. Types /\ Types' /\ t # u /\ proc[u] = None /\ None \notin Procs
    BY <2>1, <2>3, Constants DEF AInv, Task
  <2>5. PICK o \in Procs : o = proc[t]
    BY <2>3
  <2>6. /\ proc'[u] = o /\ state'[u] = "live" /\ todo'[t] = Tail(todo[t]) /\ todo'[u] = Socket
        /\ \A v \in Tasks \ {u} : proc'[v] = proc[v] /\ state'[v] = state[v]
        /\ \A v \in Tasks \ {t, u} : todo'[v] = todo[v]
    BY <2>2, <2>4, <2>5, SMTT(40) DEF Types
  <2>7. Plain(prog, todo[t]) /\ prog.threads
    <3>1. Plain(prog, todo[t])
      BY <2>3, ListAt
    <3>2. 1 \in 1..Len(todo[t])
      BY <2>3
    <3> QED BY <2>3, <3>1, <3>2 DEF Plain
  <2>8. Single' /\ NothingLeft'
    BY <1>1, <2>7 DEF Single, NothingLeft
  <2>9. Fresh'
    BY <1>1, <2>4, <2>5, <2>6 DEF Fresh, BInv
  <2>10. ASSUME Tidy' PROVE Unharmed' /\ \A v \in Tasks : state'[v] = "live" => Orderly(v)'
    <3>1. Tidy /\ Unharmed /\ \A v \in Tasks : state[v] = "live" => Orderly(v)
      BY <1>1, <2>10 DEF Tidy, BInv
    <3>2. Unharmed'
      BY <1>1, <3>1 DEF Unharmed
    <3>3. Quiet(t)
      BY <1>1, <3>1, QuietThen
    <3>4. fate[o] = "running" /\ fdtab[o][LOGD_FD] \in up
      BY <2>5, <3>3 DEF Quiet
    <3>5. ASSUME NEW v \in Tasks \ {u}, state'[v] = "live", proc[v] = o
          PROVE  proc'[v] = o /\ ctxfd'[v] = LOGD_FD /\ Plain(prog', todo'[v])
      <4>1. state[v] = "live" /\ proc'[v] = o
        BY <2>6, <3>5
      <4>2. Plain(prog, todo[v]) /\ ctxfd'[v] = LOGD_FD
        BY <1>1, <2>5, <3>3, <3>5, <4>1 DEF Quiet
      <4>3. Plain(prog', todo'[v])
        <5>1. CASE v = t
          BY <1>1, <2>3, <2>6, <2>7, <5>1, PlainTail
        <5>2. CASE v # t
          BY <1>1, <2>6, <4>2, <5>2
        <5> QED BY <5>1, <5>2
      <4> QED BY <4>1, <4>2, <4>3
    <3>6. ASSUME NEW v \in Tasks \ {u}, state'[v] = "live", proc[v] = o PROVE Orderly(v)'
      <4>1. proc'[v] = o /\ ctxfd'[v] = LOGD_FD /\ Plain(prog', todo'[v])
        BY <3>5, <3>6
      <4>2. u \in Mates(v)' /\ Starts(todo'[u])
        BY <2>6, <4>1, StartTail DEF Mates
      <4>3. fate'[o] = "running" /\ fdtab'[o][LOGD_FD] \in up'
        BY <1>1, <3>4
      <4> QED BY <2>4, <4>1, <4>2, <4>3, InPlace
    <3>7. Orderly(u)'
      <4>1. Starts(Socket) /\ ~Plain(prog', Socket) /\ ~Exits(Socket)
        BY <1>1, <2>3, StartTail, OnlyStarts
      <4>2. Phase(u)'
        BY <2>6, StartTail DEF Phase
      <4>3. ASSUME NEW v \in Mates(u)' \ {u} PROVE ~Starts(todo'[v])
        <5>1. v \in Tasks \ {u} /\ state'[v] = "live" /\ proc[v] = o
          BY <2>6 DEF Mates
        <5>2. Plain(prog', todo'[v]) /\ prog' \in Programs /\ todo'[v] \in Seq(Step)
          BY <2>4, <3>5, <5>1 DEF Types
        <5> QED BY <5>2, NotStarts
      <4>4. Running(u)'
        BY <2>6, <4>1, <4>2, <4>3 DEF Running
      <4> QED BY <1>1, <2>6, <3>4, <4>4 DEF Orderly
    <3>8. ASSUME NEW v \in Tasks \ {u}, state'[v] = "live", proc[v] # o PROVE Orderly(v)'
      <4>1. state[v] = "live"
        BY <2>6, <3>8
      <4>2. PICK q \in Procs : q = proc[v] /\ q # o
        BY <3>8, <4>1, LiveTask
      <4>3. Elsewhere(q)
        <5>1. \A w \in Tasks : proc[w] = q \/ proc'[w] = q =>
                /\ proc'[w] = proc[w] /\ state'[w] = state[w] /\ todo'[w] = todo[w]
                /\ ctxfd'[w] = ctxfd[w] /\ newfd'[w] = newfd[w]
          BY <1>1, <2>4, <2>5, <2>6, <4>2
        <5> QED BY <1>1, <5>1 DEF Elsewhere
      <4>4. Orderly(v)
        BY <3>1, <4>1
      <4> QED BY <1>1, <4>2, <4>3, <4>4, OrderlyFrame
    <3> QED BY <3>2, <3>6, <3>7, <3>8
  <2> QED BY <2>8, <2>9, <2>10 DEF BInv
<1> QED BY <1>2, <1>3 DEF spawn

LEMMA BInit ==
  ASSUME Init
  PROVE  BInv
<1>1. AInv /\ 1 \in Tasks /\ 1 \in Procs /\ None \notin Procs
  BY AInit, Constants DEF Tasks, Procs
<1>2. Single /\ Fresh /\ NothingLeft /\ Unharmed
  BY <1>1 DEF Init, Single, Fresh, NothingLeft, Unharmed
<1>3. ASSUME NEW t \in Tasks, state[t] = "live" PROVE Orderly(t)
  <2>1. t = 1 /\ proc[t] = 1
    BY <1>3 DEF Init
  <2>2. /\ prog \in Programs /\ todo[t] = << >> /\ ctxfd[t] = LOGD_FD /\ fate[1] = "running"
        /\ logfd[1] = LOGD_FD /\ fdtab[1][LOGD_FD] \in up
    BY <1>1, Constants DEF Init
  <2>3. Plain(prog, todo[t]) /\ todo[t] \in Seq(Step)
    BY <2>2, PlainLists
  <2>4. ~Exits(todo[t]) /\ ~Starts(todo[t])
    BY <2>2, <2>3, NotPlain, NotStarts
  <2> QED BY <2>1, <2>2, <2>4 DEF Orderly, Running
<1> QED BY <1>2, <1>3 DEF BInv

LEMMA BNext ==
  ASSUME AInv, BInv, AInv', [Next]_vars
  PROVE  BInv'
<1>1. CASE Next
  <2>1. PICK t \in Tasks : Program(t) \/ Library(t)
    BY <1>1 DEF Next
  <2>2. CASE Library(t)
    BY <2>2, AllocOrderly, AppendOrderly, WriteOrderly, FailsOrderly, FlushedOrderly, ForkOrderly, SpawnOrderly,
       ExecOrderly, SocketOrderly, ConnectOrderly, Dup2Orderly, CloseOrderly, NewFdOrderly, AllocCtxOrderly,
       EndOrderly, ExitOrderly DEF Library
  <2> QED BY <2>1, <2>2, CallsOrderly
<1>2. CASE UNCHANGED vars
  <2>1. UNCHANGED <<prog, proc, todo, lb, start, nrec, ctxfd, newfd, state, logfd, fdtab, fate, up, wire, parent>>
    BY <1>2 DEF vars
  <2>2. Single' /\ Fresh' /\ NothingLeft' /\ (Tidy' => Tidy /\ Unharmed')
    BY <2>1 DEF BInv, Single, Fresh, NothingLeft, Unharmed, Tidy
  <2>3. ASSUME NEW v \in Tasks, state'[v] = "live", Tidy PROVE Orderly(v)'
    <3>1. state[v] = "live" /\ Orderly(v) /\ proc[v] \in Procs
      BY <2>1, <2>3, LiveTask DEF BInv
    <3>2. Elsewhere(proc[v])
      BY <2>1 DEF Elsewhere
    <3> QED BY <2>1, <3>1, <3>2, OrderlyFrame
  <2> QED BY <2>2, <2>3 DEF BInv
<1> QED BY <1>1, <1>2

LEMMA BInvariant == Spec => [](AInv /\ BInv)
<1>1. Init => AInv /\ BInv
  BY AInit, BInit
<1>2. AInv /\ BInv /\ [Next]_vars => (AInv /\ BInv)'
  BY ANext, BNext
<1> QED BY <1>1, <1>2, PTL DEF Spec

(* In a program that does not create threads, a process that ends as it    *)
(* asked to leaves nothing in its buffer, however many others fork, exec   *)
(* and share its connection: exit() has flushed it by then.                *)
THEOREM NothingIsLeft == Spec => []NothingLeft
<1>1. BInv => NothingLeft
  BY DEF BInv
<1> QED BY <1>1, BInvariant, PTL

(* The library does not end a program whose records fit the buffer, unless *)
(* the program creates a thread or forks while another thread starts or    *)
(* exits.  This is where that matters: logfd is global to the process.     *)
THEOREM NeverHarmed == Spec => [](~prog.overlap \/ ~prog.threads => Unharmed)
<1>1. BInv => (~prog.overlap \/ ~prog.threads => Unharmed)
  BY DEF BInv, Tidy
<1> QED BY <1>1, BInvariant, PTL

-----------------------------------------------------------------------------
(* Bytes *)

LEMMA WholeNone == Whole(<< >>)
BY DEF Whole

LEMMA WholeRecord ==
  ASSUME NEW t \in Tasks, NEW n \in Nat, NEW s \in Nat \ {0}
  PROVE  Whole(Record(t, n, s))
<1>1. PICK q : q = Record(t, n, s)
  OBVIOUS
<1>2. q \in Seq(Byte) /\ Len(q) = s /\ \A k \in 1..s : q[k] = <<t, n, k, s>>
  BY <1>1, RecordType
<1>3. ASSUME NEW i \in 1..s
      PROVE  /\ q[i][3] > 1 => i > 1 /\ q[i-1] = [q[i] EXCEPT ![3] = @ - 1]
             /\ q[i][3] = 1 /\ i > 1 => q[i-1][3] = q[i-1][4]
  <2>1. q[i] = <<t, n, i, s>> /\ q[i][3] = i
    BY <1>2
  <2>2. CASE i = 1
    BY <2>1, <2>2
  <2>3. CASE i > 1
    <3>1. i - 1 \in 1..s
      BY <2>3
    <3>2. q[i-1] = <<t, n, i-1, s>>
      BY <1>2, <3>1
    <3>3. [<<t, n, i, s>> EXCEPT ![3] = @ - 1] = <<t, n, i-1, s>>
      OBVIOUS
    <3>4. q[i-1] = [q[i] EXCEPT ![3] = @ - 1]
      BY <2>1, <3>2, <3>3, Zenon
    <3> QED BY <2>1, <2>3, <3>4
  <2> QED BY <2>2, <2>3
<1>4. q[s][3] = q[s][4]
  BY <1>2
<1> QED BY <1>1, <1>2, <1>3, <1>4 DEF Whole

LEMMA WholeConcat ==
  ASSUME NEW a \in Seq(Byte), NEW b \in Seq(Byte), Whole(a), Whole(b)
  PROVE  Whole(a \o b)
<1>0. PICK m \in Nat, n \in Nat : m = Len(a) /\ n = Len(b)
  OBVIOUS
<1>1. PICK q : q = a \o b /\ m = Len(a) /\ n = Len(b)
  BY <1>0
<1>2. /\ q \in Seq(Byte) /\ Len(q) = m + n
      /\ \A i \in 1..m + n : q[i] = IF i <= m THEN a[i] ELSE b[i - m]
  BY <1>1, ConcatProperties
<1>3. /\ \A i \in 1..m : /\ a[i][3] > 1 => i > 1 /\ a[i-1] = [a[i] EXCEPT ![3] = @ - 1]
                         /\ a[i][3] = 1 /\ i > 1 => a[i-1][3] = a[i-1][4]
      /\ m > 0 => a[m][3] = a[m][4]
  <2>1. m > 0 => a # << >>
    BY <1>1
  <2> QED BY <1>1, <2>1 DEF Whole
<1>4. /\ \A i \in 1..n : /\ b[i][3] > 1 => i > 1 /\ b[i-1] = [b[i] EXCEPT ![3] = @ - 1]
                         /\ b[i][3] = 1 /\ i > 1 => b[i-1][3] = b[i-1][4]
      /\ n > 0 => b[n][3] = b[n][4]
  <2>1. n > 0 => b # << >>
    BY <1>1
  <2> QED BY <1>1, <2>1 DEF Whole
<1>5. ASSUME NEW i \in 1..m + n
      PROVE  /\ q[i][3] > 1 => i > 1 /\ q[i-1] = [q[i] EXCEPT ![3] = @ - 1]
             /\ q[i][3] = 1 /\ i > 1 => q[i-1][3] = q[i-1][4]
  <2>1. CASE i <= m
    <3>1. q[i] = a[i] /\ i \in 1..m
      BY <1>2, <2>1
    <3>2. i > 1 => q[i-1] = a[i-1]
      BY <1>2, <2>1
    <3> QED BY <1>3, <3>1, <3>2
  <2>2. CASE i = m + 1
    <3>1. q[i] = b[1] /\ 1 \in 1..n
      <4>1. ~(i <= m) /\ i - m = 1 /\ 1 \in 1..n
        BY <2>2
      <4> QED BY <1>2, <4>1
    <3>2. ~(q[i][3] > 1)
      <4>1. b[1][3] > 1 => 1 > 1
        BY <1>4, <3>1
      <4> QED BY <3>1, <4>1
    <3>3. i > 1 => q[i-1] = a[m] /\ m > 0
      <4>1. i > 1 => i - 1 = m /\ m > 0 /\ m \in 1..m+n
        BY <2>2
      <4>2. m \in 1..m+n => q[m] = a[m]
        BY <1>2
      <4> QED BY <4>1, <4>2
    <3> QED BY <1>3, <3>2, <3>3
  <2>3. CASE i > m + 1
    <3>1. PICK j \in 2..n : j = i - m
      BY <2>3
    <3>2. q[i] = b[j] /\ q[i-1] = b[j-1] /\ i > 1 /\ j > 1 /\ j \in 1..n
      <4>1. i - 1 \in 1..m+n /\ ~(i - 1 <= m) /\ (i - 1) - m = j - 1 /\ ~(i <= m)
        BY <2>3, <3>1
      <4> QED BY <1>2, <3>1, <4>1
    <3> QED BY <1>4, <3>2
  <2> QED BY <2>1, <2>2, <2>3
<1>6. q # << >> => q[m+n][3] = q[m+n][4]
  <2>1. CASE n = 0 /\ m > 0
    BY <1>2, <1>3, <2>1
  <2>2. CASE n > 0
    BY <1>2, <1>4, <2>2
  <2>3. CASE n = 0 /\ m = 0
    BY <1>2, <2>3
  <2> QED BY <2>1, <2>2, <2>3
<1> QED BY <1>1, <1>2, <1>5, <1>6 DEF Whole

(* What has been written stays. *)
Grows == \A c \in Conns : /\ Len(wire[c]) <= Len(wire'[c])
                          /\ \A i \in 1..Len(wire[c]) : wire'[c][i] = wire[c][i]

LEMMA Written ==
  ASSUME Types, Types', Grows, NEW t, NEW n, OnWire(t, n)
  PROVE  OnWire(t, n)'
<1>1. PICK c \in Conns : \E i \in 1..Len(wire[c]) : Last(wire[c][i], t, n)
  BY DEF OnWire
<1>2. PICK i \in 1..Len(wire[c]) : Last(wire[c][i], t, n)
  BY <1>1
<1>3. Len(wire[c]) \in Nat /\ Len(wire'[c]) \in Nat
  BY DEF Types
<1>4. i \in 1..Len(wire'[c]) /\ wire'[c][i] = wire[c][i]
  BY <1>3 DEF Grows
<1> QED BY <1>2, <1>4 DEF OnWire

(* A task whose records stay where they are. *)
SameBytes(u) ==
  /\ lb'[u] = lb[u] /\ start'[u] = start[u] /\ nrec'[u] = nrec[u]
  /\ state'[u] = "live" => state[u] = "live"

LEMMA LoggedFrame ==
  ASSUME Types, Types', Grows, NEW u \in Tasks, Logged(u), SameBytes(u)
  PROVE  Logged(u)'
<1> SUFFICES ASSUME state'[u] = "live", NEW n \in 1..nrec[u]
             PROVE  OnWire(u, n)' \/ \E i \in start[u]+1..Len(lb[u]) : Last(lb[u][i], u, n)
  BY DEF Logged, SameBytes
<1>1. OnWire(u, n) \/ \E i \in start[u]+1..Len(lb[u]) : Last(lb[u][i], u, n)
  BY DEF Logged, SameBytes
<1> QED BY <1>1, Written

(* Only task t logs, and none writes. *)
LEMMA BytesKeep ==
  ASSUME AInv, CInv, AInv', UNCHANGED <<prog, wire, parent>>, NEW t \in Tasks,
         \A u \in Tasks \ {t} : SameBytes(u), Whole(lb'[t]), Logged(t)',
         ~prog.partial => start'[t] \in {0, Len(lb'[t])}
  PROVE  CInv'
<1>1. Types /\ Types'
  BY DEF AInv
<1>2. Grows
  BY <1>1 DEF Grows, Types
<1>3. \A u \in Tasks : Whole(lb'[u]) /\ Logged(u)'
  BY <1>1, <1>2, LoggedFrame DEF CInv, SameBytes
<1>4. ~prog.partial => /\ \A c \in Conns : Whole(wire'[c])
                       /\ \A u \in Tasks : start'[u] \in {0, Len(lb'[u])}
  BY DEF CInv, SameBytes
<1>5. ForkOrder'
  BY DEF CInv, ForkOrder
<1> QED BY <1>3, <1>4, <1>5 DEF CInv

LEMMA BytesStay ==
  ASSUME AInv, CInv, AInv', UNCHANGED <<prog, wire, parent>>, \A u \in Tasks : SameBytes(u)
  PROVE  CInv'
<1>1. PICK t \in Tasks : TRUE
  BY Constants DEF Tasks
<1>2. Types /\ Types' /\ Grows
  <2>1. Types /\ Types'
    BY DEF AInv
  <2>2. Grows
    BY <2>1 DEF Grows, Types
  <2> QED BY <2>1, <2>2
<1>3. Whole(lb'[t]) /\ (~prog.partial => start'[t] \in {0, Len(lb'[t])})
  BY DEF CInv, SameBytes
<1>4. Logged(t)'
  BY <1>2, LoggedFrame DEF CInv
<1> QED BY <1>3, <1>4, BytesKeep

LEMMA CallsBytes ==
  ASSUME AInv, CInv, AInv', NEW t \in Tasks, Program(t)
  PROVE  CInv'
<1>1. UNCHANGED <<prog, wire, parent, lb, start, nrec, state>>
  BY DEF Program, Call, fork, pthread_create, execve, exit, Return, Begin, task, kernel
<1> QED BY <1>1, BytesStay DEF SameBytes

LEMMA PutBytes ==
  ASSUME AInv, CInv, AInv', NEW t \in Tasks, NEW op \in {"log", "append"}, At(t, op), Put(t, todo[t][1][2]),
         UNCHANGED <<prog, wire, parent, start, state>>
  PROVE  CInv'
<1>1. PICK s \in Nat \ {0} : s = todo[t][1][2]
  BY LogSize
<1>2. /\ state[t] = "live" /\ lb[t] \in Seq(Byte) /\ start[t] = 0
  BY StepAt
<1>3. PICK n \in Nat : n = nrec[t]
  BY DEF AInv, Types
<1>4. /\ nrec'[t] = n + 1 /\ lb'[t] = lb[t] \o Record(t, n + 1, s)
      /\ \A u \in Tasks \ {t} : nrec'[u] = nrec[u] /\ lb'[u] = lb[u]
  BY <1>1, <1>3 DEF Put, AInv, Types
<1>5. PICK m \in Nat : m = Len(lb[t])
  BY <1>2
<1>6. /\ lb'[t] \in Seq(Byte) /\ Len(lb'[t]) = m + s
      /\ \A i \in 1..m : lb'[t][i] = lb[t][i]
      /\ \A k \in 1..s : lb'[t][m + k] = <<t, n + 1, k, s>>
  <2>1. n + 1 \in Nat
    OBVIOUS
  <2>2. PICK k \in Nat : k = n + 1
    BY <2>1
  <2>3. lb'[t] = lb[t] \o Record(t, k, s)
    BY <1>4, <2>2
  <2>4. PICK q \in Seq(Byte) : q = lb[t] /\ m = Len(q)
    BY <1>2, <1>5
  <2>5. PICK r : r = q \o Record(t, k, s)
    OBVIOUS
  <2>6. /\ r \in Seq(Byte) /\ Len(r) = Len(q) + s
        /\ \A i \in 1..Len(q) : r[i] = q[i]
        /\ \A j \in 1..s : r[Len(q) + j] = <<t, k, j, s>>
    <3>1. LET z == q \o Record(t, k, s)
          IN  /\ z \in Seq(Byte) /\ Len(z) = Len(q) + s /\ Len(q) \in Nat
              /\ \A i \in 1..Len(q) : z[i] = q[i]
              /\ \A j \in 1..s : z[Len(q) + j] = <<t, k, j, s>>
      BY PutType, ZenonT(60)
    <3> QED BY <2>5, <3>1, Zenon
  <2>7. r = lb'[t]
    BY <2>3, <2>4, <2>5
  <2> QED BY <2>2, <2>4, <2>6, <2>7
<1>7. Whole(lb'[t])
  <2>1. n + 1 \in Nat
    OBVIOUS
  <2>2. Whole(Record(t, n + 1, s)) /\ Record(t, n + 1, s) \in Seq(Byte)
    BY <2>1, WholeRecord, RecordType
  <2>3. Whole(lb[t])
    BY DEF CInv
  <2> QED BY <1>2, <1>4, <2>2, <2>3, WholeConcat
<1>8. Logged(t)'
  <2> SUFFICES ASSUME NEW k \in 1..n+1
               PROVE  OnWire(t, k)' \/ \E i \in 1..m+s : Last(lb'[t][i], t, k)
    <3>1. start'[t] + 1 = 1
      BY <1>2
    <3> QED BY <1>4, <1>6, <3>1 DEF Logged
  <2>1. CASE k = n + 1
    <3>1. m + s \in 1..m+s /\ s \in 1..s
      OBVIOUS
    <3>2. lb'[t][m + s] = <<t, k, s, s>>
      BY <1>6, <2>1, <3>1
    <3>3. Last(lb'[t][m + s], t, k)
      BY <3>2 DEF Last
    <3> QED BY <3>1, <3>3
  <2>2. CASE k # n + 1
    <3>1. k \in 1..n
      BY <2>2
    <3>2. OnWire(t, k) \/ \E i \in 1..m : Last(lb[t][i], t, k)
      <4>1. start[t] + 1 = 1
        BY <1>2
      <4> QED BY <1>2, <1>3, <1>5, <3>1, <4>1 DEF CInv, Logged
    <3>3. CASE OnWire(t, k)
      BY <3>3 DEF OnWire
    <3>4. CASE \E i \in 1..m : Last(lb[t][i], t, k)
      <4>1. PICK i \in 1..m : Last(lb[t][i], t, k)
        BY <3>4
      <4>2. i \in 1..m+s /\ lb'[t][i] = lb[t][i]
        BY <1>6
      <4> QED BY <4>1, <4>2
    <3> QED BY <3>2, <3>3, <3>4
  <2> QED BY <2>1, <2>2
<1>9. \A u \in Tasks \ {t} : SameBytes(u)
  BY <1>4 DEF SameBytes
<1>10. start'[t] = 0
  BY <1>2
<1> QED BY <1>7, <1>8, <1>9, <1>10, BytesKeep

LEMMA AllocBytes ==
  ASSUME AInv, CInv, AInv', NEW t \in Tasks, lb_alloc_bytes(t)
  PROVE  CInv'
<1>1. At(t, "log") /\ UNCHANGED <<proc, start, state, wire, parent, prog>>
  BY DEF lb_alloc_bytes, kernel
<1>2. Head(todo[t]) = todo[t][1]
  BY <1>1, StepAt
<1>3. UNCHANGED <<nrec, lb>> \/ Put(t, todo[t][1][2])
  BY <1>2 DEF lb_alloc_bytes
<1>4. CASE UNCHANGED <<nrec, lb>>
  BY <1>1, <1>4, BytesStay DEF SameBytes
<1>5. CASE Put(t, todo[t][1][2])
  BY <1>1, <1>5, PutBytes
<1> QED BY <1>3, <1>4, <1>5

LEMMA AppendBytes ==
  ASSUME AInv, CInv, AInv', NEW t \in Tasks, LogAfterFlush(t)
  PROVE  CInv'
<1>1. At(t, "append") /\ UNCHANGED <<proc, start, state, wire, parent, prog>> /\ Put(t, Head(todo[t])[2])
  BY DEF LogAfterFlush, kernel
<1>2. Head(todo[t]) = todo[t][1]
  BY <1>1, StepAt
<1> QED BY <1>1, <1>2, PutBytes

LEMMA FlushedBytes ==
  ASSUME AInv, CInv, AInv', NEW t \in Tasks, lb_flush_done(t)
  PROVE  CInv'
<1>1. /\ At(t, "flush") /\ start[t] = Len(lb[t]) /\ lb' = [lb EXCEPT ![t] = << >>] /\ start' = [start EXCEPT ![t] = 0]
      /\ UNCHANGED <<prog, wire, parent, state, nrec>>
  BY DEF lb_flush_done, kernel
<1>2. state[t] = "live" /\ Len(lb[t]) \in Nat
  BY <1>1, StepAt
<1>3. lb'[t] = << >> /\ start'[t] = 0 /\ \A u \in Tasks \ {t} : lb'[u] = lb[u] /\ start'[u] = start[u]
  BY <1>1 DEF AInv, Types
<1>4. Logged(t)'
  <2> SUFFICES ASSUME NEW n \in 1..nrec[t] PROVE OnWire(t, n)'
    BY <1>1 DEF Logged
  <2>1. start[t]+1..Len(lb[t]) = {}
    BY <1>1, <1>2
  <2>2. OnWire(t, n)
    BY <1>2, <2>1 DEF CInv, Logged
  <2> QED BY <1>1, <2>2 DEF OnWire
<1>5. \A u \in Tasks \ {t} : SameBytes(u)
  BY <1>1, <1>3 DEF SameBytes
<1> QED BY <1>1, <1>3, <1>4, <1>5, WholeNone, BytesKeep

LEMMA FailsBytes ==
  ASSUME AInv, CInv, AInv', NEW t \in Tasks, lb_flush_fails(t)
  PROVE  CInv'
<1>1. /\ At(t, "flush") /\ UNCHANGED <<prog, wire, parent, nrec, lb>>
      /\ (start' = [start EXCEPT ![t] = 0] /\ UNCHANGED state) \/ (Gone(t) /\ UNCHANGED start)
  BY DEF lb_flush_fails
<1>2. state[t] = "live" /\ Len(lb[t]) \in Nat /\ start[t] \in Nat
  BY <1>1, StepAt
<1>3. CASE start' = [start EXCEPT ![t] = 0] /\ UNCHANGED state
  <2>1. start'[t] = 0 /\ \A u \in Tasks \ {t} : start'[u] = start[u]
    BY <1>3 DEF AInv, Types
  <2>2. Logged(t)'
    <3> SUFFICES ASSUME NEW n \in 1..nrec[t]
                 PROVE  OnWire(t, n)' \/ \E i \in 1..Len(lb[t]) : Last(lb[t][i], t, n)
      <4>1. start'[t] + 1 = 1
        BY <2>1
      <4> QED BY <1>1, <4>1 DEF Logged
    <3>1. OnWire(t, n) \/ \E i \in start[t]+1..Len(lb[t]) : Last(lb[t][i], t, n)
      BY <1>2 DEF CInv, Logged
    <3>2. start[t]+1..Len(lb[t]) \subseteq 1..Len(lb[t])
      BY <1>2
    <3>3. OnWire(t, n) => OnWire(t, n)'
      BY <1>1 DEF OnWire
    <3> QED BY <3>1, <3>2, <3>3
  <2>3. \A u \in Tasks \ {t} : SameBytes(u)
    BY <1>1, <1>3, <2>1 DEF SameBytes
  <2>4. Whole(lb'[t])
    BY <1>1 DEF CInv
  <2> QED BY <1>1, <2>1, <2>2, <2>3, <2>4, BytesKeep
<1>4. CASE Gone(t) /\ UNCHANGED start
  BY <1>1, <1>4, BytesStay DEF SameBytes, Gone
<1> QED BY <1>1, <1>3, <1>4

LEMMA StartBytes ==
  ASSUME AInv, CInv, AInv', NEW t \in Tasks,
         \/ exec(t) \/ logd_init_socket(t) \/ logd_init_connect(t) \/ logd_init_dup2(t)
         \/ close_logfd(t) \/ logd_init_newfd(t) \/ End(t) \/ real_exit(t)
  PROVE  CInv'
<1>1. UNCHANGED <<prog, wire, parent, lb, start, nrec>>
  BY DEF exec, logd_init_socket, logd_init_connect, logd_init_dup2, close_logfd, logd_init_newfd, End, real_exit,
         task, kernel
<1>2. \/ UNCHANGED state \/ state' = [state EXCEPT ![t] = "ended"] \/ Gone(t)
      \/ state' = [u \in Tasks |-> IF u # t /\ proc[u] = proc[t] THEN "ended" ELSE state[u]]
  BY DEF exec, logd_init_socket, logd_init_connect, logd_init_dup2, close_logfd, logd_init_newfd, End, real_exit, task
<1>3. \A u \in Tasks : state'[u] = "live" => state[u] = "live"
  BY <1>2, SMTT(40) DEF Gone, AInv, Types
<1> QED BY <1>1, <1>3, BytesStay DEF SameBytes

LEMMA AllocCtxBytes ==
  ASSUME AInv, CInv, AInv', NEW t \in Tasks, alloc_ctx(t)
  PROVE  CInv'
<1>1. /\ At(t, "ctx") /\ lb' = [lb EXCEPT ![t] = << >>]
      /\ UNCHANGED <<prog, wire, parent, start, nrec, state>>
  BY DEF alloc_ctx, kernel
<1>2. /\ todo[t] # << >> /\ todo[t] \in Seq(Step) /\ IsList(prog, todo[t]) /\ prog \in Programs
      /\ todo[t][1][1] = "ctx" /\ Listed(t)
  BY <1>1, StepAt
<1>3. todo[t] = Ctx
  BY <1>2, ListAt
<1>4. lb[t] = << >>
  BY <1>2, <1>3, StartTail DEF Listed
<1>5. lb' = lb
  BY <1>1, <1>4 DEF AInv, Types
<1> QED BY <1>1, <1>5, BytesStay DEF SameBytes

LEMMA WriteBytes ==
  ASSUME AInv, CInv, AInv', NEW t \in Tasks, lb_flush_write(t)
  PROVE  CInv'
<1>1. At(t, "flush") /\ start[t] < Len(lb[t]) /\ ConnOf(t) \in up /\ UNCHANGED <<lb, nrec, state, parent, prog>>
  BY DEF lb_flush_write
<1>2. PICK c \in Conns : c = ConnOf(t)
  BY <1>1 DEF AInv, Types
<1>3. PICK r \in 1..Len(lb[t]) - start[t] :
        /\ prog.partial \/ r = Len(lb[t]) - start[t]
        /\ wire' = [wire EXCEPT ![c] = @ \o SubSeq(lb[t], start[t] + 1, start[t] + r)]
        /\ start' = [start EXCEPT ![t] = @ + r]
  BY <1>2 DEF lb_flush_write
<1>4. state[t] = "live" /\ lb[t] \in Seq(Byte) /\ Len(lb[t]) \in Nat /\ start[t] \in Nat
  BY <1>1, StepAt
<1>5. PICK q \in Seq(Byte), m \in Nat, a \in Nat : q = lb[t] /\ m = Len(q) /\ a = start[t]
  BY <1>4
<1>6. r \in 1..m-a /\ (prog.partial \/ r = m - a) /\ a < m
  BY <1>1, <1>3, <1>5
<1>7. PICK w : w = SubSeq(q, a + 1, a + r)
  OBVIOUS
<1>8. w \in Seq(Byte) /\ Len(w) = r /\ \A i \in 1..r : w[i] = q[a + i]
  <2>1. \A i \in a+1..a+r : q[i] \in Byte
    BY <1>5, <1>6
  <2>2. a + 1 \in Int /\ a + r \in Int
    OBVIOUS
  <2>3. /\ w \in Seq(Byte) /\ Len(w) = IF a + 1 <= a + r THEN (a + r) - (a + 1) + 1 ELSE 0
        /\ \A i \in 1..(a + r) - (a + 1) + 1 : w[i] = q[(a + 1) + i - 1]
    BY <1>7, <2>1, <2>2, SubSeqProperties
  <2>4. a + 1 <= a + r /\ (a + r) - (a + 1) + 1 = r
    BY <1>6
  <2>5. ASSUME NEW i \in 1..r PROVE w[i] = q[a + i]
    <3>1. (a + 1) + i - 1 = a + i
      OBVIOUS
    <3> QED BY <2>3, <2>4, <3>1
  <2> QED BY <2>3, <2>4, <2>5
<1>9. Types /\ Types'
  BY DEF AInv
<1>10. /\ wire'[c] = wire[c] \o w /\ \A d \in Conns \ {c} : wire'[d] = wire[d]
       /\ start'[t] = a + r /\ \A u \in Tasks \ {t} : start'[u] = start[u]
  <2>1. wire' = [wire EXCEPT ![c] = @ \o w] /\ start' = [start EXCEPT ![t] = @ + r]
    BY <1>3, <1>5, <1>7, Zenon
  <2>2. wire \in [Conns -> Seq(Byte)] /\ start \in [Tasks -> Nat] /\ start[t] = a
    BY <1>5, <1>9 DEF Types
  <2> QED BY <2>1, <2>2
<1>11. PICK z \in Seq(Byte), l \in Nat : z = wire[c] /\ l = Len(z)
  BY <1>9 DEF Types
<1>12. PICK y : y = wire'[c]
  OBVIOUS
<1>13. Len(y) = l + r /\ \A i \in 1..l + r : y[i] = IF i <= l THEN z[i] ELSE w[i - l]
  <2>1. y = z \o w
    BY <1>10, <1>11, <1>12
  <2>2. Len(z \o w) = Len(z) + Len(w) /\ \A i \in 1..Len(z) + Len(w) : (z \o w)[i] = IF i <= Len(z) THEN z[i] ELSE w[i - Len(z)]
    BY <1>8, ConcatProperties
  <2> QED BY <1>8, <1>11, <2>1, <2>2
<1>14. Grows
  <2>1. Len(z) <= Len(y) /\ \A i \in 1..Len(z) : y[i] = z[i]
    <3>1. l <= l + r /\ \A i \in 1..l : i \in 1..l + r /\ i <= l
      BY <1>6
    <3>2. \A i \in 1..l : y[i] = z[i]
      BY <1>13, <3>1
    <3> QED BY <1>11, <1>13, <3>1, <3>2, Zenon
  <2>2. \A d \in Conns : Len(wire[d]) \in Nat
    BY <1>9 DEF Types
  <2>3. \A d \in Conns \ {c} : Len(wire[d]) <= Len(wire'[d]) /\ \A i \in 1..Len(wire[d]) : wire'[d][i] = wire[d][i]
    BY <1>10, <2>2
  <2>4. Len(wire[c]) <= Len(wire'[c]) /\ \A i \in 1..Len(wire[c]) : wire'[c][i] = wire[c][i]
    BY <1>11, <1>12, <2>1, Zenon
  <2> QED BY <2>3, <2>4 DEF Grows
<1>15. Logged(t)'
  <2> SUFFICES ASSUME NEW n \in 1..nrec[t]
               PROVE  OnWire(t, n)' \/ \E i \in a+r+1..m : Last(q[i], t, n)
    BY <1>1, <1>5, <1>10 DEF Logged
  <2>1. OnWire(t, n) \/ \E i \in a+1..m : Last(q[i], t, n)
    BY <1>4, <1>5 DEF CInv, Logged
  <2>2. CASE OnWire(t, n)
    BY <1>9, <1>14, <2>2, Written
  <2>3. CASE \E i \in a+1..m : Last(q[i], t, n)
    <3>1. PICK i \in a+1..m : Last(q[i], t, n)
      BY <2>3
    <3>2. CASE i > a + r
      <4>1. i \in a+r+1..m
        BY <1>6, <3>2
      <4> QED BY <3>1, <4>1
    <3>3. CASE i <= a + r
      <4>1. PICK j \in 1..r : j = i - a
        BY <3>3
      <4>2. w[j] = q[i]
        <5>1. a + j = i
          BY <4>1
        <5> QED BY <1>8, <5>1
      <4>3. l + j \in 1..l+r /\ ~(l + j <= l) /\ (l + j) - l = j
        OBVIOUS
      <4>4. y[l + j] = q[i]
        BY <1>13, <4>2, <4>3
      <4>5. l + j \in 1..Len(wire'[c]) /\ Last(wire'[c][l + j], t, n)
        BY <1>12, <1>13, <3>1, <4>3, <4>4
      <4> QED BY <4>5 DEF OnWire
    <3> QED BY <3>2, <3>3
  <2> QED BY <2>1, <2>2, <2>3
<1>16. \A u \in Tasks : Whole(lb'[u]) /\ Logged(u)'
  <2>1. \A u \in Tasks \ {t} : SameBytes(u)
    BY <1>1, <1>10 DEF SameBytes
  <2>2. \A u \in Tasks \ {t} : Logged(u)'
    BY <1>9, <1>14, <2>1, LoggedFrame DEF CInv
  <2> QED BY <1>1, <1>15, <2>2 DEF CInv
<1>17. ASSUME ~prog.partial
       PROVE  (\A d \in Conns : Whole(wire'[d])) /\ \A u \in Tasks : start'[u] \in {0, Len(lb'[u])}
  <2>1. start[t] \in {0, Len(lb[t])} /\ Whole(lb[t]) /\ Whole(wire[c])
    BY <1>17 DEF CInv
  <2>2. a = 0 /\ r = m
    BY <1>5, <1>6, <1>17, <2>1
  <2>3. w = q
    <3>1. w = SubSeq(q, 1, Len(q))
      BY <1>5, <1>7, <2>2
    <3> QED BY <3>1, SubSeqFull
  <2>4. Whole(z \o q)
    BY <1>5, <1>11, <2>1, WholeConcat
  <2>5. Whole(wire'[c])
    BY <1>10, <1>11, <2>3, <2>4
  <2>6. start'[t] = Len(lb'[t])
    BY <1>1, <1>5, <1>10, <2>2
  <2> QED BY <1>1, <1>10, <1>17, <2>5, <2>6 DEF CInv
<1>18. ForkOrder'
  <2> SUFFICES ASSUME NEW u \in Tasks, parent[u][1] # None, NEW n \in 1..parent[u][2]
               PROVE  OnWire(parent[u][1], n)'
    BY <1>1 DEF ForkOrder, OnWire, Last
  <2>1. OnWire(parent[u][1], n)
    BY DEF CInv, ForkOrder, OnWire, Last
  <2>2. PICK v : v = parent[u][1] /\ v = parent'[u][1]
    BY <1>1
  <2>3. OnWire(v, n)'
    BY <1>9, <1>14, <2>1, <2>2, Written
  <2> QED BY <2>2, <2>3
<1> QED BY <1>1, <1>16, <1>17, <1>18 DEF CInv

LEMMA ForkBytes ==
  ASSUME AInv, CInv, AInv', NEW t \in Tasks, fork_child(t)
  PROVE  CInv'
<1>1. At(t, "fork") /\ UNCHANGED <<fate, up, wire, prog>>
  BY DEF fork_child
<1>2. CASE UNCHANGED <<task, logfd, fdtab, parent>>
  BY <1>1, <1>2, BytesStay DEF task, SameBytes
<1>3. CASE ~(IdleTasks = {} \/ IdleProcs = {})
  <2>1. PICK u \in Tasks : u = MinOf(IdleTasks) /\ state[u] = "idle"
    BY <1>3, Unused
  <2>2. /\ state' = [state EXCEPT ![u] = "live"] /\ parent' = [parent EXCEPT ![u] = <<t, nrec[t]>>]
        /\ nrec'  = [nrec EXCEPT ![u] = 1] /\ lb' = [lb EXCEPT ![u] = Record(u, 1, CtlSize)]
        /\ UNCHANGED start
    BY <1>3, <2>1 DEF fork_child
  <2>3. state[t] = "live" /\ todo[t] # << >> /\ todo[t][1][1] = "fork" /\ Listed(t) /\ start[t] = 0
    BY <1>1, StepAt
  <2>4. lb[t] = << >>
    BY <2>3 DEF Listed, AfterFlush
  <2>5. Types /\ Types' /\ Task(u)
    BY DEF AInv
  <2>6. start[u] = 0
    BY <2>1, <2>5 DEF Task, Types
  <2>7. /\ state'[u] = "live" /\ parent'[u] = <<t, nrec[t]>> /\ nrec'[u] = 1 /\ lb'[u] = Record(u, 1, 2)
        /\ \A v \in Tasks \ {u} : /\ state'[v] = state[v] /\ parent'[v] = parent[v] /\ nrec'[v] = nrec[v]
                                  /\ lb'[v] = lb[v]
    BY <2>2, <2>5 DEF Types, CtlSize
  <2>8. Grows
    BY <1>1, <2>5 DEF Grows, Types
  <2>9. Len(lb'[u]) = 2 /\ lb'[u][2] = <<u, 1, 2, 2>> /\ Whole(lb'[u])
    <3>1. PICK n \in Nat, s \in Nat \ {0} : n = 1 /\ s = 2
      OBVIOUS
    <3>2. PICK b : b = Record(u, n, s)
      OBVIOUS
    <3>3. Len(b) = s /\ Whole(b) /\ \A k \in 1..s : b[k] = <<u, n, k, s>>
      BY <3>2, RecordType, WholeRecord
    <3>4. b = lb'[u]
      BY <2>7, <3>1, <3>2
    <3>5. Len(b) = 2 /\ b[2] = <<u, 1, 2, 2>>
      BY <3>1, <3>3
    <3> QED BY <3>3, <3>4, <3>5
  <2>10. Logged(u)'
    <3>1. Last(lb'[u][2], u, 1)
      BY <2>9 DEF Last
    <3>2. 2 \in start'[u]+1..Len(lb'[u]) /\ 1..nrec'[u] = {1}
      BY <2>2, <2>6, <2>7, <2>9
    <3> QED BY <3>1, <3>2 DEF Logged
  <2>11. \A v \in Tasks \ {u} : SameBytes(v)
    BY <2>2, <2>7 DEF SameBytes
  <2>12. \A v \in Tasks : Whole(lb'[v]) /\ Logged(v)'
    BY <2>5, <2>7, <2>8, <2>9, <2>10, <2>11, LoggedFrame DEF CInv
  <2>13. ~prog.partial => /\ \A c \in Conns : Whole(wire'[c])
                          /\ \A v \in Tasks : start'[v] \in {0, Len(lb'[v])}
    BY <1>1, <2>2, <2>6, <2>7 DEF CInv
  <2>14. ForkOrder'
    <3>1. ASSUME NEW n \in 1..nrec[t] PROVE OnWire(t, n)'
      <4>1. start[t]+1..Len(lb[t]) = {}
        BY <2>3, <2>4
      <4>2. OnWire(t, n)
        BY <2>3, <4>1 DEF CInv, Logged
      <4> QED BY <1>1, <4>2 DEF OnWire
    <3>2. ASSUME NEW v \in Tasks, parent'[v][1] # None, NEW n \in 1..parent'[v][2]
          PROVE  \E c \in Conns : \E i \in 1..Len(wire'[c]) :
                   /\ wire'[c][i][1] = parent'[v][1] /\ wire'[c][i][2] = n
                   /\ wire'[c][i][3] = wire'[c][i][4]
      <4>1. CASE v = u
        <5>1. parent'[v][1] = t /\ n \in 1..nrec[t]
          BY <2>7, <3>2, <4>1
        <5>2. OnWire(t, n)'
          BY <3>1, <5>1
        <5>3. \E c \in Conns : \E i \in 1..Len(wire'[c]) :
                wire'[c][i][1] = t /\ wire'[c][i][2] = n /\ wire'[c][i][3] = wire'[c][i][4]
          BY <5>2, Zenon DEF OnWire, Last
        <5> QED BY <5>1, <5>3, Zenon
      <4>2. CASE v # u
        BY <1>1, <2>7, <3>2, <4>2 DEF CInv, ForkOrder
      <4> QED BY <4>1, <4>2
    <3> QED BY <3>2 DEF ForkOrder
  <2> QED BY <1>1, <2>12, <2>13, <2>14 DEF CInv
<1> QED BY <1>2, <1>3 DEF fork_child

LEMMA SpawnBytes ==
  ASSUME AInv, CInv, AInv', NEW t \in Tasks, spawn(t)
  PROVE  CInv'
<1>1. UNCHANGED <<lb, start, nrec, wire, parent, prog>>
  BY DEF spawn, kernel
<1>2. CASE UNCHANGED state
  BY <1>1, <1>2, BytesStay DEF SameBytes
<1>3. CASE ~(IdleTasks = {} \/ Claimed >= prog.conns)
  <2>1. PICK u \in Tasks : u = MinOf(IdleTasks) /\ state[u] = "idle"
    BY <1>3, Unused
  <2>2. state' = [state EXCEPT ![u] = "live"]
    BY <1>3, <2>1 DEF spawn
  <2>3. \A v \in Tasks \ {u} : SameBytes(v)
    BY <1>1, <2>2 DEF SameBytes, AInv, Types
  <2>4. nrec'[u] = 0
    BY <1>1, <2>1 DEF AInv, Task
  <2>5. Logged(u)'
    BY <2>4 DEF Logged
  <2>6. Whole(lb'[u]) /\ (~prog.partial => start'[u] \in {0, Len(lb'[u])})
    BY <1>1 DEF CInv
  <2> QED BY <1>1, <2>3, <2>5, <2>6, BytesKeep
<1> QED BY <1>2, <1>3 DEF spawn

LEMMA CInit ==
  ASSUME Init
  PROVE  CInv
<1>1. \A t \in Tasks : lb[t] = << >> /\ start[t] = 0 /\ nrec[t] = 0 /\ parent[t] = <<None, 0>>
  BY DEF Init
<1>2. \A c \in Conns : wire[c] = << >>
  BY DEF Init
<1>3. \A t \in Tasks : Whole(lb[t]) /\ Logged(t)
  BY <1>1, WholeNone DEF Logged
<1>4. ForkOrder
  BY <1>1 DEF ForkOrder
<1> QED BY <1>1, <1>2, <1>3, <1>4, WholeNone DEF CInv

LEMMA CNext ==
  ASSUME AInv, CInv, AInv', [Next]_vars
  PROVE  CInv'
<1>1. CASE Next
  <2>1. PICK t \in Tasks : Program(t) \/ Library(t)
    BY <1>1 DEF Next
  <2>2. CASE Library(t)
    BY <2>2, AllocBytes, AppendBytes, WriteBytes, FailsBytes, FlushedBytes, ForkBytes, SpawnBytes, StartBytes,
       AllocCtxBytes DEF Library
  <2> QED BY <2>1, <2>2, CallsBytes
<1>2. CASE UNCHANGED vars
  BY <1>2, BytesStay DEF vars, SameBytes
<1> QED BY <1>1, <1>2

LEMMA CInvariant == Spec => [](AInv /\ CInv)
<1>1. Init => AInv /\ CInv
  BY AInit, CInit
<1>2. AInv /\ CInv /\ [Next]_vars => (AInv /\ CInv)'
  BY ANext, CNext
<1> QED BY <1>1, <1>2, PTL DEF Spec

(* Each of the writes of lb_flush() carries whole records, so that a        *)
(* connection does, however many threads and forked children share it: the *)
(* kernel need not know where records end, unless it writes less than it   *)
(* is asked to.                                                            *)
THEOREM RecordsWhole == Spec => []WholeRecords
<1>1. CInv => WholeRecords
  BY DEF CInv, Whole, WholeRecords
<1> QED BY <1>1, CInvariant, PTL

(* fork() flushes before it forks: the records of the parent precede those *)
(* of the child, even with short writes, and whatever the parent and the   *)
(* other processes do later.                                               *)
THEOREM ForksInOrder == Spec => []ForkOrder
<1>1. CInv => ForkOrder
  BY DEF CInv
<1> QED BY <1>1, CInvariant, PTL

-----------------------------------------------------------------------------
(* Where a task writes *)

(* The premise of the last theorem: a program without threads, or writes   *)
(* that are never short.                                                   *)
Steady == ~prog.threads \/ ~prog.partial

(* The records of t are where Conserved wants them, whether it lives or not. *)
InOrder(t) == Ascending(t) /\ Complete(t)

(* Task t has written nothing to c, or to any connection. *)
Unsent(t, c) == c \in Conns => Sent(t, c) = {}
Silent(t) == \A c \in Conns : Unsent(t, c)

(* The connection a task writes to is the last one it came to use. *)
Newest(t) == ConnOf(t) \in Conns => \A d \in Conns \ {ConnOf(t)} : Earlier(t, d, ConnOf(t))

(* The one that the global logfd leads to, which a logd_init() may put in  *)
(* its place, is the same or new to the task.                              *)
Following(t) == ctxfd[t] = LOGD_FD => Global(t) = ConnOf(t) \/ Unsent(t, Global(t))

(* After exec() a task has written already, but it is the only one of its  *)
(* process until logd_init() is over.                                      *)
Alone(t) == \A u \in Tasks \ {t} : proc[u] = proc[t] => state[u] # "live"

Reconnecting(t) ==
  /\ Alone(t)
  /\ todo[t] # Socket => Unsent(t, Global(t))
  /\ todo[t] \in {Connect, Dup2} => Global(t) # None
  /\ todo[t] \in {Close, NewFd, Ctx} => Unsent(t, fdtab[proc[t]][LOGD_FD])
  /\ todo[t] = Ctx => logfd[proc[t]] \in {LOGD_FD, -1}

(* A task in logd_init() has written nothing, but for the one that exec()  *)
(* left.                                                                   *)
Joining(t) == Starts(todo[t]) => Silent(t) \/ Reconnecting(t)

(* Nobody has written to a connection that is not established. *)
Clean == \A c \in Conns \ up : wire[c] = << >>

DInv ==
  /\ Clean
  /\ \A t \in Tasks : InOrder(t)
  /\ \A t \in Tasks : state[t] = "live" => Newest(t) /\ Following(t) /\ Joining(t)

-----------------------------------------------------------------------------
(* The bytes of a task *)

LEMMA BytesAre ==
  ASSUME NEW t \in Tasks, NEW b
  PROVE  /\ (b \in Bytes(t)) <=> \/ \E c \in Conns : \E i \in Sent(t, c) : b = wire[c][i]
                                 \/ \E i \in Kept(t) : b = lb[t][i]
         /\ (b \in Bytes(t)') <=> \/ \E c \in Conns : \E i \in Sent(t, c)' : b = wire'[c][i]
                                  \/ \E i \in Kept(t)' : b = lb'[t][i]
<1>1. (b \in UNION {Arrived(t, c) : c \in Conns}) <=> \E c \in Conns : b \in Arrived(t, c)
  OBVIOUS
<1>2. (b \in UNION {Arrived(t, c)' : c \in Conns}) <=> \E c \in Conns : b \in Arrived(t, c)'
  OBVIOUS
<1>3. \A c \in Conns : b \in Arrived(t, c) <=> \E i \in Sent(t, c) : b = wire[c][i]
  BY DEF Arrived
<1>4. \A c \in Conns : b \in Arrived(t, c)' <=> \E i \in Sent(t, c)' : b = wire'[c][i]
  BY DEF Arrived
<1>5. b \in {lb[t][i] : i \in Kept(t)} <=> \E i \in Kept(t) : b = lb[t][i]
  OBVIOUS
<1>6. b \in {lb'[t][i] : i \in Kept(t)'} <=> \E i \in Kept(t)' : b = lb'[t][i]
  OBVIOUS
<1>7. b \in Bytes(t) <=> (b \in UNION {Arrived(t, c) : c \in Conns}) \/ b \in {lb[t][i] : i \in Kept(t)}
  BY Zenon DEF Bytes
<1>8. b \in Bytes(t)' <=> (b \in UNION {Arrived(t, c)' : c \in Conns}) \/ b \in {lb'[t][i] : i \in Kept(t)'}
  BY Zenon DEF Bytes
<1> QED BY <1>1, <1>2, <1>3, <1>4, <1>5, <1>6, <1>7, <1>8, Zenon

LEMMA PlacesAre ==
  ASSUME Types, NEW t \in Tasks
  PROVE  /\ \A c \in Conns : \A i \in Sent(t, c) : i \in 1..Len(wire[c]) /\ wire[c][i] \in Byte /\ wire[c][i][1] = t
         /\ \A i \in Kept(t) : i \in 1..Len(lb[t]) /\ lb[t][i] \in Byte
<1>1. ASSUME NEW c \in Conns, NEW i \in Sent(t, c)
      PROVE  i \in 1..Len(wire[c]) /\ wire[c][i] \in Byte /\ wire[c][i][1] = t
  BY DEF Sent, Types
<1>2. ASSUME NEW i \in Kept(t) PROVE i \in 1..Len(lb[t]) /\ lb[t][i] \in Byte
  <2>1. lb[t] \in Seq(Byte) /\ start[t] \in Nat
    BY DEF Types
  <2>2. i \in 1..Len(lb[t])
    BY <2>1 DEF Kept
  <2> QED BY <2>1, <2>2
<1> QED BY <1>1, <1>2

(* All of them are of records the task has logged. *)
LEMMA Owned ==
  ASSUME NEW t \in Tasks, InOrder(t), NEW b \in Bytes(t)
  PROVE  b[1] = t /\ b[2] \in 1..nrec[t]
<1>1. b[2] \in 1..nrec[t]
  BY DEF InOrder, Complete
<1>2. PICK s \in 1..PIPE_BUF : {x \in Bytes(t) : x[2] = b[2]} = {<<t, b[2], k, s>> : k \in 1..s}
  BY <1>1 DEF InOrder, Complete
<1>3. PICK k \in 1..s : b = <<t, b[2], k, s>>
  BY <1>2
<1> QED BY <1>1, <1>3

LEMMA OwnedBytes ==
  ASSUME NEW t \in Tasks, InOrder(t)
  PROVE  /\ \A c \in Conns : \A i \in Sent(t, c) : wire[c][i][2] \in 1..nrec[t]
         /\ \A i \in Kept(t) : lb[t][i][1] = t /\ lb[t][i][2] \in 1..nrec[t]
<1>1. ASSUME NEW c \in Conns, NEW i \in Sent(t, c) PROVE wire[c][i][2] \in 1..nrec[t]
  BY BytesAre, Owned
<1>2. ASSUME NEW i \in Kept(t) PROVE lb[t][i][1] = t /\ lb[t][i][2] \in 1..nrec[t]
  BY BytesAre, Owned
<1> QED BY <1>1, <1>2

(* What a step leaves alone. *)
SameTrace(t) ==
  /\ nrec'[t] = nrec[t]
  /\ \A c \in Conns : Sent(t, c)' = Sent(t, c) /\ \A i \in Sent(t, c) : wire'[c][i] = wire[c][i]
  /\ Kept(t)' = Kept(t) /\ \A i \in Kept(t) : lb'[t][i] = lb[t][i]

LEMMA TraceFrame ==
  ASSUME NEW t \in Tasks, SameTrace(t)
  PROVE  /\ InOrder(t) => InOrder(t)'
         /\ \A c, d \in Conns : Earlier(t, c, d) => Earlier(t, c, d)'
<1>1. ASSUME NEW c \in Conns, NEW d \in Conns, Earlier(t, c, d) PROVE Earlier(t, c, d)'
  BY <1>1 DEF Earlier, SameTrace, Before
<1>2. ASSUME Ascending(t) PROVE Ascending(t)'
  <2>1. \A c \in Conns : \A i, j \in Sent(t, c)' : i < j => Before(wire'[c][i], wire'[c][j])
    BY <1>2 DEF Ascending, SameTrace
  <2>2. \A c, d \in Conns : c # d => Earlier(t, c, d)' \/ Earlier(t, d, c)'
    BY <1>1, <1>2 DEF Ascending
  <2>3. \A c \in Conns : \A i \in Sent(t, c)', j \in Kept(t)' : Before(wire'[c][i], lb'[t][j])
    BY <1>2 DEF Ascending, SameTrace
  <2>4. \A i, j \in Kept(t)' : i < j => Before(lb'[t][i], lb'[t][j])
    BY <1>2 DEF Ascending, SameTrace
  <2> QED BY <2>1, <2>2, <2>3, <2>4 DEF Ascending
<1>3. \A b : b \in Bytes(t)' <=> b \in Bytes(t)
  BY BytesAre DEF SameTrace
<1>4. Bytes(t)' = Bytes(t)
  BY <1>3
<1>5. Complete(t) => Complete(t)'
  BY <1>4 DEF Complete, SameTrace
<1> QED BY <1>1, <1>2, <1>5 DEF InOrder

(* Order among the bytes of a task. *)
LEMMA LaterRecord ==
  ASSUME NEW a, NEW b, NEW n \in Nat, a[2] \in 1..n, b[2] = n + 1
  PROVE  Before(a, b)
BY DEF Before

LEMMA LaterByte ==
  ASSUME NEW t, NEW n, NEW s, NEW j \in Nat, NEW k \in Nat, j < k
  PROVE  Before(<<t, n, j, s>>, <<t, n, k, s>>)
BY DEF Before

(* A new record of s bytes goes behind what is in the buffer. *)
Appended(t, s) ==
  /\ s \in 1..PIPE_BUF /\ nrec'[t] = nrec[t] + 1 /\ start'[t] = start[t]
  /\ Len(lb'[t]) = Len(lb[t]) + s
  /\ \A i \in 1..Len(lb[t]) : lb'[t][i] = lb[t][i]
  /\ \A k \in 1..s : lb'[t][Len(lb[t]) + k] = <<t, nrec[t] + 1, k, s>>

LEMMA AppendOrder ==
  ASSUME Types, NEW t \in Tasks, InOrder(t), start[t] <= Len(lb[t]), UNCHANGED wire,
         NEW s, Appended(t, s)
  PROVE  InOrder(t)'
<1>1. PICK m \in Nat, a \in Nat, n \in Nat : m = Len(lb[t]) /\ a = start[t] /\ n = nrec[t]
  BY DEF Types
<1>2. /\ s \in Nat \ {0} /\ s \in 1..PIPE_BUF /\ nrec'[t] = n + 1 /\ start'[t] = a /\ Len(lb'[t]) = m + s /\ a <= m
      /\ \A i \in 1..m : lb'[t][i] = lb[t][i]
      /\ \A k \in 1..s : lb'[t][m + k] = <<t, n + 1, k, s>>
  <2>1. s \in 1..PIPE_BUF /\ PIPE_BUF \in Nat
    BY Constants DEF Appended
  <2>2. s \in Nat \ {0}
    BY <2>1
  <2> QED BY <1>1, <2>1, <2>2, Zenon DEF Appended
<1>3. /\ Kept(t) = a+1..m /\ Kept(t)' = a+1..m+s
      /\ \A i \in Kept(t) : i \in Kept(t)' /\ lb'[t][i] = lb[t][i]
  <2>1. Kept(t) = a+1..m /\ Kept(t)' = a+1..m+s
    BY <1>1, <1>2 DEF Kept
  <2>2. \A i \in a+1..m : i \in a+1..m+s /\ i \in 1..m
    BY <1>2
  <2> QED BY <1>2, <2>1, <2>2
<1>4. ASSUME NEW i \in Kept(t)' PROVE i \in Kept(t) \/ \E k \in 1..s : i = m + k
  <2>1. CASE i <= m
    BY <1>3, <2>1
  <2>2. CASE i > m
    <3>1. PICK k \in 1..s : k = i - m
      BY <1>2, <1>3, <2>2
    <3>2. i = m + k
      BY <1>3, <3>1
    <3> QED BY <3>2
  <2> QED BY <1>3, <2>1, <2>2
<1>5. \A k \in 1..s : m + k \in Kept(t)'
  BY <1>2, <1>3
<1>6. \A c \in Conns : Sent(t, c)' = Sent(t, c)
  BY DEF Sent
<1>7. /\ \A c \in Conns : \A i \in Sent(t, c) : wire[c][i][2] \in 1..n
      /\ \A i \in Kept(t) : lb[t][i][2] \in 1..n
  BY <1>1, OwnedBytes
<1>8. ASSUME NEW k \in 1..s PROVE lb'[t][m + k] = <<t, n + 1, k, s>> /\ lb'[t][m + k][2] = n + 1
  <2>1. lb'[t][m + k] = <<t, n + 1, k, s>>
    BY <1>2, Zenon
  <2>2. <<t, n + 1, k, s>>[2] = n + 1
    OBVIOUS
  <2> QED BY <2>1, <2>2, Zenon
<1>9. Ascending(t)'
  <2>1. \A c \in Conns : \A i, j \in Sent(t, c)' : i < j => Before(wire'[c][i], wire'[c][j])
    BY <1>6 DEF InOrder, Ascending
  <2>2. \A c, d \in Conns : c # d => Earlier(t, c, d)' \/ Earlier(t, d, c)'
    BY <1>6 DEF InOrder, Ascending, Earlier
  <2>3. ASSUME NEW c \in Conns, NEW i \in Sent(t, c)', NEW j \in Kept(t)' PROVE Before(wire'[c][i], lb'[t][j])
    <3>1. CASE j \in Kept(t)
      BY <1>3, <1>6, <3>1 DEF InOrder, Ascending
    <3>2. CASE \E k \in 1..s : j = m + k
      <4>1. lb'[t][j][2] = n + 1 /\ wire[c][i][2] \in 1..n
        BY <1>6, <1>7, <1>8, <3>2
      <4> QED BY <4>1, LaterRecord
    <3> QED BY <1>4, <3>1, <3>2
  <2>4. ASSUME NEW i \in Kept(t)', NEW j \in Kept(t)', i < j PROVE Before(lb'[t][i], lb'[t][j])
    <3>1. CASE i \in Kept(t) /\ j \in Kept(t)
      BY <1>3, <2>4, <3>1 DEF InOrder, Ascending
    <3>2. CASE i \in Kept(t) /\ \E k \in 1..s : j = m + k
      <4>1. lb'[t][j][2] = n + 1 /\ lb'[t][i] = lb[t][i] /\ lb[t][i][2] \in 1..n
        BY <1>3, <1>7, <1>8, <3>2
      <4>2. Before(lb[t][i], lb'[t][j])
        BY <4>1, LaterRecord
      <4> QED BY <4>1, <4>2
    <3>3. CASE (\E k \in 1..s : i = m + k) /\ \E k \in 1..s : j = m + k
      <4>1. PICK k \in 1..s, l \in 1..s : i = m + k /\ j = m + l
        BY <3>3
      <4>2. k < l /\ k \in Nat /\ l \in Nat
        BY <2>4, <4>1
      <4>3. Before(<<t, n + 1, k, s>>, <<t, n + 1, l, s>>)
        BY <4>2, LaterByte
      <4> QED BY <1>8, <4>1, <4>3
    <3>4. CASE (\E k \in 1..s : i = m + k) /\ j \in Kept(t)
      <4>1. FALSE
        BY <1>3, <2>4, <3>4
      <4> QED BY <4>1
    <3> QED BY <1>4, <3>1, <3>2, <3>3, <3>4
  <2> QED BY <2>1, <2>2, <2>3, <2>4 DEF Ascending
<1>10. \A b : b \in Bytes(t)' <=> b \in Bytes(t) \/ \E k \in 1..s : b = <<t, n + 1, k, s>>
  <2>1. ASSUME NEW b \in Bytes(t)' PROVE b \in Bytes(t) \/ \E k \in 1..s : b = <<t, n + 1, k, s>>
    <3>1. CASE \E c \in Conns : \E i \in Sent(t, c)' : b = wire'[c][i]
      BY <1>6, <3>1, BytesAre
    <3>2. CASE \E i \in Kept(t)' : b = lb'[t][i]
      <4>1. PICK i \in Kept(t)' : b = lb'[t][i]
        BY <3>2
      <4>2. CASE i \in Kept(t)
        BY <1>3, <4>1, <4>2, BytesAre
      <4>3. CASE \E k \in 1..s : i = m + k
        BY <1>8, <4>1, <4>3
      <4> QED BY <1>4, <4>2, <4>3
    <3> QED BY <2>1, <3>1, <3>2, BytesAre
  <2>2. ASSUME NEW b \in Bytes(t) PROVE b \in Bytes(t)'
    <3>1. CASE \E c \in Conns : \E i \in Sent(t, c) : b = wire[c][i]
      BY <1>6, <3>1, BytesAre
    <3>2. CASE \E i \in Kept(t) : b = lb[t][i]
      BY <1>3, <3>2, BytesAre
    <3> QED BY <2>2, <3>1, <3>2, BytesAre
  <2>3. ASSUME NEW k \in 1..s PROVE <<t, n + 1, k, s>> \in Bytes(t)'
    BY <1>5, <1>8, BytesAre
  <2> QED BY <2>1, <2>2, <2>3
<1>11. \A b \in Bytes(t) : b[2] \in 1..n
  BY <1>1, Owned
<1>12. Complete(t)'
  <2>1. ASSUME NEW b \in Bytes(t)' PROVE b[2] \in 1..nrec'[t]
    <3>1. b[2] \in 1..n \/ b[2] = n + 1
      BY <1>10, <1>11
    <3> QED BY <1>2, <3>1
  <2>2. ASSUME NEW x \in 1..nrec'[t]
        PROVE  \E z \in 1..PIPE_BUF : {b \in Bytes(t)' : b[2] = x} = {<<t, x, k, z>> : k \in 1..z}
    <3>1. CASE x = n + 1
      <4>1. ASSUME NEW b \in Bytes(t)', b[2] = x PROVE \E k \in 1..s : b = <<t, x, k, s>>
        <5>1. b \notin Bytes(t)
          <6>1. ~(x \in 1..n)
            BY <3>1
          <6> QED BY <1>11, <4>1, <6>1
        <5> QED BY <1>10, <3>1, <5>1
      <4>2. ASSUME NEW k \in 1..s PROVE <<t, x, k, s>> \in Bytes(t)' /\ <<t, x, k, s>>[2] = x
        BY <1>10, <3>1
      <4>3. {b \in Bytes(t)' : b[2] = x} = {<<t, x, k, s>> : k \in 1..s}
        BY <4>1, <4>2
      <4> QED BY <1>2, <4>3
    <3>2. CASE x \in 1..n
      <4>1. PICK z \in 1..PIPE_BUF : {b \in Bytes(t) : b[2] = x} = {<<t, x, k, z>> : k \in 1..z}
        BY <1>1, <3>2 DEF InOrder, Complete
      <4>2. ASSUME NEW b, b[2] = x PROVE b \in Bytes(t)' <=> b \in Bytes(t)
        <5>1. ASSUME NEW k \in 1..s PROVE b # <<t, n + 1, k, s>>
          <6>1. x # n + 1 /\ <<t, n + 1, k, s>>[2] = n + 1
            BY <3>2
          <6> QED BY <4>2, <6>1
        <5> QED BY <1>10, <5>1
      <4>3. {b \in Bytes(t)' : b[2] = x} = {b \in Bytes(t) : b[2] = x}
        BY <4>2
      <4> QED BY <4>1, <4>3
    <3> QED BY <1>2, <3>1, <3>2
  <2> QED BY <2>1, <2>2 DEF Complete
<1> QED BY <1>9, <1>12 DEF InOrder

(* lb_flush() moves r bytes from the buffer to connection c. *)
Moved(t, c, r) ==
  /\ r \in Nat \ {0} /\ start[t] + r <= Len(lb[t]) /\ UNCHANGED <<lb, nrec>>
  /\ start'[t] = start[t] + r /\ \A u \in Tasks \ {t} : start'[u] = start[u]
  /\ \A d \in Conns \ {c} : wire'[d] = wire[d]
  /\ Len(wire'[c]) = Len(wire[c]) + r
  /\ \A i \in 1..Len(wire[c]) : wire'[c][i] = wire[c][i]
  /\ \A j \in 1..r : wire'[c][Len(wire[c]) + j] = lb[t][start[t] + j]

LEMMA MovedBytes ==
  ASSUME Types, NEW t \in Tasks, InOrder(t), NEW c \in Conns, NEW r, Moved(t, c, r)
  PROVE  /\ \A i \in Sent(t, c)' :
              (i \in Sent(t, c) /\ wire'[c][i] = wire[c][i])
              \/ \E k \in Kept(t) : /\ wire'[c][i] = lb[t][k] /\ k <= start[t] + r
                                    /\ i - Len(wire[c]) = k - start[t] /\ i > Len(wire[c])
         /\ \A i \in Sent(t, c) : i \in Sent(t, c)' /\ wire'[c][i] = wire[c][i] /\ i <= Len(wire[c])
         /\ \A k \in Kept(t) \ Kept(t)' : \E i \in Sent(t, c)' : wire'[c][i] = lb[t][k]
         /\ Kept(t)' \subseteq Kept(t) /\ \A k \in Kept(t)' : k > start[t] + r
         /\ \A u \in Tasks \ {t} : SameTrace(u)
<1>1. PICK m \in Nat, a \in Nat, l \in Nat : m = Len(lb[t]) /\ a = start[t] /\ l = Len(wire[c])
  BY DEF Types
<1>2. /\ r \in Nat \ {0} /\ a + r <= m /\ start'[t] = a + r /\ Len(wire'[c]) = l + r
      /\ \A i \in 1..l : wire'[c][i] = wire[c][i]
      /\ \A j \in 1..r : wire'[c][l + j] = lb[t][a + j]
  BY <1>1, Zenon DEF Moved
<1>3. UNCHANGED <<lb, nrec>> /\ \A d \in Conns \ {c} : wire'[d] = wire[d]
  BY DEF Moved
<1>4. Kept(t) = a+1..m /\ Kept(t)' = a+r+1..m
  BY <1>1, <1>2, <1>3 DEF Kept
<1>5. ASSUME NEW j \in 1..r PROVE a + j \in Kept(t) /\ wire'[c][l + j] = lb[t][a + j] /\ lb[t][a + j][1] = t
  <2>1. a + j \in a+1..m
    BY <1>2
  <2> QED BY <1>2, <1>4, <2>1, OwnedBytes
<1>6. ASSUME NEW i \in 1..l+r PROVE (i \in 1..l /\ wire'[c][i] = wire[c][i]) \/ \E j \in 1..r : i = l + j
  <2>1. CASE i <= l
    <3>1. i \in 1..l
      BY <2>1
    <3> QED BY <1>2, <3>1
  <2>2. CASE i > l
    <3>1. PICK j \in 1..r : j = i - l
      BY <1>2, <2>2
    <3>2. i = l + j
      BY <3>1
    <3> QED BY <3>2
  <2> QED BY <2>1, <2>2
<1>7. \A j \in 1..r : l + j \in 1..l+r /\ l + j > l /\ (l + j) - l = (a + j) - a /\ a + j <= a + r
  BY <1>2
<1>8. \A i \in 1..l : i \in 1..l+r /\ i <= l
  BY <1>2
<1>9. ASSUME NEW i \in Sent(t, c)'
      PROVE  (i \in Sent(t, c) /\ wire'[c][i] = wire[c][i])
             \/ \E k \in Kept(t) : wire'[c][i] = lb[t][k] /\ k <= a + r /\ i - l = k - a /\ i > l
  <2>1. i \in 1..l+r /\ wire'[c][i][1] = t
    BY <1>2 DEF Sent
  <2>2. CASE i \in 1..l /\ wire'[c][i] = wire[c][i]
    BY <1>1, <2>1, <2>2 DEF Sent
  <2>3. CASE \E j \in 1..r : i = l + j
    BY <1>5, <1>7, <2>3
  <2> QED BY <1>6, <2>1, <2>2, <2>3
<1>10. ASSUME NEW i \in Sent(t, c) PROVE i \in Sent(t, c)' /\ wire'[c][i] = wire[c][i] /\ i <= l
  <2>1. i \in 1..l /\ wire[c][i][1] = t
    BY <1>1 DEF Sent
  <2> QED BY <1>2, <1>8, <2>1 DEF Sent
<1>11. ASSUME NEW k \in Kept(t) \ Kept(t)' PROVE \E i \in Sent(t, c)' : wire'[c][i] = lb[t][k]
  <2>1. PICK j \in 1..r : j = k - a
    BY <1>2, <1>4
  <2>2. k = a + j
    BY <1>4, <2>1
  <2>3. wire'[c][l + j] = lb[t][k] /\ lb[t][k][1] = t
    BY <1>5, <2>2
  <2>4. l + j \in Sent(t, c)'
    BY <1>2, <1>7, <2>3 DEF Sent
  <2> QED BY <2>3, <2>4
<1>12. Kept(t)' \subseteq Kept(t) /\ \A k \in Kept(t)' : k > a + r
  BY <1>2, <1>4
<1>13. ASSUME NEW u \in Tasks \ {t} PROVE SameTrace(u)
  <2>1. nrec'[u] = nrec[u] /\ lb'[u] = lb[u] /\ start'[u] = start[u]
    BY <1>3 DEF Moved
  <2>2. Kept(u)' = Kept(u)
    BY <2>1 DEF Kept
  <2>3. \A d \in Conns \ {c} : Sent(u, d)' = Sent(u, d)
    BY <1>3 DEF Sent
  <2>4. \A i : i \in Sent(u, c)' => i \in Sent(u, c)
    <3> SUFFICES ASSUME NEW i \in Sent(u, c)' PROVE i \in Sent(u, c)
      OBVIOUS
    <3>1. i \in 1..l+r /\ wire'[c][i][1] = u
      BY <1>2 DEF Sent
    <3>2. CASE i \in 1..l /\ wire'[c][i] = wire[c][i]
      BY <1>1, <3>1, <3>2 DEF Sent
    <3>3. CASE \E j \in 1..r : i = l + j
      BY <1>5, <3>1, <3>3
    <3> QED BY <1>6, <3>1, <3>2, <3>3
  <2>5. \A i \in Sent(u, c) : i \in Sent(u, c)' /\ wire'[c][i] = wire[c][i]
    <3> SUFFICES ASSUME NEW i \in Sent(u, c) PROVE i \in Sent(u, c)' /\ wire'[c][i] = wire[c][i]
      OBVIOUS
    <3>1. i \in 1..l /\ wire[c][i][1] = u
      BY <1>1 DEF Sent
    <3> QED BY <1>2, <1>8, <3>1 DEF Sent
  <2> QED BY <1>3, <2>1, <2>2, <2>3, <2>4, <2>5 DEF SameTrace
<1> QED BY <1>1, <1>9, <1>10, <1>11, <1>12, <1>13, Zenon

LEMMA MoveOrder ==
  ASSUME Types, NEW t \in Tasks, InOrder(t), NEW c \in Conns, NEW r, Moved(t, c, r),
         \A d \in Conns \ {c} : Earlier(t, d, c)
  PROVE  InOrder(t)' /\ \A d \in Conns \ {c} : Earlier(t, d, c)'
<1>1. UNCHANGED <<lb, nrec>> /\ \A d \in Conns \ {c} : wire'[d] = wire[d]
  BY DEF Moved
<1>2. PICK l \in Nat, a \in Nat : l = Len(wire[c]) /\ a = start[t]
  BY DEF Types
<1>3. \A i \in Sent(t, c)' :
        (i \in Sent(t, c) /\ wire'[c][i] = wire[c][i])
        \/ \E k \in Kept(t) : wire'[c][i] = lb[t][k] /\ k <= a + r /\ i - l = k - a /\ i > l
  BY <1>2, MovedBytes, Zenon
<1>4. \A i \in Sent(t, c) : i \in Sent(t, c)' /\ wire'[c][i] = wire[c][i] /\ i <= l
  BY <1>2, MovedBytes, Zenon
<1>5. \A k \in Kept(t) \ Kept(t)' : \E i \in Sent(t, c)' : wire'[c][i] = lb[t][k]
  BY MovedBytes, Zenon
<1>6. Kept(t)' \subseteq Kept(t) /\ \A k \in Kept(t)' : k > a + r
  BY <1>2, MovedBytes, Zenon
<1>7. \A d \in Conns \ {c} : Sent(t, d)' = Sent(t, d)
  BY <1>1 DEF Sent
<1>8. /\ \A d \in Conns : \A i, j \in Sent(t, d) : i < j => Before(wire[d][i], wire[d][j])
      /\ \A d, e \in Conns : d # e => Earlier(t, d, e) \/ Earlier(t, e, d)
      /\ \A d \in Conns : \A i \in Sent(t, d), j \in Kept(t) : Before(wire[d][i], lb[t][j])
      /\ \A i, j \in Kept(t) : i < j => Before(lb[t][i], lb[t][j])
  BY DEF InOrder, Ascending
<1>9. /\ \A i \in Sent(t, c)' : i \in Nat
      /\ \A k \in Kept(t) : k \in Nat
      /\ r \in Nat
  <2>1. \A i \in Sent(t, c)' : i \in 1..Len(wire'[c])
    BY DEF Sent
  <2>2. \A k \in Kept(t) : k \in 1..Len(lb[t])
    BY PlacesAre
  <2> QED BY <2>1, <2>2 DEF Moved
<1>10. ASSUME NEW d \in Conns \ {c} PROVE Earlier(t, d, c)'
  <2> SUFFICES ASSUME NEW i \in Sent(t, d), NEW j \in Sent(t, c)' PROVE Before(wire[d][i], wire'[c][j])
    BY <1>1, <1>7 DEF Earlier
  <2>1. CASE j \in Sent(t, c) /\ wire'[c][j] = wire[c][j]
    BY <2>1 DEF Earlier
  <2>2. CASE \E k \in Kept(t) : wire'[c][j] = lb[t][k]
    BY <1>8, <2>2
  <2> QED BY <1>3, <2>1, <2>2
<1>11. ASSUME NEW i \in Sent(t, c)', NEW j \in Sent(t, c)', i < j PROVE Before(wire'[c][i], wire'[c][j])
  <2>1. CASE i \in Sent(t, c) /\ wire'[c][i] = wire[c][i]
    <3>1. CASE j \in Sent(t, c) /\ wire'[c][j] = wire[c][j]
      BY <1>8, <1>11, <2>1, <3>1
    <3>2. CASE \E k \in Kept(t) : wire'[c][j] = lb[t][k]
      BY <1>8, <2>1, <3>2
    <3> QED BY <1>3, <3>1, <3>2
  <2>2. CASE \E k \in Kept(t) : wire'[c][i] = lb[t][k] /\ i - l = k - a /\ i > l
    <3>1. PICK k \in Kept(t) : wire'[c][i] = lb[t][k] /\ i - l = k - a /\ i > l
      BY <2>2
    <3>2. j \notin Sent(t, c)
      <4>1. j > l
        BY <1>9, <1>11, <3>1
      <4> QED BY <1>4, <1>9, <4>1
    <3>3. PICK h \in Kept(t) : wire'[c][j] = lb[t][h] /\ j - l = h - a
      BY <1>3, <3>2
    <3>4. k < h
      BY <1>9, <1>11, <3>1, <3>3
    <3>5. Before(lb[t][k], lb[t][h])
      BY <1>8, <3>4
    <3> QED BY <3>1, <3>3, <3>5
  <2> QED BY <1>3, <2>1, <2>2
<1>12. ASSUME NEW i \in Sent(t, c)', NEW k \in Kept(t)' PROVE Before(wire'[c][i], lb[t][k])
  <2>1. CASE i \in Sent(t, c) /\ wire'[c][i] = wire[c][i]
    BY <1>6, <1>8, <2>1
  <2>2. CASE \E h \in Kept(t) : wire'[c][i] = lb[t][h] /\ h <= a + r
    <3>1. PICK h \in Kept(t) : wire'[c][i] = lb[t][h] /\ h <= a + r
      BY <2>2
    <3>2. h < k /\ k \in Kept(t)
      BY <1>6, <1>9, <3>1
    <3>3. Before(lb[t][h], lb[t][k])
      BY <1>8, <3>2
    <3> QED BY <3>1, <3>3
  <2> QED BY <1>3, <2>1, <2>2
<1>13. Ascending(t)'
  <2>1. \A d \in Conns : \A i, j \in Sent(t, d)' : i < j => Before(wire'[d][i], wire'[d][j])
    <3>1. \A d \in Conns \ {c} : \A i, j \in Sent(t, d)' : i < j => Before(wire'[d][i], wire'[d][j])
      BY <1>1, <1>7, <1>8
    <3> QED BY <1>11, <3>1
  <2>2. \A d, e \in Conns : d # e => Earlier(t, d, e)' \/ Earlier(t, e, d)'
    <3>1. ASSUME NEW d \in Conns \ {c}, NEW e \in Conns \ {c}, Earlier(t, d, e) PROVE Earlier(t, d, e)'
      BY <1>1, <1>7, <3>1 DEF Earlier
    <3> QED BY <1>8, <1>10, <3>1
  <2>3. \A d \in Conns : \A i \in Sent(t, d)', j \in Kept(t)' : Before(wire'[d][i], lb'[t][j])
    <3>1. \A d \in Conns \ {c} : \A i \in Sent(t, d)', j \in Kept(t)' : Before(wire'[d][i], lb'[t][j])
      BY <1>1, <1>6, <1>7, <1>8
    <3> QED BY <1>1, <1>12, <3>1
  <2>4. \A i, j \in Kept(t)' : i < j => Before(lb'[t][i], lb'[t][j])
    BY <1>1, <1>6, <1>8
  <2> QED BY <2>1, <2>2, <2>3, <2>4 DEF Ascending
<1>14. ASSUME NEW b \in Bytes(t) PROVE b \in Bytes(t)'
  <2>1. CASE \E d \in Conns : \E i \in Sent(t, d) : b = wire[d][i]
    <3>1. PICK d \in Conns : \E i \in Sent(t, d) : b = wire[d][i]
      BY <2>1
    <3>2. \E i \in Sent(t, d)' : b = wire'[d][i]
      BY <1>1, <1>4, <1>7, <3>1
    <3> QED BY <3>2, BytesAre
  <2>2. CASE \E k \in Kept(t) : b = lb[t][k]
    <3>1. PICK k \in Kept(t) : b = lb[t][k]
      BY <2>2
    <3>2. CASE k \in Kept(t)'
      BY <1>1, <3>1, <3>2, BytesAre
    <3>3. CASE k \notin Kept(t)'
      <4>1. \E i \in Sent(t, c)' : b = wire'[c][i]
        BY <1>5, <3>1, <3>3
      <4> QED BY <4>1, BytesAre
    <3> QED BY <3>2, <3>3
  <2> QED BY <1>14, <2>1, <2>2, BytesAre
<1>15. ASSUME NEW b \in Bytes(t)' PROVE b \in Bytes(t)
  <2>1. CASE \E d \in Conns : \E i \in Sent(t, d)' : b = wire'[d][i]
    <3>1. PICK d \in Conns : \E i \in Sent(t, d)' : b = wire'[d][i]
      BY <2>1
    <3>2. CASE d # c
      BY <1>1, <1>7, <3>1, <3>2, BytesAre
    <3>3. CASE d = c
      <4>1. PICK i \in Sent(t, c)' : b = wire'[c][i]
        BY <3>1, <3>3
      <4>2. CASE i \in Sent(t, c) /\ wire'[c][i] = wire[c][i]
        BY <4>1, <4>2, BytesAre
      <4>3. CASE \E k \in Kept(t) : wire'[c][i] = lb[t][k]
        BY <4>1, <4>3, BytesAre
      <4> QED BY <1>3, <4>2, <4>3
    <3> QED BY <3>2, <3>3
  <2>2. CASE \E k \in Kept(t)' : b = lb'[t][k]
    BY <1>1, <1>6, <2>2, BytesAre
  <2> QED BY <1>15, <2>1, <2>2, BytesAre
<1>16. Complete(t)'
  <2>1. Bytes(t)' = Bytes(t)
    BY <1>14, <1>15
  <2>2. nrec'[t] = nrec[t] /\ Complete(t)
    BY <1>1 DEF InOrder
  <2> QED BY <2>1, <2>2 DEF Complete
<1> QED BY <1>10, <1>13, <1>16 DEF InOrder

-----------------------------------------------------------------------------
(* Connections *)

(* A task that has written nothing yet may use any connection. *)
LEMMA SilentTask ==
  ASSUME NEW v \in Tasks, Silent(v), UNCHANGED wire
  PROVE  Newest(v)' /\ Following(v)' /\ Joining(v)'
<1>1. \A c \in Conns : Sent(v, c)' = {}
  BY DEF Silent, Unsent, Sent
<1>2. Silent(v)' /\ \A c : Unsent(v, c)'
  BY <1>1 DEF Silent, Unsent
<1>3. Newest(v)'
  BY <1>1 DEF Newest, Earlier
<1>4. Following(v)'
  <2> SUFFICES ASSUME ctxfd'[v] = LOGD_FD PROVE Unsent(v, Global(v))'
    BY DEF Following
  <2> QED BY <1>1 DEF Unsent
<1> QED BY <1>2, <1>3, <1>4 DEF Joining

(* The connection of a task is the one it was, one that is new to it, or   *)
(* none.                                                                   *)
LEMMA NewestFrame ==
  ASSUME NEW v \in Tasks, Newest(v), UNCHANGED wire, ConnOf(v)' \in {ConnOf(v), None} \/ Unsent(v, ConnOf(v)')
  PROVE  Newest(v)'
<1>1. \A c \in Conns : Sent(v, c)' = Sent(v, c)
  BY DEF Sent
<1>2. \A c, d \in Conns : Earlier(v, c, d)' <=> Earlier(v, c, d)
  BY <1>1 DEF Earlier
<1>3. PICK e : e = ConnOf(v)'
  OBVIOUS
<1>4. ASSUME e \in Conns, NEW d \in Conns \ {e} PROVE Earlier(v, d, e)'
  <2>1. CASE e = ConnOf(v)
    BY <1>2, <1>4, <2>1 DEF Newest
  <2>2. CASE Unsent(v, e)
    <3>1. Sent(v, e) = {}
      BY <1>4, <2>2 DEF Unsent
    <3>2. Earlier(v, d, e)
      BY <3>1 DEF Earlier
    <3> QED BY <1>2, <1>4, <3>2
  <2> QED BY <1>3, <1>4, <2>1, <2>2, Constants
<1> QED BY <1>3, <1>4 DEF Newest

LEMMA SameUnsent ==
  ASSUME NEW v, UNCHANGED wire
  PROVE  /\ \A c : Unsent(v, c)' <=> Unsent(v, c)
         /\ Silent(v) => Silent(v)'
<1>1. \A c : Unsent(v, c)' <=> Unsent(v, c)
  BY DEF Unsent, Sent
<1> QED BY <1>1 DEF Silent

(* The descriptors of a task are as they were. *)
KeepsFds(v) ==
  /\ proc'[v] = proc[v] /\ ctxfd'[v] = ctxfd[v]
  /\ logfd'[proc[v]] = logfd[proc[v]] /\ fdtab'[proc[v]] = fdtab[proc[v]]

LEMMA SameConns ==
  ASSUME NEW v \in Tasks, KeepsFds(v), Newest(v), Following(v), UNCHANGED wire
  PROVE  /\ ConnOf(v)' = ConnOf(v) /\ Global(v)' = Global(v)
         /\ Newest(v)' /\ Following(v)'
<1>1. ConnOf(v)' = ConnOf(v) /\ Global(v)' = Global(v)
  BY DEF KeepsFds, ConnOf, Global
<1>2. PICK g : g = Global(v) /\ g = Global(v)'
  BY <1>1
<1>3. Unsent(v, g)' <=> Unsent(v, g)
  BY SameUnsent
<1>4. Following(v)'
  BY <1>1, <1>2, <1>3 DEF Following, KeepsFds, Unsent
<1> QED BY <1>1, <1>4, NewestFrame

LEMMA SameJoining ==
  ASSUME NEW v \in Tasks, KeepsFds(v), todo'[v] = todo[v], Joining(v), Alone(v) => Alone(v)', UNCHANGED wire
  PROVE  Joining(v)'
<1>1. Global(v)' = Global(v) /\ fdtab'[proc'[v]][LOGD_FD] = fdtab[proc[v]][LOGD_FD]
  BY DEF KeepsFds, Global
<1>2. PICK g, h : g = Global(v) /\ g = Global(v)' /\ h = fdtab[proc[v]][LOGD_FD] /\ h = fdtab'[proc'[v]][LOGD_FD]
  BY <1>1
<1>3. (Unsent(v, g)' <=> Unsent(v, g)) /\ (Unsent(v, h)' <=> Unsent(v, h)) /\ (Silent(v) => Silent(v)')
  BY SameUnsent
<1>4. Reconnecting(v) => Reconnecting(v)'
  BY <1>2, <1>3 DEF Reconnecting, KeepsFds, Unsent
<1> QED BY <1>3, <1>4 DEF Joining

(* What a task does that is no write(). *)
LEMMA StepOrder ==
  ASSUME AInv, DInv, NEW t \in Tasks, state[t] = "live", UNCHANGED wire, up \subseteq up',
         \A u \in Tasks : InOrder(u)',
         \A u \in Tasks \ {t} : state'[u] = "live" =>
           \/ Silent(u)
           \/ /\ state[u] = "live" /\ proc'[u] = proc[u] /\ todo'[u] = todo[u]
              /\ proc[u] # proc[t] => KeepsFds(u) /\ (Alone(u) => Alone(u)')
              /\ proc[u] = proc[t] => Newest(u)' /\ Following(u)',
         state'[t] = "live" => Newest(t)' /\ Following(t)' /\ Joining(t)'
  PROVE  DInv'
<1>1. Clean'
  BY DEF DInv, Clean
<1>2. ASSUME NEW u \in Tasks \ {t}, state'[u] = "live", ~Silent(u) PROVE Newest(u)' /\ Following(u)' /\ Joining(u)'
  <2>1. /\ state[u] = "live" /\ proc'[u] = proc[u] /\ todo'[u] = todo[u]
        /\ proc[u] # proc[t] => KeepsFds(u) /\ (Alone(u) => Alone(u)')
        /\ proc[u] = proc[t] => Newest(u)' /\ Following(u)'
    BY <1>2
  <2>2. Newest(u) /\ Following(u) /\ Joining(u)
    BY <2>1 DEF DInv
  <2>3. CASE proc[u] # proc[t]
    BY <2>1, <2>2, <2>3, SameConns, SameJoining
  <2>4. CASE proc[u] = proc[t]
    <3>1. ~Alone(u)
      BY <2>4 DEF Alone
    <3>2. ~Starts(todo[u])
      BY <1>2, <2>2, <3>1 DEF Joining, Reconnecting
    <3> QED BY <2>1, <2>4, <3>2 DEF Joining
  <2> QED BY <2>3, <2>4
<1>3. ASSUME NEW u \in Tasks, state'[u] = "live" PROVE Newest(u)' /\ Following(u)' /\ Joining(u)'
  BY <1>2, <1>3, SilentTask
<1> QED BY <1>1, <1>3 DEF DInv

(* A step that leaves the descriptors of all processes alone. *)
LEMMA PlainOrder ==
  ASSUME AInv, DInv, NEW t \in Tasks, state[t] = "live", UNCHANGED <<proc, ctxfd, logfd, fdtab, wire>>,
         up \subseteq up',
         \A u \in Tasks \ {t} : todo'[u] = todo[u],
         \A u \in Tasks : state'[u] = "live" => state[u] = "live",
         \A u \in Tasks : InOrder(u)',
         state'[t] = "live" => Joining(t)'
  PROVE  DInv'
<1>1. ASSUME NEW u \in Tasks, state'[u] = "live"
      PROVE  state[u] = "live" /\ KeepsFds(u) /\ (Alone(u) => Alone(u)') /\ Newest(u)' /\ Following(u)'
  <2>1. state[u] = "live" /\ KeepsFds(u) /\ Newest(u) /\ Following(u)
    BY <1>1 DEF DInv, KeepsFds
  <2>2. Alone(u) => Alone(u)'
    BY DEF Alone
  <2> QED BY <2>1, <2>2, SameConns
<1> QED BY <1>1, StepOrder

LEMMA SameOrder ==
  ASSUME DInv, UNCHANGED <<wire, lb, start, nrec>>
  PROVE  \A u \in Tasks : InOrder(u)'
<1> SUFFICES ASSUME NEW u \in Tasks PROVE InOrder(u)'
  OBVIOUS
<1>1. SameTrace(u)
  BY DEF SameTrace, Sent, Kept
<1> QED BY <1>1, TraceFrame DEF DInv

(* Steps of a call. *)
LEMMA CallOrder ==
  ASSUME AInv, DInv, NEW t \in Tasks, state[t] = "live", UNCHANGED <<proc, ctxfd, logfd, fdtab, up, wire>>,
         NEW q \in Seq(Step), Plain(prog, q) \/ Exits(q), todo' = [todo EXCEPT ![t] = q],
         \A u \in Tasks : state'[u] = "live" => state[u] = "live",
         \A u \in Tasks : InOrder(u)'
  PROVE  DInv'
<1>1. Types /\ prog \in Programs
  BY DEF AInv, Types
<1>2. ~Starts(q)
  BY <1>1, NotStarts
<1>3. todo'[t] = q /\ \A u \in Tasks \ {t} : todo'[u] = todo[u]
  BY <1>1 DEF Types
<1>4. Joining(t)'
  BY <1>2, <1>3 DEF Joining
<1> QED BY <1>3, <1>4, PlainOrder

LEMMA DoneOrder ==
  ASSUME AInv, DInv, NEW t \in Tasks, NEW op, At(t, op), Plain(prog, todo[t]) \/ Exits(todo[t]), op # "die",
         Done(t), UNCHANGED <<proc, ctxfd, logfd, fdtab, up, wire>>,
         \A u \in Tasks : state'[u] = "live" => state[u] = "live",
         \A u \in Tasks : InOrder(u)'
  PROVE  DInv'
<1>1. /\ state[t] = "live" /\ todo[t] # << >> /\ todo[t] \in Seq(Step) /\ prog \in Programs /\ todo[t][1][1] = op
      /\ Types
  BY StepAt DEF AInv
<1>2. PICK q \in Seq(Step) : q = Tail(todo[t]) /\ (Plain(prog, q) \/ Exits(q))
  BY <1>1, DoneList
<1>3. todo' = [todo EXCEPT ![t] = q]
  BY <1>1, <1>2 DEF Done, Types
<1> QED BY <1>1, <1>2, <1>3, CallOrder

LEMMA CallsOrder ==
  ASSUME AInv, DInv, NEW t \in Tasks, Program(t)
  PROVE  DInv'
<1>1. /\ Calls(t) /\ prog \in Programs
      /\ UNCHANGED <<proc, lb, start, nrec, ctxfd, newfd, state, logfd, fdtab, up, wire>>
  BY DEF Program, Call, fork, pthread_create, execve, exit, Return, Begin, task, kernel, AInv, Types
<1>2. \E q : Opening(prog, q) /\ Begin(t, q)
  <2>1. CASE Call(t)
    BY <1>1, <2>1, Openings DEF Call
  <2>2. CASE fork(t)
    BY <1>1, <2>2, Openings DEF fork
  <2>3. CASE pthread_create(t)
    BY <1>1, <2>3, Openings DEF pthread_create
  <2>4. CASE execve(t)
    BY <1>1, <2>4, Openings DEF execve
  <2>5. CASE exit(t)
    BY <1>1, <2>5, Openings DEF exit
  <2>6. CASE Return(t)
    BY <1>1, <2>6, Openings DEF Return
  <2> QED BY <2>1, <2>2, <2>3, <2>4, <2>5, <2>6 DEF Program
<1>3. PICK q : Opening(prog, q) /\ Begin(t, q)
  BY <1>2
<1>4. q \in Seq(Step) /\ (Plain(prog, q) \/ Exits(q)) /\ todo' = [todo EXCEPT ![t] = q]
  BY <1>3 DEF Opening, Begin
<1> QED BY <1>1, <1>4, SameOrder, CallOrder DEF Calls

LEMMA PutOrder ==
  ASSUME AInv, DInv, AInv', NEW t \in Tasks, NEW op \in {"log", "append"}, At(t, op), Put(t, todo[t][1][2]),
         UNCHANGED <<wire, start>>
  PROVE  \A u \in Tasks : InOrder(u)'
<1>1. PICK s \in Nat \ {0} : s = todo[t][1][2]
  BY LogSize
<1>2. lb[t] \in Seq(Byte) /\ start[t] <= Len(lb[t]) /\ Types
  BY StepAt DEF AInv
<1>3. PICK n \in Nat, k \in Nat : n = nrec[t] /\ k = n + 1
  BY <1>2 DEF Types
<1>4. /\ nrec'[t] = k /\ lb'[t] = lb[t] \o Record(t, k, s)
      /\ \A u \in Tasks \ {t} : nrec'[u] = nrec[u] /\ lb'[u] = lb[u]
  BY <1>1, <1>2, <1>3 DEF Put, Types
<1>5. /\ Len(lb'[t]) = Len(lb[t]) + s /\ Len(lb[t]) \in Nat
      /\ \A i \in 1..Len(lb[t]) : lb'[t][i] = lb[t][i]
      /\ \A j \in 1..s : lb'[t][Len(lb[t]) + j] = <<t, k, j, s>>
  <2>1. LET z == lb[t] \o Record(t, k, s)
        IN  /\ z \in Seq(Byte) /\ Len(z) = Len(lb[t]) + s /\ Len(lb[t]) \in Nat
            /\ \A i \in 1..Len(lb[t]) : z[i] = lb[t][i]
            /\ \A j \in 1..s : z[Len(lb[t]) + j] = <<t, k, j, s>>
    BY <1>2, PutType, ZenonT(60)
  <2> QED BY <1>4, <2>1, Zenon
<1>6. s \in 1..PIPE_BUF
  <2>1. Len(lb'[t]) <= PIPE_BUF
    BY DEF AInv, Task
  <2> QED BY <1>5, <2>1, Constants
<1>7. Appended(t, s)
  <2>1. nrec'[t] = nrec[t] + 1 /\ start'[t] = start[t]
    BY <1>3, <1>4
  <2>2. \A j \in 1..s : lb'[t][Len(lb[t]) + j] = <<t, nrec[t] + 1, j, s>>
    BY <1>3, <1>5, Zenon
  <2> QED BY <1>5, <1>6, <2>1, <2>2 DEF Appended
<1>8. InOrder(t)'
  BY <1>2, <1>7, AppendOrder DEF DInv
<1>9. ASSUME NEW u \in Tasks \ {t} PROVE InOrder(u)'
  <2>1. SameTrace(u)
    BY <1>4 DEF SameTrace, Sent, Kept
  <2> QED BY <2>1, TraceFrame DEF DInv
<1> QED BY <1>8, <1>9

LEMMA AllocOrder ==
  ASSUME AInv, DInv, AInv', NEW t \in Tasks, lb_alloc_bytes(t)
  PROVE  DInv'
<1> DEFINE s == todo[t][1][2]
<1>1. At(t, "log") /\ UNCHANGED <<proc, start, ctxfd, newfd, state, logfd, fdtab, up, wire, parent, prog>>
  BY DEF lb_alloc_bytes, kernel
<1>2. /\ state[t] = "live" /\ todo[t] # << >> /\ Head(todo[t]) = todo[t][1] /\ todo[t][1][1] = "log"
      /\ todo[t] \in Seq(Step) /\ prog \in Programs /\ Types
  BY <1>1, StepAt DEF AInv
<1>3. Plain(prog, todo[t]) \/ Exits(todo[t])
  BY <1>1, LogSize
<1>4. CASE todo' = [todo EXCEPT ![t] = exit_steps] /\ UNCHANGED <<nrec, lb>>
  <2>1. exit_steps \in Seq(Step) /\ Exits(exit_steps)
    BY ExitLists DEF Leaves
  <2> QED BY <1>1, <1>2, <1>4, <2>1, SameOrder, CallOrder
<1>5. CASE s <= PIPE_BUF /\ todo' = [todo EXCEPT ![t] = <<flush, append(s)>> \o Tail(@)] /\ UNCHANGED <<nrec, lb>>
  <2>1. PICK q : q = <<flush, append(s)>> \o Tail(todo[t])
    OBVIOUS
  <2>2. q \in Seq(Step) /\ (Plain(prog, q) \/ Exits(q))
    BY <1>2, <1>3, <1>5, <2>1, Expanded
  <2>3. todo' = [todo EXCEPT ![t] = q]
    BY <1>2, <1>5, <2>1 DEF Types
  <2>4. UNCHANGED <<wire, lb, start, nrec>>
    BY <1>1, <1>5
  <2> QED BY <1>1, <1>2, <2>2, <2>3, <2>4, SameOrder, CallOrder
<1>6. CASE Put(t, s) /\ Done(t)
  <2>1. \A u \in Tasks : InOrder(u)'
    BY <1>1, <1>6, PutOrder
  <2> QED BY <1>1, <1>3, <1>6, <2>1, DoneOrder
<1> QED BY <1>2, <1>4, <1>5, <1>6 DEF lb_alloc_bytes

LEMMA AppendStepOrder ==
  ASSUME AInv, DInv, AInv', NEW t \in Tasks, LogAfterFlush(t)
  PROVE  DInv'
<1>1. At(t, "append") /\ UNCHANGED <<proc, start, ctxfd, newfd, state, logfd, fdtab, up, wire, fate, parent, prog>>
  BY DEF LogAfterFlush, kernel
<1>2. Put(t, todo[t][1][2]) /\ Done(t)
  BY <1>1, StepAt DEF LogAfterFlush
<1>3. Plain(prog, todo[t]) \/ Exits(todo[t])
  BY <1>1, LogSize
<1>4. \A u \in Tasks : InOrder(u)'
  BY <1>1, <1>2, PutOrder
<1> QED BY <1>1, <1>2, <1>3, <1>4, DoneOrder

LEMMA FlushedOrder ==
  ASSUME AInv, DInv, NEW t \in Tasks, lb_flush_done(t)
  PROVE  DInv'
<1>1. /\ At(t, "flush") /\ start[t] = Len(lb[t]) /\ Done(t)
      /\ lb' = [lb EXCEPT ![t] = << >>] /\ start' = [start EXCEPT ![t] = 0]
      /\ UNCHANGED <<proc, nrec, ctxfd, newfd, state, logfd, fdtab, up, wire, fate, parent, prog>>
  BY DEF lb_flush_done, kernel
<1>2. /\ todo[t] # << >> /\ todo[t] \in Seq(Step) /\ IsList(prog, todo[t]) /\ prog \in Programs
      /\ todo[t][1][1] = "flush" /\ Types /\ Len(lb[t]) \in Nat
  BY <1>1, StepAt DEF AInv
<1>3. Plain(prog, todo[t]) \/ Exits(todo[t])
  BY <1>2, ListAt
<1>4. lb'[t] = << >> /\ start'[t] = 0 /\ \A u \in Tasks \ {t} : lb'[u] = lb[u] /\ start'[u] = start[u]
  BY <1>1, <1>2 DEF Types
<1>5. Kept(t) = {} /\ Kept(t)' = {}
  BY <1>1, <1>2, <1>4 DEF Kept
<1>6. SameTrace(t)
  BY <1>1, <1>5 DEF SameTrace, Sent
<1>7. \A u \in Tasks \ {t} : SameTrace(u)
  BY <1>1, <1>4 DEF SameTrace, Sent, Kept
<1>8. \A u \in Tasks : InOrder(u)'
  BY <1>6, <1>7, TraceFrame DEF DInv
<1> QED BY <1>1, <1>3, <1>8, DoneOrder

LEMMA GoneOrder ==
  ASSUME AInv, DInv, NEW t \in Tasks, state[t] = "live", Gone(t), \A u \in Tasks \ {t} : todo'[u] = todo[u],
         UNCHANGED <<proc, lb, start, nrec, ctxfd, logfd, up, wire>>
  PROVE  DInv'
<1>1. Types /\ proc[t] \in Procs
  BY LiveTask DEF AInv
<1>2. /\ \A u \in Tasks : state'[u] = "live" => state[u] = "live" /\ proc[u] # proc[t]
      /\ \A p \in Procs \ {proc[t]} : fdtab'[p] = fdtab[p]
  BY <1>1 DEF Gone, Types
<1>3. ASSUME NEW u \in Tasks, state'[u] = "live"
      PROVE  state[u] = "live" /\ proc[u] # proc[t] /\ KeepsFds(u) /\ (Alone(u) => Alone(u)')
  <2>1. state[u] = "live" /\ proc[u] # proc[t] /\ proc[u] \in Procs
    BY <1>2, <1>3, LiveTask
  <2>2. Alone(u) => Alone(u)'
    BY <1>2 DEF Alone
  <2> QED BY <1>2, <2>1, <2>2 DEF KeepsFds
<1>4. \A u \in Tasks : InOrder(u)'
  BY SameOrder
<1> QED BY <1>3, <1>4, StepOrder

LEMMA FailsOrder ==
  ASSUME AInv, BInv, CInv, DInv, Steady, NEW t \in Tasks, lb_flush_fails(t)
  PROVE  DInv'
<1>1. /\ At(t, "flush") /\ start[t] < Len(lb[t]) /\ ConnOf(t) \notin up
      /\ UNCHANGED <<proc, lb, nrec, ctxfd, newfd, logfd, up, wire, parent, prog>>
  BY DEF lb_flush_fails
<1>2. state[t] = "live" /\ Types /\ start[t] \in Nat /\ Len(lb[t]) \in Nat
  BY <1>1, StepAt DEF AInv
<1>3. CASE /\ todo' = [todo EXCEPT ![t] = exit_steps] /\ start' = [start EXCEPT ![t] = 0]
           /\ UNCHANGED <<state, fdtab>>
  <2>1. prog.threads
    BY <1>1, FailingFlush DEF Tidy, Steady
  <2>2. start[t] \in {0, Len(lb[t])}
    BY <2>1 DEF Steady, CInv
  <2>3. start[t] = 0
    BY <1>1, <1>2, <2>2
  <2>4. UNCHANGED start
    BY <1>2, <1>3, <2>3 DEF Types
  <2>5. exit_steps \in Seq(Step) /\ Exits(exit_steps)
    BY ExitLists DEF Leaves
  <2> QED BY <1>1, <1>2, <1>3, <2>4, <2>5, SameOrder, CallOrder
<1>4. CASE Gone(t) /\ UNCHANGED <<todo, start>>
  BY <1>1, <1>2, <1>4, GoneOrder
<1> QED BY <1>3, <1>4 DEF lb_flush_fails

LEMMA ExitOrder ==
  ASSUME AInv, DInv, NEW t \in Tasks, real_exit(t)
  PROVE  DInv'
<1>1. /\ At(t, "die") /\ Gone(t) /\ Done(t)
      /\ UNCHANGED <<proc, lb, start, nrec, ctxfd, newfd, logfd, up, wire, fate, parent, prog>>
  BY DEF real_exit
<1>2. state[t] = "live" /\ \A u \in Tasks \ {t} : todo'[u] = todo[u]
  BY <1>1, StepAt DEF Done, AInv, Types
<1> QED BY <1>1, <1>2, GoneOrder

LEMMA EndOrder ==
  ASSUME AInv, DInv, NEW t \in Tasks, End(t)
  PROVE  DInv'
<1>1. /\ At(t, "end") /\ Done(t) /\ state' = [state EXCEPT ![t] = "ended"]
      /\ UNCHANGED <<proc, lb, start, nrec, ctxfd, newfd, logfd, fdtab, up, wire, fate, parent, prog>>
  BY DEF End, kernel
<1>2. /\ todo[t] # << >> /\ todo[t] \in Seq(Step) /\ IsList(prog, todo[t]) /\ prog \in Programs
      /\ todo[t][1][1] = "end" /\ Types
  BY <1>1, StepAt DEF AInv
<1>3. Plain(prog, todo[t])
  BY <1>2, ListAt
<1>4. \A u \in Tasks : state'[u] = "live" => state[u] = "live"
  BY <1>1, <1>2 DEF Types
<1> QED BY <1>1, <1>3, <1>4, SameOrder, DoneOrder

LEMMA FailedOrder ==
  ASSUME AInv, DInv, NEW t \in Tasks, NEW op \in {"fork", "spawn", "exec"}, At(t, op), Done(t),
         UNCHANGED <<proc, lb, start, nrec, ctxfd, state, logfd, fdtab, up, wire>>
  PROVE  DInv'
<1>1. /\ todo[t] # << >> /\ todo[t] \in Seq(Step) /\ IsList(prog, todo[t]) /\ prog \in Programs
      /\ todo[t][1][1] = op
  BY StepAt
<1>2. Plain(prog, todo[t])
  BY <1>1, ListAt
<1> QED BY <1>2, SameOrder, DoneOrder

LEMMA ExecOrder ==
  ASSUME AInv, DInv, NEW t \in Tasks, exec(t)
  PROVE  DInv'
<1>1. At(t, "exec") /\ UNCHANGED <<proc, lb, start, nrec, ctxfd, newfd, logfd, fdtab, up, wire, parent, prog>>
  BY DEF exec, kernel
<1>2. CASE Done(t) /\ UNCHANGED state
  BY <1>1, <1>2, FailedOrder
<1>3. CASE /\ state' = [u \in Tasks |-> IF u # t /\ proc[u] = proc[t] THEN "ended" ELSE state[u]]
           /\ todo'  = [todo EXCEPT ![t] = Socket]
  <2>1. state[t] = "live" /\ Types
    BY <1>1, StepAt DEF AInv
  <2>2. /\ \A u \in Tasks : state'[u] = "live" => state[u] = "live"
        /\ \A u \in Tasks \ {t} : proc[u] = proc[t] => state'[u] # "live"
    BY <1>3
  <2>3. todo'[t] = Socket /\ \A u \in Tasks \ {t} : todo'[u] = todo[u]
    BY <1>3, <2>1 DEF Types
  <2>4. Alone(t)'
    BY <1>1, <2>2 DEF Alone
  <2>5. Joining(t)'
    BY <2>3, <2>4, StartTail DEF Joining, Reconnecting
  <2>6. \A u \in Tasks : InOrder(u)'
    BY <1>1, SameOrder
  <2> QED BY <1>1, <2>1, <2>2, <2>3, <2>5, <2>6, PlainOrder
<1> QED BY <1>2, <1>3 DEF exec, Socket

LEMMA AtStart ==
  ASSUME AInv, NEW t \in Tasks
  PROVE  /\ At(t, "socket") => todo[t] = Socket
         /\ At(t, "connect") => todo[t] = Connect
         /\ At(t, "dup2") => todo[t] = Dup2
         /\ At(t, "newfd") => todo[t] = NewFd
         /\ At(t, "ctx") => todo[t] = Ctx
         /\ At(t, "close") => todo[t] = Close \/ Exits(todo[t])
<1>1. ASSUME NEW op, At(t, op)
      PROVE  /\ todo[t] # << >> /\ todo[t] \in Seq(Step) /\ IsList(prog, todo[t]) /\ prog \in Programs
             /\ todo[t][1][1] = op
  BY <1>1, StepAt
<1> QED BY <1>1, ListAt

(* At a step of logd_init(). *)
LEMMA StartAt ==
  ASSUME AInv, DInv, NEW t \in Tasks, NEW op, At(t, op), NEW q, Starts(q), todo[t] = q, Done(t)
  PROVE  /\ state[t] = "live" /\ Types /\ proc[t] \in Procs /\ (Silent(t) \/ Reconnecting(t))
         /\ todo'[t] = Tail(q) /\ \A u \in Tasks \ {t} : todo'[u] = todo[u]
<1>1. state[t] = "live" /\ Types /\ proc[t] \in Procs
  BY StepAt DEF AInv
<1>2. Silent(t) \/ Reconnecting(t)
  BY <1>1 DEF DInv, Joining
<1>3. todo'[t] = Tail(q) /\ \A u \in Tasks \ {t} : todo'[u] = todo[u]
  BY <1>1 DEF Done, Types
<1> QED BY <1>1, <1>2, <1>3

(* A step that changes the descriptors of its own process. *)
LEMMA FdsOrder ==
  ASSUME AInv, DInv, NEW t \in Tasks, state[t] = "live",
         UNCHANGED <<proc, state, ctxfd, lb, start, nrec, up, wire>>,
         \A u \in Tasks \ {t} : todo'[u] = todo[u],
         \A q \in Procs \ {proc[t]} : logfd'[q] = logfd[q] /\ fdtab'[q] = fdtab[q],
         \A u \in Tasks : state[u] = "live" /\ proc[u] = proc[t] =>
           /\ ConnOf(u)' \in {ConnOf(u), None} \/ Unsent(u, ConnOf(u)')
           /\ ctxfd[u] = LOGD_FD => Global(u)' = ConnOf(u)' \/ Unsent(u, Global(u)'),
         Starts(todo'[t]) => Silent(t) \/ Reconnecting(t)'
  PROVE  DInv'
<1>1. ASSUME NEW u \in Tasks, state[u] = "live", proc[u] = proc[t] PROVE Newest(u)' /\ Following(u)'
  <2>1. Newest(u)'
    BY <1>1, NewestFrame DEF DInv
  <2>2. PICK g : g = Global(u)'
    OBVIOUS
  <2>3. Unsent(u, g)' <=> Unsent(u, g)
    BY SameUnsent
  <2>4. ctxfd[u] = LOGD_FD => g = ConnOf(u)' \/ Unsent(u, g)
    BY <1>1, <2>2
  <2>5. Following(u)'
    BY <2>2, <2>3, <2>4 DEF Following, Unsent
  <2> QED BY <2>1, <2>5
<1>2. ASSUME NEW u \in Tasks, state[u] = "live", proc[u] # proc[t] PROVE KeepsFds(u) /\ (Alone(u) => Alone(u)')
  <2>1. proc[u] \in Procs
    BY <1>2, LiveTask
  <2> QED BY <1>2, <2>1 DEF KeepsFds, Alone
<1>3. Joining(t)'
  BY SameUnsent DEF Joining
<1>4. \A u \in Tasks : InOrder(u)'
  BY SameOrder
<1> QED BY <1>1, <1>2, <1>3, <1>4, StepOrder

LEMMA SocketOrder ==
  ASSUME AInv, DInv, NEW t \in Tasks, logd_init_socket(t)
  PROVE  DInv'
<1>1. /\ At(t, "socket") /\ Done(t)
      /\ logfd' = [logfd EXCEPT ![proc[t]] = MinOf(FreeFds(proc[t]))]
      /\ fdtab' = [fdtab EXCEPT ![proc[t]][MinOf(FreeFds(proc[t]))] = MinOf(Conns \ Made)]
      /\ UNCHANGED <<proc, lb, start, nrec, ctxfd, newfd, state, up, wire>>
  BY DEF logd_init_socket, task
<1>2. todo[t] = Socket /\ Starts(Socket) /\ Tail(Socket) = Connect
  BY <1>1, AtStart, StartTail
<1>3. /\ state[t] = "live" /\ Types /\ proc[t] \in Procs /\ todo'[t] = Connect
      /\ \A u \in Tasks \ {t} : todo'[u] = todo[u]
      /\ (Silent(t) \/ Reconnecting(t))
  BY <1>1, <1>2, StartAt
<1>4. t \in Claims
  BY <1>2, <1>3, StartTail DEF Claims
<1>5. PICK h \in Fds \ {LOGD_FD}, c \in Conns \ Made : h = MinOf(FreeFds(proc[t])) /\ c = MinOf(Conns \ Made)
  BY <1>4, SocketFree
<1>6. PICK p \in Procs : p = proc[t]
  BY <1>3
<1>7. /\ logfd'[p] = h /\ fdtab'[p][h] = c /\ \A f \in Fds \ {h} : fdtab'[p][f] = fdtab[p][f]
      /\ \A q \in Procs \ {p} : logfd'[q] = logfd[q] /\ fdtab'[q] = fdtab[q]
  BY <1>1, <1>3, <1>5, <1>6 DEF Types
<1>8. \A u : Unsent(u, c) /\ Unsent(u, c)'
  <2>1. wire[c] = << >> /\ wire'[c] = << >>
    BY <1>1, <1>5 DEF DInv, Clean, Made
  <2> QED BY <2>1 DEF Unsent, Sent
<1>9. ASSUME NEW u \in Tasks, proc[u] = p
      PROVE  ConnOf(u)' \in {ConnOf(u), c} /\ Global(u)' = c
  <2>1. proc'[u] = p /\ ctxfd'[u] = ctxfd[u]
    BY <1>1, <1>9
  <2> QED BY <1>5, <1>7, <1>9, <2>1 DEF ConnOf, Global
<1>10. Reconnecting(t) => Reconnecting(t)'
  <2>1. Alone(t) => Alone(t)'
    BY <1>1 DEF Alone
  <2>2. Global(t)' = c /\ c # None
    BY <1>5, <1>6, <1>9, Constants
  <2>3. Unsent(t, Global(t))'
    BY <1>8, <2>2 DEF Unsent
  <2> QED BY <1>3, <2>1, <2>2, <2>3, StartTail DEF Reconnecting
<1>11. \A u \in Tasks : state[u] = "live" /\ proc[u] = proc[t] =>
           /\ ConnOf(u)' \in {ConnOf(u), None} \/ Unsent(u, ConnOf(u)')
           /\ ctxfd[u] = LOGD_FD => Global(u)' = ConnOf(u)' \/ Unsent(u, Global(u)')
  BY <1>6, <1>8, <1>9
<1> QED BY <1>1, <1>3, <1>6, <1>7, <1>10, <1>11, FdsOrder

LEMMA ConnectOrder ==
  ASSUME AInv, DInv, NEW t \in Tasks, logd_init_connect(t)
  PROVE  DInv'
<1>1. At(t, "connect") /\ UNCHANGED <<proc, lb, start, nrec, ctxfd, newfd, logfd, wire>>
  BY DEF logd_init_connect
<1>2. CASE up' = up \cup {Global(t)} /\ Done(t) /\ UNCHANGED <<state, fdtab>>
  <2>1. todo[t] = Connect /\ Starts(Connect) /\ Tail(Connect) = Dup2
    BY <1>1, AtStart, StartTail
  <2>2. /\ state[t] = "live" /\ todo'[t] = Dup2 /\ (Silent(t) \/ Reconnecting(t))
        /\ \A u \in Tasks \ {t} : todo'[u] = todo[u]
    BY <1>1, <1>2, <2>1, StartAt
  <2>3. PICK g : g = Global(t) /\ g = Global(t)'
    BY <1>1, <1>2 DEF Global
  <2>4. (Unsent(t, g)' <=> Unsent(t, g)) /\ (Silent(t) => Silent(t)')
    BY <1>1, SameUnsent
  <2>5. Reconnecting(t) => Reconnecting(t)'
    <3>1. Alone(t) => Alone(t)'
      BY <1>1, <1>2 DEF Alone
    <3> QED BY <2>1, <2>2, <2>3, <2>4, <3>1, StartTail DEF Reconnecting, Unsent
  <2>6. Joining(t)'
    BY <2>2, <2>4, <2>5 DEF Joining
  <2>7. \A u \in Tasks : InOrder(u)'
    BY <1>1, SameOrder
  <2> QED BY <1>1, <1>2, <2>2, <2>6, <2>7, PlainOrder
<1>3. CASE Gone(t) /\ UNCHANGED <<todo, up>>
  BY <1>1, <1>3, StepAt, GoneOrder
<1> QED BY <1>2, <1>3 DEF logd_init_connect

LEMMA Dup2Order ==
  ASSUME AInv, DInv, NEW t \in Tasks, logd_init_dup2(t)
  PROVE  DInv'
<1>1. /\ At(t, "dup2") /\ Done(t) /\ UNCHANGED <<proc, lb, start, nrec, ctxfd, state, logfd, up, wire>>
      /\ fdtab' = IF Global(t) = None THEN fdtab ELSE [fdtab EXCEPT ![proc[t]][LOGD_FD] = Global(t)]
  BY DEF logd_init_dup2
<1>2. todo[t] = Dup2 /\ Starts(Dup2) /\ Tail(Dup2) = Close
  BY <1>1, AtStart, StartTail
<1>3. /\ state[t] = "live" /\ Types /\ proc[t] \in Procs /\ todo'[t] = Close
      /\ \A u \in Tasks \ {t} : todo'[u] = todo[u]
      /\ (Silent(t) \/ Reconnecting(t))
  BY <1>1, <1>2, StartAt
<1>4. PICK p \in Procs : p = proc[t]
  BY <1>3
<1>5. PICK g : g = Global(t) /\ \A u \in Tasks : proc[u] = p => Global(u) = g
  BY <1>4 DEF Global
<1>6. /\ \A q \in Procs \ {p} : logfd'[q] = logfd[q] /\ fdtab'[q] = fdtab[q]
      /\ \A f \in Fds \ {LOGD_FD} : fdtab'[p][f] = fdtab[p][f]
      /\ logfd'[p] = logfd[p]
  BY <1>1, <1>3, <1>4 DEF Types
<1>7. fdtab'[p][LOGD_FD] = IF g = None THEN fdtab[p][LOGD_FD] ELSE g
  BY <1>1, <1>3, <1>4, <1>5, Constants DEF Types
<1>8. ASSUME NEW u \in Tasks, proc[u] = p PROVE Global(u)' = g
  <2>1. proc'[u] = p /\ Global(u) = g
    BY <1>1, <1>5, <1>8
  <2>2. CASE logfd[p] = LOGD_FD
    BY <1>6, <1>7, <1>8, <2>1, <2>2, Constants DEF Global
  <2>3. CASE logfd[p] # LOGD_FD
    BY <1>6, <1>8, <2>1, <2>3 DEF Global
  <2> QED BY <2>2, <2>3
<1>9. ASSUME NEW u \in Tasks, state[u] = "live", proc[u] = p
      PROVE  /\ ConnOf(u)' = ConnOf(u) \/ Unsent(u, ConnOf(u)')
             /\ ctxfd[u] = LOGD_FD => Global(u)' = ConnOf(u)' \/ Unsent(u, Global(u)')
  <2>1. proc'[u] = p /\ ctxfd'[u] = ctxfd[u] /\ Global(u) = g /\ Global(u)' = g /\ Following(u)
    BY <1>1, <1>5, <1>8, <1>9 DEF DInv
  <2>2. CASE ctxfd[u] # LOGD_FD
    <3>1. ConnOf(u)' = ConnOf(u)
      BY <1>6, <1>9, <2>1, <2>2 DEF ConnOf
    <3> QED BY <2>2, <3>1
  <2>3. CASE ctxfd[u] = LOGD_FD
    <3>1. ConnOf(u)' = fdtab'[p][LOGD_FD] /\ ConnOf(u) = fdtab[p][LOGD_FD]
      BY <1>9, <2>1, <2>3, Constants DEF ConnOf
    <3>2. ConnOf(u) = g \/ Unsent(u, g)
      BY <2>1, <2>3 DEF Following
    <3>3. CASE g = None
      <4>1. Unsent(u, g)
        BY <3>3, Constants DEF Unsent
      <4> QED BY <1>7, <2>1, <3>1, <3>3, <4>1
    <3>4. CASE g # None
      BY <1>7, <2>1, <3>1, <3>2, <3>4
    <3> QED BY <3>3, <3>4
  <2> QED BY <2>2, <2>3
<1>10. Reconnecting(t) => Reconnecting(t)'
  <2> SUFFICES ASSUME Reconnecting(t) PROVE Reconnecting(t)'
    OBVIOUS
  <2>1. Alone(t)'
    BY <1>1 DEF Alone, Reconnecting
  <2>2. Unsent(t, g) /\ g # None
    BY <1>2, <1>5, StartTail DEF Reconnecting
  <2>3. Unsent(t, g)'
    BY <1>1, <2>2, SameUnsent
  <2>4. Global(t)' = g /\ fdtab'[proc'[t]][LOGD_FD] = g
    BY <1>1, <1>4, <1>7, <1>8, <2>2
  <2>5. Unsent(t, Global(t))' /\ Unsent(t, fdtab[proc[t]][LOGD_FD])'
    BY <2>3, <2>4 DEF Unsent
  <2> QED BY <1>3, <2>1, <2>5, StartTail DEF Reconnecting
<1> QED BY <1>1, <1>3, <1>4, <1>6, <1>9, <1>10, FdsOrder

LEMMA CloseOrder ==
  ASSUME AInv, DInv, NEW t \in Tasks, close_logfd(t)
  PROVE  DInv'
<1>1. /\ At(t, "close") /\ Done(t)
      /\ UNCHANGED <<proc, lb, start, nrec, ctxfd, newfd, state, logfd, up, wire>>
      /\ fdtab' = IF logfd[proc[t]] \in Fds THEN [fdtab EXCEPT ![proc[t]][logfd[proc[t]]] = None] ELSE fdtab
  BY DEF close_logfd, task
<1>2. /\ Types /\ state[t] = "live" /\ prog \in Programs /\ todo[t] # << >> /\ todo[t] \in Seq(Step)
      /\ todo[t][1][1] = "close"
  BY <1>1, StepAt DEF AInv
<1>3. PICK p \in Procs : p = proc[t]
  BY <1>1, StepAt
<1>4. /\ \A q \in Procs \ {p} : logfd'[q] = logfd[q] /\ fdtab'[q] = fdtab[q]
      /\ \A f \in Fds : fdtab'[p][f] \in {fdtab[p][f], None}
      /\ logfd'[p] = logfd[p] /\ (logfd[p] \in Fds => fdtab'[p][logfd[p]] = None)
  BY <1>1, <1>2, <1>3 DEF Types
<1>5. ASSUME NEW u \in Tasks, proc[u] = p
      PROVE  ConnOf(u)' \in {ConnOf(u), None} /\ Global(u)' = None
  <2>1. proc'[u] = p /\ ctxfd'[u] = ctxfd[u]
    BY <1>1, <1>5
  <2> QED BY <1>4, <1>5, <2>1 DEF ConnOf, Global
<1>6. \A u : Unsent(u, None) /\ Unsent(u, None)'
  BY Constants DEF Unsent
<1>7. todo'[t] = Tail(todo[t]) /\ \A u \in Tasks \ {t} : todo'[u] = todo[u]
  BY <1>1, <1>2 DEF Done, Types
<1>8. ASSUME Starts(todo'[t]) PROVE Silent(t) \/ Reconnecting(t)'
  <2>1. CASE todo[t] = Close
    <3>1. Starts(Close) /\ todo'[t] = NewFd
      BY <1>7, <2>1, StartTail
    <3>2. Silent(t) \/ Reconnecting(t)
      BY <1>1, <2>1, <3>1, StartAt
    <3>3. ASSUME Reconnecting(t) PROVE Reconnecting(t)'
      <4>1. Alone(t)'
        BY <1>1, <3>3 DEF Alone, Reconnecting
      <4>2. PICK e, d : e = fdtab[p][LOGD_FD] /\ d = fdtab'[p][LOGD_FD] /\ d \in {e, None}
        BY <1>4, Constants
      <4>3. Unsent(t, e)
        BY <1>3, <2>1, <3>3, <4>2, StartTail DEF Reconnecting
      <4>4. Unsent(t, d)'
        BY <1>1, <1>6, <4>2, <4>3, SameUnsent
      <4>5. Unsent(t, Global(t))' /\ Unsent(t, fdtab[proc[t]][LOGD_FD])'
        <5>1. Global(t)' = None /\ fdtab'[proc'[t]][LOGD_FD] = d
          BY <1>1, <1>3, <1>5, <4>2
        <5> QED BY <1>6, <4>4, <5>1 DEF Unsent
      <4> QED BY <3>1, <4>1, <4>5, StartTail DEF Reconnecting
    <3> QED BY <3>2, <3>3
  <2>2. CASE Exits(todo[t])
    BY <1>2, <1>7, <1>8, <2>2, DoneList
  <2> QED BY <1>1, <2>1, <2>2, AtStart
<1>9. \A u \in Tasks : state[u] = "live" /\ proc[u] = proc[t] =>
           /\ ConnOf(u)' \in {ConnOf(u), None} \/ Unsent(u, ConnOf(u)')
           /\ ctxfd[u] = LOGD_FD => Global(u)' = ConnOf(u)' \/ Unsent(u, Global(u)')
  BY <1>3, <1>5, <1>6
<1> QED BY <1>1, <1>2, <1>3, <1>4, <1>7, <1>8, <1>9, FdsOrder

LEMMA NewFdOrder ==
  ASSUME AInv, DInv, NEW t \in Tasks, logd_init_newfd(t)
  PROVE  DInv'
<1>1. /\ At(t, "newfd") /\ Done(t) /\ logfd' = [logfd EXCEPT ![proc[t]] = newfd[t]]
      /\ UNCHANGED <<proc, lb, start, nrec, ctxfd, newfd, state, fdtab, up, wire>>
  BY DEF logd_init_newfd, task, kernel
<1>2. todo[t] = NewFd /\ Starts(NewFd) /\ Tail(NewFd) = Ctx
  BY <1>1, AtStart, StartTail
<1>3. /\ state[t] = "live" /\ Types /\ proc[t] \in Procs /\ todo'[t] = Ctx
      /\ \A u \in Tasks \ {t} : todo'[u] = todo[u]
      /\ (Silent(t) \/ Reconnecting(t))
  BY <1>1, <1>2, StartAt
<1>4. PICK p \in Procs : p = proc[t]
  BY <1>3
<1>5. logfd'[p] \in {LOGD_FD, -1} /\ \A q \in Procs \ {p} : logfd'[q] = logfd[q]
  BY <1>1, <1>3, <1>4 DEF Types
<1>6. PICK e : e = fdtab[p][LOGD_FD]
  OBVIOUS
<1>7. ASSUME NEW u \in Tasks, proc[u] = p
      PROVE  /\ ConnOf(u)' = ConnOf(u) /\ Global(u)' \in {e, None}
             /\ ctxfd[u] = LOGD_FD => ConnOf(u) = e
  <2>1. proc'[u] = p /\ ctxfd'[u] = ctxfd[u] /\ fdtab' = fdtab
    BY <1>1, <1>7
  <2> QED BY <1>5, <1>6, <1>7, <2>1, Constants DEF ConnOf, Global
<1>8. \A u : Unsent(u, None) /\ Unsent(u, None)'
  BY Constants DEF Unsent
<1>9. Reconnecting(t) => Reconnecting(t)'
  <2> SUFFICES ASSUME Reconnecting(t) PROVE Reconnecting(t)'
    OBVIOUS
  <2>1. Alone(t)'
    BY <1>1 DEF Alone, Reconnecting
  <2>2. Unsent(t, e)
    BY <1>2, <1>4, <1>6, StartTail DEF Reconnecting
  <2>3. Unsent(t, e)'
    BY <1>1, <2>2, SameUnsent
  <2>4. Global(t)' \in {e, None} /\ fdtab'[proc'[t]][LOGD_FD] = e /\ logfd'[proc'[t]] \in {LOGD_FD, -1}
    BY <1>1, <1>4, <1>5, <1>6, <1>7
  <2>5. Unsent(t, Global(t))' /\ Unsent(t, fdtab[proc[t]][LOGD_FD])'
    BY <1>8, <2>3, <2>4 DEF Unsent
  <2> QED BY <1>3, <2>1, <2>4, <2>5, StartTail DEF Reconnecting
<1>10. \A u \in Tasks : state[u] = "live" /\ proc[u] = proc[t] =>
           /\ ConnOf(u)' \in {ConnOf(u), None} \/ Unsent(u, ConnOf(u)')
           /\ ctxfd[u] = LOGD_FD => Global(u)' = ConnOf(u)' \/ Unsent(u, Global(u)')
  BY <1>4, <1>7, <1>8
<1> QED BY <1>1, <1>3, <1>4, <1>5, <1>9, <1>10, FdsOrder

LEMMA AllocCtxOrder ==
  ASSUME AInv, DInv, NEW t \in Tasks, alloc_ctx(t)
  PROVE  DInv'
<1>1. /\ At(t, "ctx") /\ Done(t) /\ ctxfd' = [ctxfd EXCEPT ![t] = logfd[proc[t]]] /\ lb' = [lb EXCEPT ![t] = << >>]
      /\ UNCHANGED <<proc, start, nrec, newfd, state, logfd, fdtab, up, wire>>
  BY DEF alloc_ctx, kernel
<1>2. todo[t] = Ctx /\ Starts(Ctx) /\ Tail(Ctx) = <<log(2)>>
  BY <1>1, AtStart, StartTail, StartLists
<1>3. /\ state[t] = "live" /\ Types /\ proc[t] \in Procs /\ todo'[t] = <<log(2)>>
      /\ \A u \in Tasks \ {t} : todo'[u] = todo[u]
      /\ (Silent(t) \/ Reconnecting(t))
  BY <1>1, <1>2, StartAt
<1>4. lb[t] = << >> /\ prog \in Programs
  BY <1>1, <1>2, <1>3, StepAt DEF Listed
<1>5. UNCHANGED lb
  BY <1>1, <1>3, <1>4 DEF Types
<1>6. ~Starts(todo'[t])
  <2>1. <<log(CtlSize)>> \in Seq(Step) /\ Plain(prog, <<log(CtlSize)>>)
    BY <1>4, PlainLists
  <2>2. ~Starts(<<log(CtlSize)>>)
    BY <1>4, <2>1, NotStarts
  <2> QED BY <1>3, <2>2 DEF CtlSize
<1>7. ctxfd'[t] = logfd[proc[t]] /\ \A u \in Tasks \ {t} : ctxfd'[u] = ctxfd[u]
  BY <1>1, <1>3 DEF Types
<1>8. \A u \in Tasks : InOrder(u)'
  BY <1>1, <1>5, SameOrder
<1>9. ASSUME NEW u \in Tasks \ {t}, state'[u] = "live"
      PROVE  /\ state[u] = "live" /\ KeepsFds(u) /\ (Alone(u) => Alone(u)')
             /\ Newest(u)' /\ Following(u)'
  <2>1. state[u] = "live" /\ KeepsFds(u) /\ Newest(u) /\ Following(u)
    BY <1>1, <1>7, <1>9 DEF DInv, KeepsFds
  <2>2. Alone(u) => Alone(u)'
    BY <1>1 DEF Alone
  <2> QED BY <1>1, <2>1, <2>2, SameConns
<1>10. Newest(t)' /\ Following(t)'
  <2>1. CASE Silent(t)
    BY <1>1, <2>1, SilentTask
  <2>2. CASE Reconnecting(t)
    <3>1. PICK e : e = fdtab[proc[t]][LOGD_FD]
      OBVIOUS
    <3>2. Unsent(t, e) /\ logfd[proc[t]] \in {LOGD_FD, -1}
      BY <1>2, <2>2, <3>1, StartTail DEF Reconnecting
    <3>3. ConnOf(t)' \in {e, None} /\ Global(t)' = ConnOf(t)'
      BY <1>1, <1>7, <3>1, <3>2, Constants DEF ConnOf, Global
    <3>4. Newest(t)'
      BY <1>1, <1>3, <3>2, <3>3, NewestFrame DEF DInv
    <3> QED BY <3>3, <3>4 DEF Following
  <2> QED BY <1>3, <2>1, <2>2
<1>11. Joining(t)'
  BY <1>6 DEF Joining
<1> QED BY <1>1, <1>3, <1>8, <1>9, <1>10, <1>11, StepOrder

LEMMA WriteMoves ==
  ASSUME AInv, NEW t \in Tasks, lb_flush_write(t)
  PROVE  \E r : Moved(t, ConnOf(t), r)
<1>1. At(t, "flush") /\ start[t] < Len(lb[t]) /\ ConnOf(t) \in up /\ UNCHANGED <<lb, nrec>>
  BY DEF lb_flush_write
<1>2. PICK c \in Conns : c = ConnOf(t)
  BY <1>1 DEF AInv, Types
<1>3. PICK r \in 1..Len(lb[t]) - start[t] :
        /\ wire' = [wire EXCEPT ![c] = @ \o SubSeq(lb[t], start[t] + 1, start[t] + r)]
        /\ start' = [start EXCEPT ![t] = @ + r]
  BY <1>2 DEF lb_flush_write
<1>4. lb[t] \in Seq(Byte) /\ Len(lb[t]) \in Nat /\ start[t] \in Nat /\ Types
  BY <1>1, StepAt DEF AInv
<1>5. PICK q \in Seq(Byte), m \in Nat, a \in Nat : q = lb[t] /\ m = Len(q) /\ a = start[t]
  BY <1>4
<1>6. r \in Nat \ {0} /\ a + r <= m
  BY <1>1, <1>3, <1>5
<1>7. PICK w : w = SubSeq(q, a + 1, a + r)
  OBVIOUS
<1>8. w \in Seq(Byte) /\ Len(w) = r /\ \A i \in 1..r : w[i] = q[a + i]
  <2>1. \A i \in a+1..a+r : q[i] \in Byte
    BY <1>5, <1>6
  <2>2. a + 1 \in Int /\ a + r \in Int
    BY <1>6
  <2>3. /\ w \in Seq(Byte) /\ Len(w) = IF a + 1 <= a + r THEN (a + r) - (a + 1) + 1 ELSE 0
        /\ \A i \in 1..(a + r) - (a + 1) + 1 : w[i] = q[(a + 1) + i - 1]
    BY <1>7, <2>1, <2>2, SubSeqProperties
  <2>4. a + 1 <= a + r /\ (a + r) - (a + 1) + 1 = r
    BY <1>6
  <2>5. ASSUME NEW i \in 1..r PROVE w[i] = q[a + i]
    <3>1. (a + 1) + i - 1 = a + i
      OBVIOUS
    <3> QED BY <2>3, <2>4, <3>1
  <2> QED BY <2>3, <2>4, <2>5
<1>9. /\ wire'[c] = wire[c] \o w /\ \A d \in Conns \ {c} : wire'[d] = wire[d]
      /\ start'[t] = a + r /\ \A u \in Tasks \ {t} : start'[u] = start[u]
  <2>1. wire' = [wire EXCEPT ![c] = @ \o w] /\ start' = [start EXCEPT ![t] = @ + r]
    BY <1>3, <1>5, <1>7, Zenon
  <2>2. wire \in [Conns -> Seq(Byte)] /\ start \in [Tasks -> Nat] /\ start[t] = a
    BY <1>4, <1>5 DEF Types
  <2> QED BY <2>1, <2>2
<1>10. PICK z \in Seq(Byte), l \in Nat : z = wire[c] /\ l = Len(z)
  BY <1>4 DEF Types
<1>11. PICK y : y = wire'[c]
  OBVIOUS
<1>12. Len(y) = l + r /\ \A i \in 1..l + r : y[i] = IF i <= l THEN z[i] ELSE w[i - l]
  <2>1. y = z \o w
    BY <1>9, <1>10, <1>11
  <2>2. Len(z \o w) = Len(z) + Len(w) /\ \A i \in 1..Len(z) + Len(w) : (z \o w)[i] = IF i <= Len(z) THEN z[i] ELSE w[i - Len(z)]
    BY <1>8, ConcatProperties
  <2> QED BY <1>8, <1>10, <2>1, <2>2
<1>13. \A i \in 1..l : y[i] = z[i]
  <2>1. \A i \in 1..l : i \in 1..l + r /\ i <= l
    BY <1>6
  <2> QED BY <1>12, <2>1
<1>14. ASSUME NEW j \in 1..r PROVE y[l + j] = q[a + j]
  <2>1. l + j \in 1..l+r /\ ~(l + j <= l) /\ (l + j) - l = j
    BY <1>6
  <2> QED BY <1>8, <1>12, <2>1
<1>15. Moved(t, c, r)
  BY <1>1, <1>5, <1>6, <1>9, <1>10, <1>11, <1>12, <1>13, <1>14, Zenon DEF Moved
<1> QED BY <1>2, <1>15

LEMMA WriteOrder ==
  ASSUME AInv, DInv, NEW t \in Tasks, lb_flush_write(t)
  PROVE  DInv'
<1>1. /\ At(t, "flush") /\ ConnOf(t) \in up
      /\ UNCHANGED <<proc, todo, lb, nrec, ctxfd, newfd, state, logfd, fdtab, up, fate, parent, prog>>
  BY DEF lb_flush_write
<1>2. /\ state[t] = "live" /\ proc[t] \in Procs /\ Types /\ prog \in Programs
      /\ todo[t] # << >> /\ todo[t] \in Seq(Step) /\ IsList(prog, todo[t]) /\ todo[t][1][1] = "flush"
  BY <1>1, StepAt DEF AInv
<1>3. PICK c \in Conns : c = ConnOf(t) /\ c \in up
  BY <1>1, <1>2 DEF Types
<1>4. PICK r : Moved(t, c, r)
  BY <1>3, WriteMoves
<1>5. InOrder(t) /\ Following(t) /\ \A d \in Conns \ {c} : Earlier(t, d, c)
  BY <1>2, <1>3 DEF DInv, Newest
<1>6. InOrder(t)' /\ \A d \in Conns \ {c} : Earlier(t, d, c)'
  BY <1>2, <1>4, <1>5, MoveOrder
<1>7. \A u \in Tasks \ {t} : SameTrace(u)
  BY <1>2, <1>4, <1>5, MovedBytes
<1>8. \A u \in Tasks : InOrder(u)'
  BY <1>6, <1>7, TraceFrame DEF DInv
<1>9. \A d \in Conns \ {c} : wire'[d] = wire[d]
  BY <1>4 DEF Moved
<1>10. Clean'
  BY <1>1, <1>3, <1>9 DEF DInv, Clean
<1>11. \A u \in Tasks : ConnOf(u)' = ConnOf(u) /\ Global(u)' = Global(u)
  BY <1>1 DEF ConnOf, Global
<1>12. Newest(t)' /\ Following(t)' /\ Joining(t)'
  <2>1. Newest(t)'
    BY <1>3, <1>6, <1>11 DEF Newest
  <2>2. PICK g : g = Global(t) /\ g = Global(t)'
    BY <1>11
  <2>3. g # c => Unsent(t, g)' = Unsent(t, g)
    BY <1>9 DEF Unsent, Sent
  <2>4. Following(t)'
    BY <1>1, <1>3, <1>5, <1>11, <2>2, <2>3 DEF Following, Unsent
  <2>5. ~Starts(todo'[t])
    <3>1. Plain(prog, todo[t]) \/ Exits(todo[t])
      BY <1>2, ListAt
    <3> QED BY <1>1, <1>2, <3>1, NotStarts
  <2> QED BY <2>1, <2>4, <2>5 DEF Joining
<1>13. ASSUME NEW v \in Tasks \ {t}, state'[v] = "live" PROVE Newest(v)' /\ Following(v)' /\ Joining(v)'
  <2>1. Newest(v) /\ Following(v) /\ Joining(v) /\ SameTrace(v)
    BY <1>1, <1>7, <1>13 DEF DInv
  <2>2. \A d : Unsent(v, d)' <=> Unsent(v, d)
    BY <2>1 DEF Unsent, SameTrace
  <2>3. Newest(v)'
    BY <1>11, <2>1, TraceFrame DEF Newest
  <2>4. PICK g, h : g = Global(v) /\ g = Global(v)' /\ h = fdtab[proc[v]][LOGD_FD] /\ h = fdtab'[proc'[v]][LOGD_FD]
    BY <1>1, <1>11
  <2>5. Following(v)'
    BY <1>1, <1>11, <2>1, <2>2, <2>4 DEF Following, Unsent
  <2>6. (Alone(v) => Alone(v)') /\ (Silent(v) => Silent(v)')
    BY <1>1, <2>2 DEF Alone, Silent
  <2>7. Reconnecting(v) => Reconnecting(v)'
    BY <1>1, <2>2, <2>4, <2>6 DEF Reconnecting, Unsent
  <2> QED BY <1>1, <2>1, <2>3, <2>5, <2>6, <2>7 DEF Joining
<1> QED BY <1>1, <1>8, <1>10, <1>12, <1>13 DEF DInv

(* A task that has logged nothing has no bytes. *)
LEMMA NoBytes ==
  ASSUME NEW u \in Tasks, InOrder(u), nrec[u] = 0
  PROVE  \A c \in Conns : Sent(u, c) = {}
<1>1. 1..0 = {}
  OBVIOUS
<1> QED BY <1>1, OwnedBytes

LEMMA ForkStepOrder ==
  ASSUME AInv, DInv, NEW t \in Tasks, fork_child(t)
  PROVE  DInv'
<1>1. At(t, "fork") /\ Apart(t) /\ Done(t) /\ UNCHANGED <<fate, up, wire, prog>>
  BY DEF fork_child
<1>2. CASE UNCHANGED <<task, logfd, fdtab, parent>>
  BY <1>1, <1>2, FailedOrder DEF task
<1>3. CASE ~(IdleTasks = {} \/ IdleProcs = {})
  <2>1. PICK u \in Tasks : u = MinOf(IdleTasks) /\ state[u] = "idle"
    BY <1>3, Unused
  <2>2. PICK p \in Procs : p = MinOf(IdleProcs) /\ \A v \in Tasks : proc[v] # p
    BY <1>3, Unused
  <2>3. /\ proc'  = [proc EXCEPT ![u] = p] /\ state' = [state EXCEPT ![u] = "live"]
        /\ logfd' = [logfd EXCEPT ![p] = logfd[proc[t]]] /\ fdtab' = [fdtab EXCEPT ![p] = fdtab[proc[t]]]
        /\ ctxfd' = [ctxfd EXCEPT ![u] = logfd[proc[t]]] /\ lb' = [lb EXCEPT ![u] = Record(u, 1, CtlSize)]
        /\ nrec'  = [nrec EXCEPT ![u] = 1] /\ UNCHANGED start
    BY <1>3, <2>1, <2>2 DEF fork_child
  <2>4. /\ state[t] = "live" /\ todo[t] # << >> /\ todo[t] \in Seq(Step) /\ IsList(prog, todo[t])
        /\ prog \in Programs /\ todo[t][1][1] = "fork"
    BY <1>1, StepAt
  <2>5. /\ Types /\ t # u /\ todo[u] = << >> /\ lb[u] = << >> /\ nrec[u] = 0 /\ start[u] <= Len(lb[u])
        /\ InOrder(u) /\ LOGD_FD \in Fds
    BY <2>1, <2>4, Constants DEF AInv, Task, DInv
  <2>6. PICK o \in Procs : o = proc[t] /\ o # p
    BY <1>1, <2>2, StepAt
  <2>7. /\ proc'[u] = p /\ logfd'[p] = logfd[o] /\ fdtab'[p] = fdtab[o] /\ ctxfd'[u] = logfd[o]
        /\ nrec'[u] = 1 /\ lb'[u] = Record(u, 1, 2) /\ todo'[u] = << >>
        /\ \A v \in Tasks \ {u} : /\ proc'[v] = proc[v] /\ state'[v] = state[v] /\ ctxfd'[v] = ctxfd[v]
                                  /\ lb'[v] = lb[v] /\ nrec'[v] = nrec[v]
        /\ \A q \in Procs \ {p} : logfd'[q] = logfd[q] /\ fdtab'[q] = fdtab[q]
        /\ todo'[t] = Tail(todo[t]) /\ \A v \in Tasks \ {t} : todo'[v] = todo[v]
    BY <1>1, <2>3, <2>5, <2>6 DEF Types, Done, CtlSize
  <2>8. ~Starts(todo'[t])
    <3>1. Plain(prog, todo[t])
      BY <2>4, ListAt
    <3>2. ~Starts(Tail(todo[t]))
      BY <2>4, <3>1, DoneList
    <3> QED BY <2>7, <3>2
  <2>9. InOrder(u)'
    <3>1. PICK n \in Nat, s \in Nat \ {0} : n = 1 /\ s = 2
      OBVIOUS
    <3>2. PICK b : b = Record(u, n, s)
      OBVIOUS
    <3>3. Len(b) = s /\ \A k \in 1..s : b[k] = <<u, n, k, s>>
      BY <3>2, RecordType
    <3>4. b = lb'[u]
      BY <2>7, <3>1, <3>2
    <3>5. Len(lb[u]) = 0 /\ \A k \in 1..s : 0 + k = k
      BY <2>5, <3>1
    <3>6. \A k \in 1..s : lb'[u][Len(lb[u]) + k] = <<u, nrec[u] + 1, k, s>>
      <4>1. nrec[u] + 1 = n
        BY <2>5, <3>1
      <4> QED BY <3>3, <3>4, <3>5, <4>1
    <3>7. Len(lb'[u]) = Len(lb[u]) + s /\ nrec'[u] = nrec[u] + 1 /\ s \in 1..PIPE_BUF
      BY <2>5, <2>7, <3>1, <3>3, <3>4, <3>5, Constants
    <3>8. \A i \in 1..Len(lb[u]) : lb'[u][i] = lb[u][i]
      BY <3>5
    <3>9. Appended(u, s)
      BY <2>3, <3>6, <3>7, <3>8 DEF Appended
    <3> QED BY <1>1, <2>5, <3>9, AppendOrder
  <2>10. ASSUME NEW v \in Tasks \ {u} PROVE InOrder(v)'
    <3>1. SameTrace(v)
      BY <1>1, <2>3, <2>7 DEF SameTrace, Sent, Kept
    <3> QED BY <3>1, TraceFrame DEF DInv
  <2>11. Silent(u)
    BY <2>5, NoBytes DEF Silent, Unsent
  <2>12. ASSUME NEW v \in Tasks \ {u}, state'[v] = "live"
         PROVE  /\ state[v] = "live" /\ KeepsFds(v) /\ (Alone(v) => Alone(v)')
                /\ Newest(v)' /\ Following(v)'
    <3>1. state[v] = "live" /\ Newest(v) /\ Following(v) /\ proc[v] \in Procs /\ proc[v] # p
      BY <2>2, <2>7, <2>12, LiveTask DEF DInv
    <3>2. KeepsFds(v)
      BY <2>7, <3>1 DEF KeepsFds
    <3>3. Alone(v) => Alone(v)'
      BY <2>7, <3>1 DEF Alone
    <3> QED BY <1>1, <3>1, <3>2, <3>3, SameConns
  <2>13. Joining(t)'
    BY <2>8 DEF Joining
  <2>14. /\ \A v \in Tasks : InOrder(v)'
         /\ \A v \in Tasks \ {t, u} : state'[v] = "live" => state[v] = "live" /\ proc'[v] = proc[v] /\ todo'[v] = todo[v]
         /\ state[t] = "live" /\ state'[t] = "live" => Newest(t)' /\ Following(t)' /\ Joining(t)'
    BY <2>4, <2>5, <2>7, <2>9, <2>10, <2>12, <2>13
  <2> QED BY <1>1, <2>4, <2>11, <2>12, <2>14, StepOrder
<1> QED BY <1>2, <1>3 DEF fork_child

LEMMA SpawnOrder ==
  ASSUME AInv, DInv, NEW t \in Tasks, spawn(t)
  PROVE  DInv'
<1>1. At(t, "spawn") /\ UNCHANGED <<lb, start, nrec, ctxfd, newfd, logfd, fdtab, up, wire, fate, parent, prog>>
  BY DEF spawn, kernel
<1>2. CASE Done(t) /\ UNCHANGED <<proc, state>>
  BY <1>1, <1>2, FailedOrder
<1>3. CASE ~(IdleTasks = {} \/ Claimed >= prog.conns)
  <2>1. PICK u \in Tasks : u = MinOf(IdleTasks) /\ state[u] = "idle"
    BY <1>3, Unused
  <2>2. /\ proc'  = [proc EXCEPT ![u] = proc[t]] /\ state' = [state EXCEPT ![u] = "live"]
        /\ todo'  = [todo EXCEPT ![t] = Tail(@), ![u] = Socket]
    BY <1>3, <2>1 DEF spawn, Socket
  <2>3. /\ state[t] = "live" /\ todo[t] # << >> /\ todo[t] \in Seq(Step) /\ IsList(prog, todo[t])
        /\ prog \in Programs /\ todo[t][1][1] = "spawn" /\ proc[t] \in Procs
    BY <1>1, StepAt
  <2>4. Types /\ t # u /\ nrec[u] = 0 /\ InOrder(u)
    BY <2>1, <2>3 DEF AInv, Task, DInv
  <2>5. /\ proc'[u] = proc[t] /\ todo'[t] = Tail(todo[t])
        /\ \A v \in Tasks \ {u} : proc'[v] = proc[v] /\ state'[v] = state[v]
        /\ \A v \in Tasks \ {t, u} : todo'[v] = todo[v]
    BY <2>2, <2>4, SMTT(40) DEF Types
  <2>6. ~Starts(todo'[t])
    <3>1. Plain(prog, todo[t])
      BY <2>3, ListAt
    <3>2. ~Starts(Tail(todo[t]))
      BY <2>3, <3>1, DoneList
    <3> QED BY <2>5, <3>2
  <2>7. Silent(u)
    BY <2>4, NoBytes DEF Silent, Unsent
  <2>8. ASSUME NEW v \in Tasks \ {u}, state'[v] = "live"
        PROVE  /\ state[v] = "live" /\ KeepsFds(v) /\ Newest(v)' /\ Following(v)'
               /\ proc[v] # proc[t] => (Alone(v) => Alone(v)')
    <3>1. state[v] = "live" /\ Newest(v) /\ Following(v)
      BY <2>5, <2>8 DEF DInv
    <3>2. KeepsFds(v)
      BY <1>1, <2>5 DEF KeepsFds
    <3>3. proc[v] # proc[t] => (Alone(v) => Alone(v)')
      BY <2>5 DEF Alone
    <3> QED BY <1>1, <3>1, <3>2, <3>3, SameConns
  <2>9. Joining(t)'
    BY <2>6 DEF Joining
  <2>10. /\ \A v \in Tasks : InOrder(v)'
         /\ \A v \in Tasks \ {t, u} : state'[v] = "live" => state[v] = "live" /\ proc'[v] = proc[v] /\ todo'[v] = todo[v]
         /\ state'[t] = "live" => Newest(t)' /\ Following(t)' /\ Joining(t)'
    BY <1>1, <2>4, <2>5, <2>8, <2>9, SameOrder
  <2> QED BY <1>1, <2>3, <2>7, <2>8, <2>10, StepOrder
<1> QED BY <1>2, <1>3 DEF spawn

LEMMA DInit ==
  ASSUME Init
  PROVE  DInv
<1>1. \A t \in Tasks : lb[t] = << >> /\ start[t] = 0 /\ nrec[t] = 0 /\ todo[t] = << >> /\ ctxfd[t] = LOGD_FD
  BY DEF Init
<1>2. prog \in Programs /\ \A c \in Conns : wire[c] = << >>
  BY DEF Init
<1>3. \A t \in Tasks, c \in Conns : Sent(t, c) = {}
  BY <1>2 DEF Sent
<1>4. \A t \in Tasks : Kept(t) = {}
  BY <1>1 DEF Kept
<1>5. ASSUME NEW t \in Tasks PROVE InOrder(t)
  <2>1. Ascending(t)
    BY <1>3, <1>4 DEF Ascending, Earlier
  <2>2. \A b : b \notin Bytes(t)
    BY <1>3, <1>4, BytesAre
  <2>3. Complete(t)
    BY <1>1, <2>2 DEF Complete
  <2> QED BY <2>1, <2>3 DEF InOrder
<1>6. ~Starts(<< >>)
  <2>1. Plain(prog, << >>) /\ << >> \in Seq(Step)
    BY <1>2, PlainLists
  <2> QED BY <1>2, <2>1, NotStarts
<1>7. \A t \in Tasks : Newest(t) /\ Following(t) /\ Joining(t)
  BY <1>1, <1>3, <1>6 DEF Newest, Earlier, Following, Unsent, Joining
<1> QED BY <1>1, <1>2, <1>5, <1>7 DEF DInv, Clean

LEMMA DNext ==
  ASSUME AInv, BInv, CInv, DInv, AInv', Steady, [Next]_vars
  PROVE  DInv'
<1>1. CASE Next
  <2>1. PICK t \in Tasks : Program(t) \/ Library(t)
    BY <1>1 DEF Next
  <2>2. CASE Library(t)
    BY <2>2, AllocOrder, AppendStepOrder, WriteOrder, FailsOrder, FlushedOrder, ForkStepOrder, SpawnOrder,
       ExecOrder, SocketOrder, ConnectOrder, Dup2Order, CloseOrder, NewFdOrder, AllocCtxOrder, EndOrder,
       ExitOrder DEF Library
  <2> QED BY <2>1, <2>2, CallsOrder
<1>2. CASE UNCHANGED vars
  <2>1. UNCHANGED <<prog, proc, todo, lb, start, nrec, ctxfd, newfd, state, logfd, fdtab, fate, up, wire, parent>>
    BY <1>2 DEF vars
  <2>2. \A u \in Tasks : InOrder(u)'
    BY <2>1, SameOrder
  <2>3. ASSUME NEW v \in Tasks, state'[v] = "live" PROVE Newest(v)' /\ Following(v)' /\ Joining(v)'
    <3>1. Newest(v) /\ Following(v) /\ Joining(v) /\ KeepsFds(v) /\ (Alone(v) => Alone(v)')
      BY <2>1, <2>3 DEF DInv, KeepsFds, Alone
    <3> QED BY <2>1, <3>1, SameConns, SameJoining
  <2> QED BY <2>1, <2>2, <2>3 DEF DInv, Clean
<1> QED BY <1>1, <1>2

LEMMA SameProgram ==
  ASSUME [Next]_vars
  PROVE  prog' = prog
BY DEF Next, vars, Program, Library, Call, fork, pthread_create, execve, exit, Return, Begin, lb_alloc_bytes,
       LogAfterFlush, lb_flush_write, lb_flush_fails, lb_flush_done, fork_child, spawn, exec, logd_init_socket,
       logd_init_connect, logd_init_dup2, close_logfd, logd_init_newfd, alloc_ctx, End, real_exit

(* While a task lives, what it has logged is on its connections and in its *)
(* buffer: each byte once, in the order of its records, and a connection   *)
(* before the one that follows it, through flushes, forks, exec, short     *)
(* writes and threads that start, fork and exit while others do.  Short    *)
(* writes and threads together are left out: there a thread's descriptor   *)
(* may be closed in the middle of its lb_flush(), and the exit() that      *)
(* follows flushes its buffer from the beginning again.                     *)
THEOREM NothingLostOrRepeated ==
  Spec => [](~prog.threads \/ ~prog.partial => Conserved)
<1>1. Init => (Steady => DInv)
  BY DInit
<1>2. AInv /\ BInv /\ CInv /\ AInv' /\ (Steady => DInv) /\ [Next]_vars => (Steady => DInv)'
  BY DNext, SameProgram DEF Steady
<1>3. (Steady => DInv) => (~prog.threads \/ ~prog.partial => Conserved)
  BY DEF Steady, DInv, InOrder, Conserved
<1>4. Spec => [](AInv /\ BInv /\ CInv)
  BY BInvariant, CInvariant, PTL
<1> QED BY <1>1, <1>2, <1>3, <1>4, PTL DEF Spec
=============================================================================
