-------------------------------- MODULE Join --------------------------------
(***************************************************************************)
(* The joiner (agg/join.ml, stream_join) composed with processes whose     *)
(* calls write the records it reads: an event driven web server, a backend *)
(* it asks over one connection, and children it forks.                     *)
(*                                                                         *)
(* The joiner designates every process to a request (c_dgn).  It goes by   *)
(* the records alone, in the order of their time stamps (db.ml, ORDER BY   *)
(* ts), so a step that logs a record is a step of the joiner too.  What it *)
(* has to go by are the identities of messages: the sender's PP_MSG_SEND   *)
(* binds (connection, number) to a request, the receiver's PP_MSG_RECV     *)
(* looks it up.  A fake number (fake_msg_id) holds the last request seen   *)
(* on a connection, by either end.                                         *)
(*                                                                         *)
(* write() hands the bytes to the kernel before vwrite_req() logs the      *)
(* PP_MSG_SEND, and a child logs its SYS_FORK when it gets to run.  A      *)
(* designation belongs to a process here (m_pid); its threads, exec() and  *)
(* the streams of dup() and pipe() are left out.                           *)
(***************************************************************************)
EXTENDS Integers, Sequences, FiniteSets

CONSTANTS
  Www,       \* connections from clients to the web server
  Children,  \* processes the web server may fork
  Front, Back, DbConn, \* web server, backend, and the connection between them
  MaxReqs,   \* bound: requests
  Cases      \* what is allowed to happen: "overtake", "latefork", "oldfile",
             \* "pipeline", see the actions

ASSUME CasesAssumption == Cases \subseteq {"overtake", "latefork", "oldfile", "pipeline"}
ASSUME NamesAssumption ==
  /\ Front # Back /\ {Front, Back} \cap Children = {} /\ DbConn \notin Www
  /\ (Www \cup {DbConn}) \cap ({Front, Back} \cup Children) = {}
ASSUME MaxReqsAssumption == MaxReqs \in Nat

Procs == {Front, Back} \cup Children
Conns == Www \cup {DbConn}
Reqs  == 1..MaxReqs
Ids   == 0..MaxReqs + 1

NoRid == -1  \* no request
NoMsg == [req |-> 0, id |-> 0, logged |-> FALSE]

VARIABLES
  \* the program
  asked,     \* requests the clients have sent so far
  open,      \* open[w]: the request being served on w, or 0
  stage,     \* stage[q]: "new", "asked", "answered" or "done"
  inbox,     \* inbox[p]: messages under way to p, a sequence per connection
  next_id,   \* next_id[p][n]: the number of p's next message on n
  pc,        \* where a process is: "idle", "poll", "recv", "work", "write", "forked"
  at,        \* at[p]: the connection and message p is busy with
  work,      \* work[p]: the request p really works for, or 0
  file,      \* file[p]: the file p has open: the request it was opened for, or 0
  \* the joiner
  dgn,       \* c_dgn
  c_conn,    \* c_conn: (connection, message number) -> request
  fake,      \* the entries of c_conn with fake_msg_id
  ffile,     \* ... and of the file a process has open
  rids,      \* genrid_ct
  rid_of     \* history: the identity a request was given

program == <<asked, open, stage, inbox, next_id, pc, at, work, file>>
joiner  == <<dgn, c_conn, fake, ffile, rids, rid_of>>
vars    == <<program, joiner>>

PeerOf(p, n) == IF p = Front THEN Back ELSE Front

-----------------------------------------------------------------------------
(* stream_join() *)

(* Poll(false, fd) *)
JoinPoll(p, n) ==
  /\ dgn' = [dgn EXCEPT ![p] = fake[n]]
  /\ UNCHANGED <<c_conn, fake, ffile, rids, rid_of>>

(* Mutant: every message starts a request. *)
JoinRecv_all_distinguished(p, n, m) ==
  /\ dgn' = [dgn EXCEPT ![p] = rids + 1]
  /\ fake' = [fake EXCEPT ![n] = rids + 1]
  /\ rids' = rids + 1
  /\ rid_of' = IF n \in Www THEN [rid_of EXCEPT ![m.req] = rids + 1] ELSE rid_of
  /\ UNCHANGED <<c_conn, ffile>>

(* MessageRecv: a request head on a distinguished connection starts a      *)
(* path, any other message continues the sender's.                         *)
JoinRecv(p, n, m) ==
  LET arid == IF n \in Www THEN rids + 1 ELSE c_conn[n][m.id]
  IN  /\ dgn' = [dgn EXCEPT ![p] = arid]
      /\ fake' = [fake EXCEPT ![n] = arid]
      /\ rids' = IF n \in Www THEN rids + 1 ELSE rids
      /\ rid_of' = IF n \in Www THEN [rid_of EXCEPT ![m.req] = arid] ELSE rid_of
      /\ UNCHANGED <<c_conn, ffile>>

(* Read(fd), for what the fake number of fd says. *)
JoinRead(p, rid) ==
  /\ dgn' = IF rid = NoRid THEN dgn ELSE [dgn EXCEPT ![p] = rid]
  /\ UNCHANGED <<c_conn, fake, ffile, rids, rid_of>>

(* Mutant: the message is bound to the last request seen on the            *)
(* connection.                                                             *)
JoinSend_fake(p, n, m) ==
  /\ c_conn' = [c_conn EXCEPT ![n][m.id] = fake[n]]
  /\ UNCHANGED <<dgn, fake, ffile, rids, rid_of>>

(* MessageSend *)
JoinSend(p, n, m) ==
  /\ c_conn' = [c_conn EXCEPT ![n][m.id] = dgn[p]]
  /\ UNCHANGED <<dgn, fake, ffile, rids, rid_of>>

(* Open(fd) *)
JoinOpen(p) ==
  /\ ffile' = [ffile EXCEPT ![p] = dgn[p]]
  /\ UNCHANGED <<dgn, c_conn, fake, rids, rid_of>>

(* Fork: handle_fork() copies the parent's designation and descriptors. *)
JoinFork(parent, p) ==
  /\ dgn' = [dgn EXCEPT ![p] = dgn[parent]]
  /\ ffile' = [ffile EXCEPT ![p] = ffile[parent]]
  /\ UNCHANGED <<c_conn, fake, rids, rid_of>>

(* Exit, Abort, Shutdown *)
JoinExit(p) ==
  /\ dgn' = [dgn EXCEPT ![p] = NoRid]
  /\ UNCHANGED <<c_conn, fake, ffile, rids, rid_of>>

-----------------------------------------------------------------------------
(* Reading: select(), then read() *)

(* A client sends a request; one at a time on a connection. *)
Request(w) ==
  /\ open[w] = 0 /\ asked < MaxReqs
  /\ asked' = asked + 1
  /\ open' = [open EXCEPT ![w] = asked + 1]
  /\ inbox' = [inbox EXCEPT ![Front][w] = Append(@, [req |-> asked + 1, id |-> next_id[w][w], logged |-> TRUE])]
  /\ next_id' = [next_id EXCEPT ![w][w] = @ + 1]
  /\ UNCHANGED <<stage, pc, at, work, file, joiner>>

(* A forked child that has not logged yet holds the server up, unless it   *)
(* may be late.                                                            *)
NoLateFork == "latefork" \in Cases \/ \A h \in Children : pc[h] # "forked"

(* select() or poll() reports n (SYS_SELECT, SYS_POLL). *)
Poll(p, n) ==
  /\ pc[p] = "idle" /\ inbox[p][n] # << >> /\ (p = Front => NoLateFork)
  /\ pc' = [pc EXCEPT ![p] = "poll"]
  /\ at' = [at EXCEPT ![p] = [conn |-> n, msg |-> NoMsg]]
  /\ JoinPoll(p, n)
  /\ UNCHANGED <<asked, open, stage, inbox, next_id, work, file>>

(* real_read() brings the message and the processor logs it.  speak_psql() *)
(* and speak_mysql() sleep for 10 microseconds before that, so that the    *)
(* sender logs first; a receiver may still overtake it.                    *)
Recv(p, n) ==
  /\ \/ pc[p] = "poll" /\ at[p].conn = n
     \/ pc[p] = "idle" /\ (p = Front => NoLateFork)
  /\ inbox[p][n] # << >>
  /\ LET m == Head(inbox[p][n])
     IN  /\ m.logged \/ "overtake" \in Cases
         /\ at' = [at EXCEPT ![p] = [conn |-> n, msg |-> m]]
         /\ JoinRecv(p, n, m)
  /\ inbox' = [inbox EXCEPT ![p][n] = Tail(@)]
  /\ pc' = [pc EXCEPT ![p] = "recv"]
  /\ UNCHANGED <<asked, open, stage, next_id, work, file>>

(* read() returns (SYS_READ); the process knows what it works for. *)
ReadEnd(p) ==
  /\ pc[p] = "recv"
  /\ pc' = [pc EXCEPT ![p] = "work"]
  /\ work' = [work EXCEPT ![p] = at[p].msg.req]
  /\ stage' = [stage EXCEPT ![at[p].msg.req] =
                 IF p = Front /\ at[p].conn = DbConn THEN "answered" ELSE @]
  /\ JoinRead(p, fake[at[p].conn])
  /\ UNCHANGED <<asked, open, inbox, next_id, at, file>>

-----------------------------------------------------------------------------
(* Writing: real_write(), then PP_MSG_SEND *)

(* p writes to n; at the other end is a process in to, or a client. *)
Writes(p, n, to) ==
  LET m == [req |-> work[p], id |-> next_id[p][n], logged |-> FALSE]
  IN  /\ pc[p] = "work"
      /\ pc' = [pc EXCEPT ![p] = "write"]
      /\ at' = [at EXCEPT ![p] = [conn |-> n, msg |-> m]]
      /\ next_id' = [next_id EXCEPT ![p][n] = @ + 1]
      /\ inbox' = [q \in Procs |-> IF q \in to THEN [inbox[q] EXCEPT ![n] = Append(@, m)]
                                   ELSE inbox[q]]

DbBusy == \E q \in Reqs : stage[q] = "asked"

(* The web server asks the backend, one question at a time. *)
Ask ==
  /\ Writes(Front, DbConn, {Back}) /\ stage[work[Front]] = "new"
  /\ ~DbBusy \/ "pipeline" \in Cases
  /\ stage' = [stage EXCEPT ![work[Front]] = "asked"]
  /\ UNCHANGED <<asked, open, work, file, joiner>>

Answer ==
  /\ Writes(Back, DbConn, {Front})
  /\ UNCHANGED <<asked, open, stage, work, file, joiner>>

(* The response goes to the client that asked. *)
Respond(w) ==
  /\ Writes(Front, w, {}) /\ open[w] = work[Front] /\ stage[work[Front]] = "answered"
  /\ stage' = [stage EXCEPT ![work[Front]] = "done"]
  /\ open' = [open EXCEPT ![w] = 0]
  /\ UNCHANGED <<asked, work, file, joiner>>

(* A file is kept open across requests only in the case "oldfile". *)
Rest(p) ==
  /\ work' = [work EXCEPT ![p] = 0]
  /\ file' = [file EXCEPT ![p] = IF "oldfile" \in Cases THEN @ ELSE 0]

(* vwrite_req() logs the message, and the process turns to something else. *)
LogSend(p) ==
  LET n == at[p].conn
      m == at[p].msg
  IN  /\ pc[p] = "write"
      /\ pc' = [pc EXCEPT ![p] = "idle"]
      /\ inbox' = [inbox EXCEPT ![PeerOf(p, n)] =
                     [k \in Conns |-> [i \in 1..Len(@[k]) |->
                        IF @[k][i] = m /\ k = n THEN [m EXCEPT !.logged = TRUE] ELSE @[k][i]]]]
      /\ JoinSend(p, n, m)
      /\ Rest(p)
      /\ UNCHANGED <<asked, open, stage, next_id, at>>

-----------------------------------------------------------------------------
(* Files and children *)

OpenFile(p) ==
  /\ pc[p] = "work" /\ file[p] = 0
  /\ file' = [file EXCEPT ![p] = work[p]]
  /\ JoinOpen(p)
  /\ UNCHANGED <<asked, open, stage, inbox, next_id, pc, at, work>>

ReadFile(p) ==
  /\ pc[p] = "work" /\ file[p] # 0
  /\ JoinRead(p, ffile[p])
  /\ UNCHANGED program

(* The web server hands the request to a child and goes on. *)
Fork(h) ==
  /\ pc[Front] = "work" /\ stage[work[Front]] = "new" /\ pc[h] = "idle"
  /\ pc' = [pc EXCEPT ![Front] = "idle", ![h] = "forked"]
  /\ work' = [work EXCEPT ![Front] = 0, ![h] = work[Front]]
  /\ file' = [file EXCEPT ![h] = file[Front],
                          ![Front] = IF "oldfile" \in Cases THEN @ ELSE 0]
  /\ stage' = [stage EXCEPT ![work[Front]] = "done"]
  /\ open' = [w \in Www |-> IF open[w] = work[Front] THEN 0 ELSE open[w]]
  /\ UNCHANGED <<asked, inbox, next_id, at, joiner>>

(* fork_init() and SYS_FORK, in the child. *)
LogFork(h) ==
  /\ pc[h] = "forked"
  /\ pc' = [pc EXCEPT ![h] = "work"]
  /\ JoinFork(Front, h)
  /\ UNCHANGED <<asked, open, stage, inbox, next_id, at, work, file>>

Exit(h) ==
  /\ pc[h] = "work" /\ h \in Children
  /\ pc' = [pc EXCEPT ![h] = "idle"]
  /\ work' = [work EXCEPT ![h] = 0] /\ file' = [file EXCEPT ![h] = 0]
  /\ JoinExit(h)
  /\ UNCHANGED <<asked, open, stage, inbox, next_id, at>>

-----------------------------------------------------------------------------
(* A PostgreSQL server has sent one ReadyForQuery when the connection was  *)
(* made: its messages are one number ahead of the questions.               *)
Init ==
  /\ asked = 0 /\ open = [w \in Www |-> 0] /\ stage = [q \in Reqs |-> "new"]
  /\ inbox = [p \in Procs |-> [n \in Conns |-> << >>]]
  /\ next_id = [p \in Procs \cup Www |-> [n \in Conns |-> IF p = Back THEN 1 ELSE 0]]
  /\ pc = [p \in Procs |-> "idle"]
  /\ at = [p \in Procs |-> [conn |-> DbConn, msg |-> NoMsg]]
  /\ work = [p \in Procs |-> 0] /\ file = [p \in Procs |-> 0]
  /\ dgn = [p \in Procs |-> NoRid]
  /\ c_conn = [n \in Conns |-> [i \in Ids |-> NoRid]]
  /\ fake = [n \in Conns |-> NoRid] /\ ffile = [p \in Procs |-> NoRid]
  /\ rids = 0 /\ rid_of = [q \in Reqs |-> NoRid]

Next ==
  \/ \E w \in Www : Request(w) \/ Respond(w)
  \/ \E p \in Procs : ReadEnd(p) \/ LogSend(p) \/ OpenFile(p) \/ ReadFile(p)
                      \/ \E n \in Conns : Poll(p, n) \/ Recv(p, n)
  \/ Ask \/ Answer
  \/ \E h \in Children : Fork(h) \/ LogFork(h) \/ Exit(h)

Spec == Init /\ [][Next]_vars

-----------------------------------------------------------------------------
(* Properties *)

Rids == Reqs \cup {NoRid}
Msgs == [req : Reqs \cup {0}, id : Ids, logged : BOOLEAN]

(* Types of the joiner's context and of the processes it watches. *)
TypeOK ==
  /\ asked \in 0..MaxReqs /\ open \in [Www -> Reqs \cup {0}]
  /\ stage \in [Reqs -> {"new", "asked", "answered", "done"}]
  /\ \A p \in Procs, n \in Conns : inbox[p][n] \in Seq(Msgs)
  /\ next_id \in [Procs \cup Www -> [Conns -> Nat]]
  /\ pc \in [Procs -> {"idle", "poll", "recv", "work", "write", "forked"}]
  /\ at \in [Procs -> [conn : Conns, msg : Msgs]]
  /\ work \in [Procs -> Reqs \cup {0}] /\ file \in [Procs -> Reqs \cup {0}]
  /\ dgn \in [Procs -> Rids] /\ c_conn \in [Conns -> [Ids -> Rids]]
  /\ fake \in [Conns -> Rids] /\ ffile \in [Procs -> Rids]
  /\ rids \in 0..MaxReqs /\ rid_of \in [Reqs -> Rids]

(* What the project is for: a process that works for a request is          *)
(* designated to that request by the joiner (c_dgn), and to no other,      *)
(* whatever went over the connection before, for the orders of records     *)
(* that Cases admits: a message's sender logs before its receiver, a fork  *)
(* is logged before the parent does anything else, and no file is kept.    *)
Attributed ==
  \A p \in Procs : pc[p] \in {"work", "write"} =>
    \A q \in Reqs : dgn[p] = rid_of[q] <=> q = work[p]

(* Once PP_MSG_SEND is logged, the number of a message under way stands    *)
(* for the sender's request until the receiver has looked it up: the       *)
(* numbers of the two directions of a connection do not collide.           *)
InFlight ==
  \A p \in Procs : \A i \in 1..Len(inbox[p][DbConn]) :
    LET m == inbox[p][DbConn][i]
    IN  m.logged => c_conn[DbConn][m.id] = rid_of[m.req]
=============================================================================
