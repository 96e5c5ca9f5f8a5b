------------------------------ MODULE FdTable ------------------------------
(***************************************************************************)
(* The descriptor table vfd_tab of libbtrace.so (trace/vfd.c): which       *)
(* protocol processor (PP) follows a descriptor, and which state (pp_data, *)
(* allocated by pp_init() and freed by pp_shutdown(), trace/protocol.c) it *)
(* works on, through socket(), bind(), accept(), connect(), dup(), dup2(), *)
(* close() and the reuse of descriptor numbers.                            *)
(*                                                                         *)
(* A wrapper calls the kernel and then updates the table (close() the      *)
(* other way round); the threads of a process interleave between the two.  *)
(* dup_vfd() copies an entry and then resets it: the copy is followed by   *)
(* nobody, but keeps the pointer to the state.  vfd_tab_init_one() never   *)
(* clears that pointer, so it may come back to life with the number.       *)
(***************************************************************************)
EXTENDS Naturals, FiniteSets

CONSTANTS
  Threads,
  MaxFd,     \* bound: descriptors are 0..MaxFd
  Servers,   \* PPs of the accepting side
  Clients,   \* PPs of the connecting side
  Stateless, \* PPs whose pp_init() and pp_shutdown() do nothing
  Objs,      \* bound: what malloc() can return
  MaxCalls,  \* bound: calls the program makes
  Nil

Fds    == 0..MaxFd
PPs    == Servers \cup Clients
Files  == 1..MaxFd + 1

ASSUME MaxFdAssumption == MaxFd \in Nat /\ MaxCalls \in Nat
ASSUME PPsAssumption   == Stateless \subseteq PPs /\ Nil \notin PPs \cup Objs \cup Threads \cup Fds

VARIABLES
  ktab,      \* the kernel's table: the open file of a descriptor, or 0
  kfile,     \* the open files: what they are, the PP of their service, the
             \* descriptor they were bound or connected by, and whether a
             \* connect() has failed
  vfd_tab,   \* entries: [pp_dispatcher, pp_data, in_prog, type]
  heap,      \* heap[o]: the PP whose pp_init() allocated o, or Nil if free
  call,      \* call[t]: the second half of the call t is in, or Idle
  calls,     \* history: calls so far, for MaxCalls
  own,       \* history: the object pp_init() made for this descriptor
  lost,      \* history: objects whose descriptor forgot them
  stray      \* history: pp_shutdown() freed what was not its descriptor's

vars == <<ktab, kfile, vfd_tab, heap, call, calls, own, lost, stray>>

ZeroEntry == [pp_dispatcher |-> Nil, pp_data |-> Nil, in_prog |-> 0, type |-> "none"]
Idle      == [op |-> "none", s |-> 0, from |-> 0]
File(kind, svc, via) == [kind |-> kind, svc |-> svc, via |-> via, failed |-> FALSE]
NoFile    == File("free", Nil, Nil)

FreeFds   == {s \in Fds : ktab[s] = 0}
NewFd     == CHOOSE s \in FreeFds : \A q \in FreeFds : s <= q
NewFile   == CHOOSE f \in Files : kfile[f].kind = "free"
KFile(s)  == kfile[ktab[s]]

(* A call begins; after a wild free() nothing can be said any more. *)
Begins(t) == call[t] = Idle /\ ~stray /\ calls < MaxCalls /\ calls' = calls + 1

(* s is open and no call is half way through it: the application may use it. *)
Usable(s) == ktab[s] # 0 /\ \A t \in Threads : call[t].op # "none" => call[t].s # s

-----------------------------------------------------------------------------
(* The table and the state of the PPs *)

(* pp_data is not among the fields that are reset. *)
vfd_tab_init_one(v) ==
  [v EXCEPT !.pp_dispatcher = Nil, !.type = "none", !.in_prog = 0]

(* The entry of s becomes v with dispatcher pp, which keeps no state. *)
WithoutState(s, v, pp) ==
  /\ vfd_tab' = [vfd_tab EXCEPT ![s] = [v EXCEPT !.pp_dispatcher = pp]]
  /\ own' = [own EXCEPT ![s] = Nil]
  /\ lost' = (lost \cup {own[s]}) \ {Nil}
  /\ UNCHANGED heap

(* ... or with state o. *)
WithState(s, v, pp, o) ==
  /\ vfd_tab' = [vfd_tab EXCEPT ![s] = [v EXCEPT !.pp_dispatcher = pp, !.pp_data = o]]
  /\ heap' = [heap EXCEPT ![o] = pp]
  /\ own' = [own EXCEPT ![s] = o]
  /\ lost' = (lost \cup {own[s]}) \ {Nil, o}

(* Mutant: a state that is already there is used again. *)
pp_init_reuses(s, v, pp) ==
  IF pp = Nil \/ pp \in Stateless THEN WithoutState(s, v, pp)
  ELSE \E o \in {o \in Objs : IF v.pp_data = Nil THEN heap[o] = Nil ELSE o = v.pp_data} :
         WithState(s, v, pp, o)

pp_init(s, v, pp) ==
  IF pp = Nil \/ pp \in Stateless THEN WithoutState(s, v, pp)
  ELSE \E o \in {o \in Objs : heap[o] = Nil} : WithState(s, v, pp, o)

(* free(pp_data) if the PP keeps state and the pointer is not NULL. *)
Frees(v) == v.pp_dispatcher \in PPs \ Stateless /\ v.pp_data # Nil

(* Mutant: the state is not freed. *)
pp_shutdown_leaks(s) ==
  LET v == vfd_tab[s]
  IN  /\ own' = [own EXCEPT ![s] = Nil]
      /\ UNCHANGED <<heap, lost, stray>>

pp_shutdown(s) ==
  LET v == vfd_tab[s]
  IN  /\ own' = [own EXCEPT ![s] = Nil]
      /\ IF Frees(v)
         THEN /\ heap' = [heap EXCEPT ![v.pp_data] = Nil]
              /\ lost' = lost \ {v.pp_data}
              /\ stray' = (stray \/ v.pp_data # own[s])
         ELSE UNCHANGED <<heap, lost, stray>>

-----------------------------------------------------------------------------
(* First halves: the kernel *)

(* The kernel opens a file and the call of t goes on to its entry. *)
Opens(t, file, op, from) ==
  /\ Begins(t) /\ FreeFds # {}
  /\ kfile' = [kfile EXCEPT ![NewFile] = file]
  /\ ktab' = [ktab EXCEPT ![NewFd] = NewFile]
  /\ call' = [call EXCEPT ![t] = [op |-> op, s |-> NewFd, from |-> from]]
  /\ UNCHANGED <<vfd_tab, heap, own, lost, stray>>

socket(t) == Opens(t, File("sock", Nil, Nil), "socket", 0)

(* open(), creat(), and each end of pipe(). *)
open(t) == Opens(t, File("file", Nil, Nil), "open", 0)

accept(t, s) ==
  /\ Usable(s) /\ KFile(s).kind = "listen"
  /\ Opens(t, File("conn", KFile(s).svc, NewFd), "accept", s)

(* The file goes when its last descriptor does. *)
Release(s, tab) ==
  LET f == ktab[s]
  IN  IF f # 0 /\ \A q \in Fds : tab[q] # f
      THEN [kfile EXCEPT ![f] = NoFile] ELSE kfile

(* dup(), fcntl(F_DUPFD): the lowest free number. *)
dup(t, s) ==
  /\ Begins(t) /\ Usable(s) /\ FreeFds # {}
  /\ ktab' = [ktab EXCEPT ![NewFd] = ktab[s]]
  /\ call' = [call EXCEPT ![t] = [op |-> "dup", s |-> NewFd, from |-> s]]
  /\ UNCHANGED <<kfile, vfd_tab, heap, own, lost, stray>>

(* dup2(): d is closed in the kernel only. *)
dup2(t, s, d) ==
  /\ Begins(t) /\ Usable(s) /\ (ktab[d] = 0 \/ Usable(d))
  /\ ktab' = [ktab EXCEPT ![d] = ktab[s]]
  /\ kfile' = Release(d, ktab')
  /\ call' = [call EXCEPT ![t] = [op |-> "dup", s |-> d, from |-> s]]
  /\ UNCHANGED <<vfd_tab, heap, own, lost, stray>>

-----------------------------------------------------------------------------
(* Second halves: the table *)

Ends(t, ops) == call[t].op \in ops /\ call' = [call EXCEPT ![t] = Idle] /\ UNCHANGED calls

OpenEnd(t) ==
  LET s == call[t].s
  IN  /\ Ends(t, {"socket", "open"})
      /\ vfd_tab' = [vfd_tab EXCEPT ![s] = [vfd_tab_init_one(@) EXCEPT !.type = call[t].op]]
      /\ UNCHANGED <<ktab, kfile, heap, own, lost, stray>>

(* Mutant: the dispatcher of the listening descriptor is inherited, as in  *)
(* an earlier version of accept().                                         *)
AcceptEnd_inherits(t) ==
  LET s == call[t].s
  IN  /\ Ends(t, {"accept"})
      /\ pp_init(s, [vfd_tab_init_one(vfd_tab[s]) EXCEPT !.type = "socket"],
                 vfd_tab[call[t].from].pp_dispatcher)
      /\ UNCHANGED <<ktab, kfile, stray>>

(* pp_id_bind() looks at the local address of the new connection. *)
AcceptEnd(t) ==
  LET s == call[t].s
  IN  /\ Ends(t, {"accept"})
      /\ pp_init(s, [vfd_tab_init_one(vfd_tab[s]) EXCEPT !.type = "socket"], KFile(s).svc)
      /\ UNCHANGED <<ktab, kfile, stray>>

(* Mutant: dup2() marks the entry and leaves the rest of it. *)
dup_vfd_marks_only(t) ==
  LET s == call[t].s
  IN  /\ Ends(t, {"dup"})
      /\ vfd_tab' = [vfd_tab EXCEPT ![s].type = "dup"]
      /\ own' = [own EXCEPT ![s] = Nil]
      /\ lost' = (lost \cup {own[s]}) \ {Nil}
      /\ kfile' = [kfile EXCEPT ![ktab[s]].via = IF @ = s THEN Nil ELSE @]
      /\ UNCHANGED <<ktab, heap, stray>>

(* "same dispatcher, data, etc": but the dispatcher is reset, and what the *)
(* entry of s held before is forgotten.                                    *)
dup_vfd(t) ==
  LET s == call[t].s
      v == vfd_tab_init_one(vfd_tab[call[t].from])
  IN  /\ Ends(t, {"dup"})
      /\ vfd_tab' = [vfd_tab EXCEPT ![s] = [v EXCEPT !.type = "dup"]]
      /\ own' = [own EXCEPT ![s] = Nil]
      /\ lost' = (lost \cup {own[s]}) \ {Nil}
      /\ kfile' = [kfile EXCEPT ![ktab[s]].via = IF @ = s THEN Nil ELSE @]
      /\ UNCHANGED <<ktab, heap, stray>>

-----------------------------------------------------------------------------
(* bind(), connect() *)

(* real_bind() succeeds; listen() changes nothing here. *)
bind(t, s, svc) ==
  /\ Begins(t) /\ Usable(s) /\ KFile(s).kind = "sock"
  /\ kfile' = [kfile EXCEPT ![ktab[s]] = File("listen", svc, s)]
  /\ vfd_tab' = [vfd_tab EXCEPT ![s].pp_dispatcher = svc]
  /\ UNCHANGED <<ktab, heap, call, own, lost, stray>>

(* connect_event(): the PP of the peer's address.  If the connect() has    *)
(* failed there is no peer, and raddr is whatever was on the stack.        *)
connect_event(s, file) ==
  \E pp \in IF file.kind = "conn" THEN {file.svc} ELSE Clients \cup {Nil} :
    pp_init(s, [vfd_tab[s] EXCEPT !.in_prog = 0], pp)

(* real_connect() succeeds at once. *)
connect(t, s, svc) ==
  LET file == [KFile(s) EXCEPT !.kind = "conn", !.svc = svc, !.via = s]
  IN  /\ Begins(t) /\ Usable(s) /\ KFile(s).kind \in {"sock", "failed"}
      /\ kfile' = [kfile EXCEPT ![ktab[s]] = file]
      /\ connect_event(s, file)
      /\ UNCHANGED <<ktab, call, stray>>

(* ... or is in progress. *)
connect_in_progress(t, s, svc) ==
  /\ Begins(t) /\ Usable(s) /\ KFile(s).kind \in {"sock", "failed"}
  /\ kfile' = [kfile EXCEPT ![ktab[s]] =
                [@ EXCEPT !.kind = "pending", !.svc = svc, !.via = s]]
  /\ vfd_tab' = [vfd_tab EXCEPT ![s].in_prog = 1]
  /\ UNCHANGED <<ktab, heap, call, own, lost, stray>>

(* The kernel makes the connection, or gives it up. *)
Connected(f, kind) ==
  /\ kfile[f].kind = "pending"
  /\ kfile' = [kfile EXCEPT ![f].kind = kind, ![f].failed = @ \/ kind = "failed"]
  /\ UNCHANGED <<ktab, vfd_tab, heap, call, calls, own, lost, stray>>

(* select() or poll() reports s: "maybe a connect event". *)
select(t, s) ==
  /\ Begins(t) /\ Usable(s) /\ KFile(s).kind # "pending" /\ vfd_tab[s].in_prog = 1
  /\ connect_event(s, KFile(s))
  /\ UNCHANGED <<ktab, kfile, call, stray>>

-----------------------------------------------------------------------------
(* close(): the table first *)

close(t, s) ==
  LET v == vfd_tab[s]
  IN  /\ Begins(t) /\ Usable(s)
      /\ vfd_tab' = [vfd_tab EXCEPT ![s] = [ZeroEntry EXCEPT !.pp_data = IF Frees(v) THEN Nil ELSE v.pp_data]]
      /\ pp_shutdown(s)
      /\ call' = [call EXCEPT ![t] = [op |-> "close", s |-> s, from |-> 0]]
      /\ UNCHANGED <<ktab, kfile>>

(* real_close() *)
CloseEnd(t) ==
  LET s == call[t].s
  IN  /\ Ends(t, {"close"})
      /\ ktab' = [ktab EXCEPT ![s] = 0]
      /\ kfile' = Release(s, ktab')
      /\ UNCHANGED <<vfd_tab, heap, own, lost, stray>>

-----------------------------------------------------------------------------
(* A program starts with descriptor 0: a file, or, when a FastCGI program  *)
(* was exec()ed (BB_EXEC_PATH), a listening socket with a dispatcher that  *)
(* was never initialised.                                                  *)
Init ==
  /\ \E pp \in Servers \cup {Nil} :
       /\ kfile = [f \in Files |->
                     IF f # 1 THEN NoFile
                     ELSE File(IF pp = Nil THEN "file" ELSE "listen", pp, 0)]
       /\ vfd_tab = [s \in Fds |-> IF s # 0 THEN ZeroEntry
                                   ELSE [ZeroEntry EXCEPT !.pp_dispatcher = pp]]
  /\ ktab = [s \in Fds |-> IF s = 0 THEN 1 ELSE 0]
  /\ heap = [o \in Objs |-> Nil] /\ call = [t \in Threads |-> Idle] /\ calls = 0
  /\ own = [s \in Fds |-> Nil] /\ lost = {} /\ stray = FALSE

Thread(t) ==
  \/ socket(t) \/ open(t) \/ OpenEnd(t) \/ AcceptEnd(t) \/ dup_vfd(t) \/ CloseEnd(t)
  \/ \E s \in Fds :
       \/ accept(t, s) \/ dup(t, s) \/ select(t, s) \/ close(t, s)
       \/ \E d \in Fds : dup2(t, s, d)
       \/ \E svc \in Servers \cup {Nil} : bind(t, s, svc)
       \/ \E svc \in Clients \cup {Nil} : connect(t, s, svc) \/ connect_in_progress(t, s, svc)

Next ==
  \/ \E t \in Threads : Thread(t)
  \/ \E f \in Files, kind \in {"conn", "failed"} : Connected(f, kind)

Spec == Init /\ [][Next]_vars

-----------------------------------------------------------------------------
(* Properties *)

Kinds == {"free", "sock", "file", "listen", "pending", "failed", "conn"}

KFiles == [kind : Kinds, svc : PPs \cup {Nil}, via : Fds \cup {Nil}, failed : BOOLEAN]
Entries == [pp_dispatcher : PPs \cup {Nil}, pp_data : Objs \cup {Nil},
            in_prog : {0, 1}, type : {"none", "socket", "open", "dup"}]
Call == [op : {"none", "socket", "open", "accept", "dup", "close"}, s : Fds, from : Fds]

(* Types of vfd_tab, of the kernel's tables and of the heap. *)
TypeOK ==
  /\ ktab \in [Fds -> Files \cup {0}] /\ kfile \in [Files -> KFiles]
  /\ vfd_tab \in [Fds -> Entries] /\ heap \in [Objs -> PPs \cup {Nil}]
  /\ call \in [Threads -> Call] /\ calls \in 0..MaxCalls
  /\ own \in [Fds -> Objs \cup {Nil}] /\ lost \subseteq Objs /\ stray \in BOOLEAN

(* A PP works on its own state: the pp_data of a connection is live, was   *)
(* made by its own PP and belongs to no other descriptor, however numbers  *)
(* are duplicated, closed and used again - until bind() revives a pointer  *)
(* that dup() has left in an entry and close() frees it (stray).           *)
OwnState ==
  ~stray => \A s \in Fds : own[s] # Nil =>
    /\ vfd_tab[s].pp_data = own[s]
    /\ heap[own[s]] # Nil
    /\ \A q \in Fds \ {s} : own[q] # own[s]

(* A connection the application may use is followed by the PP of its       *)
(* service, with a state if that PP needs one, on the descriptor that made *)
(* it, once select() has reported the end of a connect() in progress: the  *)
(* number's earlier life and the calls of other threads do not undo it.    *)
Followed ==
  \A s \in Fds :
    Usable(s) /\ KFile(s).kind = "conn" /\ KFile(s).via = s /\ vfd_tab[s].in_prog = 0
      => /\ vfd_tab[s].pp_dispatcher = KFile(s).svc
         /\ KFile(s).svc \in PPs \ Stateless =>
              own[s] # Nil /\ (~stray => heap[own[s]] = KFile(s).svc)

(* No PP is shown bytes of another service: a descriptor the application   *)
(* may use has the right dispatcher or none, whatever its number was used  *)
(* for before.  After a failed connect() connect_event() has looked at an  *)
(* address that is not there, and may have chosen any.                     *)
NotMisfollowed ==
  \A s \in Fds :
    Usable(s) /\ ~KFile(s).failed /\ vfd_tab[s].in_prog = 0
      => vfd_tab[s].pp_dispatcher \in {Nil, KFile(s).svc}

(* No state is forgotten: what is allocated belongs to an open descriptor, *)
(* or to one that dup2() overwrote or that was connected a second time.    *)
Accounted ==
  ~stray => \A o \in Objs :
    heap[o] # Nil => o \in lost \/ \E s \in Fds : own[s] = o /\ ktab[s] # 0
=============================================================================
