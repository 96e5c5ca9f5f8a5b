---------------------------- MODULE SelectCache ----------------------------
(***************************************************************************)
(* The cache behind select() and poll() in libbtrace.so (trace/vfd.c), for *)
(* several descriptors and several threads of one process.                 *)
(*                                                                         *)
(* speak_select() reports one event per call.  It first looks for an event *)
(* that was asked for in vsel_data, without the lock, and forgets the one  *)
(* it reports; failing that it calls real_select(), puts everything that   *)
(* is ready into vsel_data under the lock, and reports the first event of  *)
(* the whole cache, asked for or not, which stays there.  read(), write(), *)
(* accept() and close() set and clear the bits of their descriptor.        *)
(*                                                                         *)
(* An fd_set is a word: an FD_CLR outside the lock loads it and stores it  *)
(* back (FdClrLoad, FdClrStore), and what other threads write in between   *)
(* is lost.  Each descriptor is served by one thread.  The bytes of a      *)
(* descriptor are the subject of VirtualRead; here its private buffer      *)
(* either holds bytes the application has not got or does not.             *)
(***************************************************************************)
EXTENDS Naturals, FiniteSets

CONSTANTS
  Threads,
  Own,       \* Own[t]: the descriptors thread t serves
  Buffered,  \* the descriptors whose traffic a protocol processor follows
  Shared,    \* the descriptors other processes accept() or read() from too
  Asks,      \* the sets of events an application passes to select()
  None,      \* no thread, no event
  MaxLeft,   \* bound: reads one refill of the private buffer is good for
  MaxEvents  \* bound: times a descriptor becomes readable

Fds == UNION {Own[t] : t \in Threads}

ASSUME OwnAssumption ==
  /\ Fds \subseteq Nat /\ IsFiniteSet(Fds) /\ Threads # {}
  /\ \A t, u \in Threads : t # u => Own[t] \cap Own[u] = {}
ASSUME SharedAssumption == Buffered \subseteq Fds /\ Shared \subseteq Fds \ Buffered
ASSUME NoneAssumption == None \notin Threads
ASSUME SelectBounds == MaxLeft \in Nat /\ MaxEvents \in Nat

(* The order in which one descriptor's bits are looked at.  The exception  *)
(* set is handled like the other two and is left out.                      *)
VFD_SEL_READ  == 1
VFD_SEL_WRITE == 2
Kinds  == {VFD_SEL_READ, VFD_SEL_WRITE}
Events == Fds \X Kinds

ASSUME AsksAssumption == Asks \subseteq SUBSET Events /\ None \notin Events

(* The events some select() asks for; the others are never seen. *)
Watched == UNION Asks

VARIABLES
  kready,    \* the events real_select() would report
  buf,       \* buf[f]: reads the bytes left in rbuf of f are good for
  vsel_data, \* vsel_data[k]: the fd_set of kind k
  lock,      \* the thread that holds vsel_data.lock, or None
  in_prog,   \* descriptors whose connect() is in progress
  th,        \* the threads, see Idle
  conn,      \* history: descriptors that have been connected again
  inits,     \* history: the threads that have set up f's protocol processor
  raced,     \* history: an unlocked FD_CLR lost an update, or was lost
  arrived    \* history: events so far, for MaxEvents

vars == <<kready, buf, vsel_data, lock, in_prog, th, conn, inits, raced, arrived>>

(* A thread: where it is, the events it asked for, the event it is about   *)
(* to report or has been told of, the word an unlocked FD_CLR has loaded,  *)
(* the bits it still has to set and those it has to clear under the lock.  *)
Idle == [pc |-> "run", asked |-> {}, ev |-> None, word |-> {}, toset |-> {}, toclr |-> {}]

Bits == {e \in Events : e[1] \in vsel_data[e[2]]}

Before(e, f) == e[1] < f[1] \/ (e[1] = f[1] /\ e[2] < f[2])
First(S) == CHOOSE e \in S : \A f \in S : e = f \/ Before(e, f)

(* nfds of the call: descriptors above the largest asked for are not       *)
(* looked at.                                                              *)
Below(asked) == {e \in Events : \E f \in asked : e[1] <= f[1]}

SetBits(S) == [k \in Kinds |-> vsel_data[k] \cup {f \in Fds : <<f, k>> \in S}]
ClrBits(S) == [k \in Kinds |-> vsel_data[k] \ {f \in Fds : <<f, k>> \in S}]

-----------------------------------------------------------------------------
(* The kernel *)

(* Data, a connection or the end of the stream arrives; or a descriptor    *)
(* becomes writable again.                                                 *)
Arrive(e) ==
  /\ e \in Watched \ kready /\ e[1] \notin in_prog
  /\ e[2] = VFD_SEL_READ => arrived < MaxEvents
  /\ arrived' = IF e[2] = VFD_SEL_READ THEN arrived + 1 ELSE arrived
  /\ kready' = kready \cup {e}
  /\ UNCHANGED <<buf, vsel_data, lock, in_prog, th, conn, inits, raced>>

(* A connect() in progress comes to its end. *)
Connected(f) ==
  /\ f \in in_prog /\ <<f, VFD_SEL_WRITE>> \notin kready
  /\ kready' = kready \cup {<<f, VFD_SEL_WRITE>>}
  /\ UNCHANGED <<buf, vsel_data, lock, in_prog, th, conn, inits, raced, arrived>>

(* Another process takes what was there. *)
Steal(f) ==
  /\ f \in Shared /\ <<f, VFD_SEL_READ>> \in kready
  /\ kready' = kready \ {<<f, VFD_SEL_READ>>}
  /\ UNCHANGED <<buf, vsel_data, lock, in_prog, th, conn, inits, raced, arrived>>

-----------------------------------------------------------------------------
(* select() and poll() *)

(* The first scan finds an event that was asked for; FD_CLR loads the      *)
(* word.                                                                   *)
FdClrLoad(t, asked) ==
  /\ th[t].pc = "run" /\ asked \cap Bits # {}
  /\ LET e == First(asked \cap Bits)
     IN  th' = [th EXCEPT ![t] =
                  [@ EXCEPT !.pc = "clr", !.asked = asked, !.ev = e, !.word = vsel_data[e[2]]]]
  /\ UNCHANGED <<kready, buf, vsel_data, lock, in_prog, conn, inits, raced, arrived>>

(* ... and stores it back without the bit.  A thread that is writing the   *)
(* same word under the lock at that time may overwrite the store.          *)
Overwritten(t) ==
  \E u \in Threads \ {t} : \E e \in th[u].toset \cup th[u].toclr : e[2] = th[t].ev[2]

FdClrStore(t) ==
  /\ th[t].pc = "clr" /\ lock = None
  /\ LET e == th[t].ev
     IN  \/ /\ vsel_data' = [vsel_data EXCEPT ![e[2]] = th[t].word \ {e[1]}]
            /\ raced' = (raced \/ vsel_data[e[2]] # th[t].word)
         \/ /\ Overwritten(t)
            /\ raced' = TRUE
            /\ UNCHANGED vsel_data
  /\ th' = [th EXCEPT ![t].pc = "report", ![t].word = {}]
  /\ UNCHANGED <<kready, buf, lock, in_prog, conn, inits, arrived>>

(* The first scan finds nothing: real_select() is called. *)
SelectEnter(t, asked) ==
  /\ th[t].pc = "run" /\ asked \cap Bits = {}
  /\ th' = [th EXCEPT ![t] = [@ EXCEPT !.pc = "insel", !.asked = asked]]
  /\ UNCHANGED <<kready, buf, vsel_data, lock, in_prog, conn, inits, raced, arrived>>

(* real_select() returns the events that are ready, and the lock is taken. *)
SelectWake(t) ==
  /\ th[t].pc = "insel" /\ th[t].asked \cap kready # {} /\ lock = None
  /\ lock' = t
  /\ th' = [th EXCEPT ![t].pc = "update", ![t].toset = th[t].asked \cap kready]
  /\ UNCHANGED <<kready, buf, vsel_data, in_prog, conn, inits, raced, arrived>>

(* real_select() returns 0 or -1. *)
SelectTimeout(t) ==
  /\ th[t].pc = "insel" /\ th[t].asked \cap kready = {} /\ lock = None
  /\ th' = [th EXCEPT ![t] = Idle]
  /\ UNCHANGED <<kready, buf, vsel_data, lock, in_prog, conn, inits, raced, arrived>>

(* Mutant: only the event that is reported is put into the cache. *)
SelectUpdate_first_only(t) ==
  /\ th[t].pc = "update" /\ th[t].toset # {}
  /\ vsel_data' = SetBits({First(th[t].toset)})
  /\ th' = [th EXCEPT ![t].toset = {}]
  /\ UNCHANGED <<kready, buf, lock, in_prog, conn, inits, raced, arrived>>

(* One FD_SET of the loop that copies what real_select() found. *)
SelectUpdate(t) ==
  /\ th[t].pc = "update" /\ th[t].toset # {}
  /\ LET e == First(th[t].toset)
     IN  /\ vsel_data' = SetBits({e})
         /\ th' = [th EXCEPT ![t].toset = @ \ {e}]
  /\ UNCHANGED <<kready, buf, lock, in_prog, conn, inits, raced, arrived>>

(* The first event of the cache is the one to report; its bit stays. *)
SelectFind(t) ==
  /\ th[t].pc = "update" /\ th[t].toset = {}
  /\ lock' = None
  /\ LET S == Bits \cap Below(th[t].asked)
     IN  th' = [th EXCEPT ![t].pc = "report", ![t].ev = IF S = {} THEN None ELSE First(S)]
  /\ UNCHANGED <<kready, buf, vsel_data, in_prog, conn, inits, raced, arrived>>

(* What the caller learns: select() returns the sets with that one event;  *)
(* poll() sets revents if the descriptor is one of ufds.  A caller does    *)
(* not look at an event it did not ask for.                                *)
Return(t) ==
  th' = [th EXCEPT ![t] =
           IF th[t].ev \in th[t].asked THEN [Idle EXCEPT !.pc = "told", !.ev = th[t].ev]
           ELSE Idle]

(* Mutant: a connect() that has ended is left to someone else. *)
SelectReturn_skips_connect(t) ==
  /\ th[t].pc = "report"
  /\ Return(t)
  /\ UNCHANGED <<kready, buf, vsel_data, lock, in_prog, conn, inits, raced, arrived>>

(* "maybe a connect event": in_prog is read without the lock. *)
SelectReturn(t) ==
  /\ th[t].pc = "report"
  /\ IF th[t].ev # None /\ th[t].ev[1] \in in_prog
     THEN th' = [th EXCEPT ![t].pc = "connect"]
     ELSE Return(t)
  /\ UNCHANGED <<kready, buf, vsel_data, lock, in_prog, conn, inits, raced, arrived>>

(* connect_event() says that the connect() has ended before it looks up    *)
(* and initialises the protocol processor, which reads the services files; *)
(* no lock is held, and another thread that meets the event in between     *)
(* goes by in_prog.                                                        *)
connect_event(t) ==
  /\ th[t].pc = "connect"
  /\ in_prog' = in_prog \ {th[t].ev[1]}
  /\ th' = [th EXCEPT ![t].pc = "ident"]
  /\ UNCHANGED <<kready, buf, vsel_data, lock, conn, inits, raced, arrived>>

(* pp_id_connect() and pp_init(), if there is a processor for the peer.    *)
pp_id_connect(t) ==
  /\ th[t].pc = "ident"
  /\ inits' = [inits EXCEPT ![th[t].ev[1]] = @ \cup {t}]
  /\ Return(t)
  /\ UNCHANGED <<kready, buf, vsel_data, lock, in_prog, conn, raced, arrived>>

-----------------------------------------------------------------------------
(* The other calls *)

(* The thread may make call k on f: it runs, or has just been told of it.  *)
Calls(t, f, k) ==
  /\ f \in Own[t] /\ f \notin in_prog
  /\ th[t].pc = "run" \/ (th[t].pc = "told" /\ th[t].ev = <<f, k>>)

(* The call ends with the update of the cache, under the lock. *)
Then(t, toset, toclr) ==
  th' = [th EXCEPT ![t] = [Idle EXCEPT !.pc = "bits", !.toset = toset, !.toclr = toclr]]

(* The entry of f has its protocol processor.  That of a connection made   *)
(* by connect() is there only when some thread has set it up.              *)
Followed(f) == f \in Buffered /\ (f \in conn => inits[f] # {})

(* Mutant: bytes that stay behind in the buffer are not remembered. *)
virtual_read_forgets(t, f) ==
  LET r == <<f, VFD_SEL_READ>>
  IN  /\ Followed(f) /\ Calls(t, f, VFD_SEL_READ)
      /\ \/ buf[f] > 0 /\ buf' = [buf EXCEPT ![f] = @ - 1] /\ UNCHANGED kready
         \/ /\ buf[f] = 0 /\ r \in kready
            /\ \E left \in 0..MaxLeft : buf' = [buf EXCEPT ![f] = left]
            /\ kready' = kready \ {r}
      /\ Then(t, {}, {r})
      /\ UNCHANGED <<vsel_data, lock, in_prog, conn, inits, raced, arrived>>

(* virtual_read(): from the buffer, or from the kernel.  buf_ret() sets    *)
(* the bit while bytes are left, and clears it when none are.              *)
virtual_read(t, f) ==
  LET r == <<f, VFD_SEL_READ>>
  IN  /\ Followed(f) /\ Calls(t, f, VFD_SEL_READ)
      /\ \/ buf[f] > 0 /\ buf' = [buf EXCEPT ![f] = @ - 1] /\ UNCHANGED kready
         \/ /\ buf[f] = 0 /\ r \in kready
            /\ \E left \in 0..MaxLeft : buf' = [buf EXCEPT ![f] = left]
            /\ kready' = kready \ {r}
      /\ IF buf'[f] > 0 THEN Then(t, {r}, {}) ELSE Then(t, {}, {r})
      /\ UNCHANGED <<vsel_data, lock, in_prog, conn, inits, raced, arrived>>

(* real_read() returns -1, nothing is there: the bit stays as it is. *)
virtual_read_nothing(t, f) ==
  /\ Followed(f) /\ Calls(t, f, VFD_SEL_READ)
  /\ buf[f] = 0 /\ <<f, VFD_SEL_READ>> \notin kready
  /\ th' = [th EXCEPT ![t] = Idle]
  /\ UNCHANGED <<kready, buf, vsel_data, lock, in_prog, conn, inits, raced, arrived>>

(* read() without a protocol processor - also while another thread is      *)
(* still looking for it - or accept(): whatever real_read() or             *)
(* real_accept() returns, the bit is cleared.                              *)
plain_read(t, f) ==
  LET r == <<f, VFD_SEL_READ>>
  IN  /\ ~Followed(f) /\ Calls(t, f, VFD_SEL_READ)
      /\ r \in kready \/ f \in Shared
      /\ kready' = kready \ {r}
      /\ Then(t, {}, {r})
      /\ UNCHANGED <<buf, vsel_data, lock, in_prog, conn, inits, raced, arrived>>

(* write(), writev(), send(), sendto(), sendfile(): the descriptor may no  *)
(* longer be writable afterwards.                                          *)
write(t, f) ==
  LET w == <<f, VFD_SEL_WRITE>>
  IN  /\ w \in Watched /\ Calls(t, f, VFD_SEL_WRITE)
      /\ kready' \in {kready, kready \ {w}}
      /\ Then(t, {}, {w})
      /\ UNCHANGED <<buf, vsel_data, lock, in_prog, conn, inits, raced, arrived>>

(* set_readable_cache(), clear_readable_cache() and the FD_CLR of the      *)
(* writing calls, of accept() and of close().                              *)
CacheBits(t) ==
  /\ th[t].pc = "bits" /\ lock = None
  /\ vsel_data' = IF th[t].toset # {} THEN SetBits(th[t].toset) ELSE ClrBits(th[t].toclr)
  /\ th' = [th EXCEPT ![t] = Idle]
  /\ UNCHANGED <<kready, buf, lock, in_prog, conn, inits, raced, arrived>>

(* Mutant: the cache outlives the descriptor. *)
Reconnect_keeps_bits(t, f) ==
  /\ Calls(t, f, VFD_SEL_READ) /\ <<f, VFD_SEL_WRITE>> \in Watched /\ f \notin conn
  /\ buf' = [buf EXCEPT ![f] = 0]
  /\ kready' = kready \ {<<f, k>> : k \in Kinds}
  /\ in_prog' = in_prog \cup {f} /\ conn' = conn \cup {f}
  /\ Then(t, {}, {})
  /\ UNCHANGED <<vsel_data, lock, inits, raced, arrived>>

(* close(), and the number comes back from socket() and a connect() that   *)
(* does not wait.  (The first call of each descriptor only.)               *)
Reconnect(t, f) ==
  /\ Calls(t, f, VFD_SEL_READ) /\ <<f, VFD_SEL_WRITE>> \in Watched /\ f \notin conn
  /\ buf' = [buf EXCEPT ![f] = 0]
  /\ kready' = kready \ {<<f, k>> : k \in Kinds}
  /\ in_prog' = in_prog \cup {f} /\ conn' = conn \cup {f}
  /\ Then(t, {}, {<<f, k>> : k \in Kinds})
  /\ UNCHANGED <<vsel_data, lock, inits, raced, arrived>>

-----------------------------------------------------------------------------
Init ==
  /\ kready = {} /\ buf = [f \in Fds |-> 0] /\ vsel_data = [k \in Kinds |-> {}]
  /\ lock = None /\ in_prog = {} /\ th = [t \in Threads |-> Idle]
  /\ conn = {} /\ inits = [f \in Fds |-> {}] /\ raced = FALSE /\ arrived = 0

OwnAsks(t) == {a \in Asks : a # {} /\ \A e \in a : e[1] \in Own[t]}

(* Steps inside a call: nothing but the lock holds them up. *)
Inside(t) ==
  \/ FdClrStore(t) \/ SelectWake(t) \/ SelectUpdate(t) \/ SelectFind(t)
  \/ SelectReturn(t) \/ connect_event(t) \/ pp_id_connect(t) \/ CacheBits(t)

Serve(t, f) ==
  virtual_read(t, f) \/ virtual_read_nothing(t, f) \/ plain_read(t, f) \/ write(t, f)

Select(t, a) == FdClrLoad(t, a) \/ SelectEnter(t, a)

Kernel ==
  \/ \E e \in Events : Arrive(e)
  \/ \E f \in Fds : Connected(f) \/ Steal(f)

Thread(t) ==
  \/ Inside(t) \/ SelectTimeout(t)
  \/ \E a \in OwnAsks(t) : Select(t, a)
  \/ \E f \in Own[t] : Serve(t, f) \/ Reconnect(t, f)

Next == Kernel \/ \E t \in Threads : Thread(t)

(* Every call goes on, the lock comes round to each thread that waits for  *)
(* it, and select() has a timeout; an application acts on what it was      *)
(* told, and comes back again and again to select() on everything it       *)
(* serves.                                                                 *)
Fairness ==
  \A t \in Threads :
    /\ SF_vars(Inside(t)) /\ WF_vars(SelectTimeout(t))
    /\ WF_vars(th[t].pc = "told" /\ \E f \in Own[t] : Serve(t, f))
    /\ SF_vars(Select(t, (Own[t] \X Kinds) \cap Watched))

Spec == Init /\ [][Next]_vars /\ Fairness

-----------------------------------------------------------------------------
(* Properties *)

Thread_ ==
  [pc : {"run", "clr", "insel", "update", "report", "connect", "ident", "told", "bits"},
   asked : SUBSET Events, ev : Events \cup {None}, word : SUBSET Fds,
   toset : SUBSET Events, toclr : SUBSET Events]

(* Types of the variables of trace/vfd.c's select() cache. *)
TypeOK ==
  /\ kready \subseteq Events /\ buf \in [Fds -> 0..MaxLeft]
  /\ vsel_data \in [Kinds -> SUBSET Fds]
  /\ lock \in Threads \cup {None} /\ in_prog \subseteq Fds
  /\ th \in [Threads -> Thread_]
  /\ conn \subseteq Fds /\ inits \in [Fds -> SUBSET Threads] /\ raced \in BOOLEAN /\ arrived \in 0..MaxEvents

Ready(e) == e \in kready \/ (e[2] = VFD_SEL_READ /\ buf[e[1]] > 0)

(* t is on its way out of a select() that will report e, or has reported   *)
(* it.                                                                     *)
Telling(t, e) ==
  th[t].pc \in {"clr", "report", "connect", "ident", "told"} /\ th[t].ev = e

(* No wakeup is lost: while a buffer holds bytes the application has not   *)
(* got, no select() that asked for the descriptor sleeps, and the next one *)
(* will report it or has just done so - although other descriptors are     *)
(* reported first and other threads report events they did not ask for.    *)
(* It holds until an unlocked FD_CLR of speak_select() races another       *)
(* update of vsel_data.                                                    *)
NoLostWakeup ==
  ~raced => \A t \in Threads : \A f \in Own[t] :
    LET r == <<f, VFD_SEL_READ>>
    IN  buf[f] > 0 =>
          /\ ~(th[t].pc \in {"insel", "update"} /\ r \in th[t].asked)
          /\ r \in Bits \/ Telling(t, r) \/ r \in th[t].toset

(* What select() reports, or would report from its cache, is there: read() *)
(* and write() of the descriptor do not block.  Descriptors that other     *)
(* processes read from are excepted: an event that stays in the cache      *)
(* behind the one that is reported grows stale for them.                   *)
ReadyIsReal ==
  ~raced => \A t \in Threads : \A e \in (Own[t] \ Shared) \X Kinds :
    (e \in Bits /\ e \notin th[t].toclr) \/ (th[t].pc = "told" /\ th[t].ev = e)
      => Ready(e)

(* The end of a connect() passes nobody by.  When select() tells the       *)
(* application of a connected descriptor, its protocol processor has been  *)
(* set up, or another thread that met the event first is doing so; and no  *)
(* thread sets it up a second time.  More cannot be said: connect_event()  *)
(* clears in_prog first (trace/vfd.c:694-697), so the application may be   *)
(* told, and read past the processor, before it is there, and two threads  *)
(* that met the event together each initialise it.                         *)
ConnectSeen ==
  \A t \in Threads :
    /\ th[t].pc = "told" /\ th[t].ev[1] \in conn =>
         LET f == th[t].ev[1]
         IN  /\ f \notin in_prog
             /\ \/ inits[f] # {}
                \/ \E u \in Threads \ {t} : th[u].pc = "ident" /\ th[u].ev[1] = f
    /\ th[t].pc \in {"connect", "ident"} => t \notin inits[th[t].ev[1]]

(* Reporting one event at a time starves nobody: an event that is ready is *)
(* told to the application sooner or later, or the application has         *)
(* consumed it unasked, however often the other descriptors are ready.     *)
Served ==
  \A t \in Threads : \A e \in (Own[t] \X Kinds) \cap Watched :
    Ready(e) ~> (raced \/ ~Ready(e) \/ (th[t].pc = "told" /\ th[t].ev = e))
=============================================================================
