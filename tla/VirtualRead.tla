---------------------------- MODULE VirtualRead ----------------------------
(***************************************************************************)
(* The virtualised read path of libbtrace.so (trace/vfd.c) on one          *)
(* descriptor whose traffic a protocol processor (PP) follows.             *)
(*                                                                         *)
(* read() fills a private buffer from the kernel, shows it to the PP, and  *)
(* gives the application no more than the PP has recognised, so that no    *)
(* read() returns parts of two messages.  Bytes that are already in the    *)
(* buffer are invisible to the kernel's select(), so a private cache of    *)
(* "readable" descriptors answers select() before the kernel does.         *)
(*                                                                         *)
(* The application is sequential (one thread owns the descriptor).  A      *)
(* blocking read() is a read action that is not enabled yet; EAGAIN and    *)
(* EINTR are ReadNothing.  virtual_recv and virtual_recvfrom (flags 0)     *)
(* are the same code as virtual_read, and readv() reads its first vector.  *)
(***************************************************************************)
EXTENDS Integers, Sequences

CONSTANTS
  VBUFSIZE,  \* bytes in rbuf
  MaxNeed,   \* a PP that is shown this many bytes no longer asks for more
  Reselect,  \* the application may select() again before it reads
  MaxLen,    \* bound: largest length the application passes to read()
  MaxSent,   \* bound: bytes the peer sends on one connection
  MaxConns   \* bound: connections the descriptor goes through

ASSUME VbufsizeAssumption == VBUFSIZE \in Nat \ {0}
ASSUME MaxNeedAssumption  == MaxNeed \in Nat \ {0}
ASSUME ReselectAssumption == Reselect \in BOOLEAN
ASSUME BoundsAssumption   == MaxLen \in Nat /\ MaxSent \in Nat /\ MaxConns \in Nat

VARIABLES
  \* the connection and what the application has seen of it
  conn, isopen, sent, shut, received, eof,
  kread,     \* bytes of the connection real_read() has returned so far
  v,         \* the read half of vfd_tab[s]
  pp,        \* the PP: bytes it has consumed, and bytes it was shown when
             \* it last asked for more (0 if it did not)
  readable,  \* FD_ISSET(s, &vsel_data.read)
  app        \* "run", "insel" (blocked in real_select), "told" (select
             \* has reported s readable and no read() has followed yet), or
             \* "aborted" (an assertion of the read path has failed)

vars == <<conn, isopen, sent, shut, received, eof, kread, v, pp, readable, app>>

net   == <<conn, isopen, sent, shut>>

BS == INSTANCE ByteStream WITH
        conn <- conn, isopen <- isopen, sent <- sent, shut <- shut,
        received <- received, eof <- eof

Min(a, b) == IF a <= b THEN a ELSE b

-----------------------------------------------------------------------------
(* The buffer *)

(* rbuf starts as zeroes of the BSS; byte 0 of connection 0 is no byte of   *)
(* any connection.                                                         *)
ZeroVfd ==
  [rbuf |-> [i \in 0..VBUFSIZE-1 |-> BS!Byte(0, 0)],
   rbuflen |-> 0, rbufofs |-> 0, rlastlen |-> 0, tosend |-> 0, ppwantmore |-> 0]

(* Everything is reset but the bytes of rbuf. *)
vfd_tab_init_one(w) ==
  [w EXCEPT !.rbuflen = 0, !.rbufofs = 0, !.rlastlen = 0,
            !.tosend = 0, !.ppwantmore = 0]

(* Mutant: the bytes move, the PP's offset does not. *)
buf_shift_keeps_rbufofs(w) ==
  LET begin  == Min(w.rbufofs, w.rlastlen)
      tomove == w.rbuflen - begin
  IN  [w EXCEPT
        !.rbuf = [i \in 0..VBUFSIZE-1 |->
                    IF i < tomove THEN w.rbuf[i + begin] ELSE w.rbuf[i]],
        !.rbuflen  = @ - begin,
        !.rlastlen = @ - begin]

(* Mutant: the bytes stay where they are. *)
buf_shift_moves_nothing(w) ==
  LET begin  == Min(w.rbufofs, w.rlastlen)
  IN  [w EXCEPT !.rbufofs = @ - begin, !.rbuflen  = @ - begin, !.rlastlen = @ - begin]

(* Drop the bytes that both the PP and the application are done with. *)
buf_shift(w) ==
  LET begin  == Min(w.rbufofs, w.rlastlen)
      tomove == w.rbuflen - begin
  IN  [w EXCEPT
        !.rbuf = [i \in 0..VBUFSIZE-1 |->
                    IF i < tomove THEN w.rbuf[i + begin] ELSE w.rbuf[i]],
        !.rbufofs  = @ - begin,
        !.rbuflen  = @ - begin,
        !.rlastlen = @ - begin]

(* real_read() puts the next r bytes of the connection behind rbuflen. *)
fill(w, r) ==
  [w EXCEPT
    !.rbuf = [i \in 0..VBUFSIZE-1 |->
                IF w.rbuflen <= i /\ i < w.rbuflen + r
                THEN BS!Byte(conn, kread + 1 + i - w.rbuflen) ELSE w.rbuf[i]],
    !.rbuflen = @ + r]

(* What a PP may answer when it is shown amt bytes: -1 for "more", or the   *)
(* number of bytes it consumed.  A PP that asked for more when it saw the   *)
(* first `asked' bytes of a message consumes more than those.  It may claim *)
(* more than the amt bytes it was shown: pp_https_read() looks for the end  *)
(* of a header with strstr(), which does not stop at amt.                   *)
pp_read(amt) ==
  {a \in {-1} \cup 1..VBUFSIZE : IF a = -1 THEN amt < MaxNeed ELSE a > pp.asked}

(* Mutant: whatever the PP says, all of the buffer goes to the application. *)
present_pp_releases_all(w, a) ==
  [w EXCEPT !.rbufofs = IF a < 0 THEN @ ELSE @ + a,
            !.tosend = w.rbuflen - w.rlastlen,
            !.ppwantmore = IF a < 0 THEN 1 ELSE 0]

(* present_pp() when the PP answers a. *)
present_pp(w, a) ==
  IF w.rbuflen = w.rbufofs THEN w
  ELSE IF a < 0
  THEN [w EXCEPT !.tosend = w.rbuflen - w.rlastlen, !.ppwantmore = 1]
  ELSE [w EXCEPT !.rbufofs = @ + a,
                 !.tosend = w.rbufofs + a - w.rlastlen, !.ppwantmore = 0]

(* The PP's own record of that answer. *)
PpAnswers(amt, a) ==
  pp' = IF a < 0 THEN [pp EXCEPT !.asked = amt]
        ELSE [parsed |-> pp.parsed + a, asked |-> 0]

(* Mutant: the cache bit follows tosend, not the bytes in the buffer. *)
buf_ret_clears_early(w, len) ==
  LET out_cando == Min(len, w.tosend)
  IN  /\ received' = received \o
                     [j \in 1..out_cando |-> w.rbuf[w.rlastlen + j - 1]]
      /\ v' = [w EXCEPT !.rlastlen = @ + out_cando, !.tosend = @ - out_cando]
      /\ readable' = (w.tosend # out_cando)

(* buf_ret(): the application gets at most len of the tosend bytes, and    *)
(* the descriptor stays readable while bytes remain in the buffer.         *)
buf_ret(w, len) ==
  LET out_cando == Min(len, w.tosend)
  IN  /\ received' = received \o
                     [j \in 1..out_cando |-> w.rbuf[w.rlastlen + j - 1]]
      /\ v' = [w EXCEPT !.rlastlen = @ + out_cando, !.tosend = @ - out_cando]
      /\ readable' = (w.rlastlen + out_cando # w.rbuflen)

(* The assertions between the PP's answer and the return to the application *)
(* that do not hold by the code right before them: those of virtual_read()  *)
(* and buf_ret() about tosend and rlastlen, and that of read() at its end.  *)
Asserted(w) == w.tosend # 0 /\ w.rlastlen < VBUFSIZE /\ w.rbufofs <= w.rbuflen

(* read() returns to the application, or an assertion fails on the way and  *)
(* the process, with all its descriptors, is gone.                          *)
Return(w, len) ==
  /\ UNCHANGED <<conn, sent, shut, eof>>
  /\ \/ /\ Asserted(w)
        /\ buf_ret(w, len)
        /\ app' = "run"
        /\ UNCHANGED isopen
     \/ /\ ~Asserted(w)
        /\ v' = w
        /\ app' = "aborted" /\ isopen' = FALSE /\ readable' = FALSE
        /\ UNCHANGED received

-----------------------------------------------------------------------------
(* The peer *)

Send ==
  /\ isopen /\ ~shut /\ sent < MaxSent
  /\ sent' = sent + 1
  /\ UNCHANGED <<conn, isopen, shut, received, eof, kread, v, pp, readable, app>>

Shut ==
  /\ isopen /\ ~shut
  /\ shut' = TRUE
  /\ UNCHANGED <<conn, isopen, sent, received, eof, kread, v, pp, readable, app>>

-----------------------------------------------------------------------------
(* The application opens and closes the descriptor *)

(* accept(), or socket() and connect(): a fresh entry and a fresh PP. *)
Accept ==
  /\ ~isopen /\ app # "aborted" /\ conn < MaxConns
  /\ conn' = conn + 1 /\ isopen' = TRUE /\ sent' = 0 /\ shut' = FALSE
  /\ received' = << >> /\ eof' = FALSE /\ kread' = 0
  /\ v' = vfd_tab_init_one(v)
  /\ pp' = [parsed |-> 0, asked |-> 0]
  /\ UNCHANGED <<readable, app>>

(* Mutant: the select() cache survives the descriptor. *)
close_keeps_readable ==
  /\ isopen /\ app # "insel"
  /\ isopen' = FALSE
  /\ v' = [v EXCEPT !.rbufofs = 0, !.rbuflen = 0]
  /\ app' = "run"
  /\ UNCHANGED <<conn, sent, shut, received, eof, kread, pp, readable>>

close ==
  /\ isopen /\ app # "insel"
  /\ isopen' = FALSE
  /\ v' = [v EXCEPT !.rbufofs = 0, !.rbuflen = 0]
  /\ readable' = FALSE
  /\ app' = "run"
  /\ UNCHANGED <<conn, sent, shut, received, eof, kread, pp>>

-----------------------------------------------------------------------------
(* read() *)

Reading == isopen /\ app \in {"run", "told"}

(* Bytes the PP has released are waiting. *)
ReadShort1(len) ==
  /\ Reading /\ v.tosend # 0
  /\ buf_ret(v, len)
  /\ app' = "run"
  /\ UNCHANGED <<net, eof, kread, pp>>

(* The PP can be shown the rest of the buffer. *)
PpCanWork == v.rbufofs < v.rbuflen /\ v.ppwantmore = 0

ReadShort2(len) ==
  /\ Reading /\ v.tosend = 0 /\ PpCanWork
  /\ LET amt == v.rbuflen - v.rbufofs
     IN  \E a \in pp_read(amt) :
           /\ PpAnswers(amt, a)
           /\ Return(present_pp(v, a), len)
  /\ UNCHANGED kread

(* The kernel must be asked; real_read() may return less than it has. *)
MustRefill == Reading /\ v.tosend = 0 /\ ~PpCanWork

(* Mutant: real_read() is asked for a whole buffer. *)
Space_whole_buffer(w) == VBUFSIZE

Space(w) == VBUFSIZE - w.rbuflen

ReadRefill(len) ==
  /\ MustRefill
  /\ LET w == buf_shift(v)
     IN  \E r \in 1..Min(Space(w), sent - kread) :
           LET f == fill(w, r)
               amt == f.rbuflen - f.rbufofs
           IN  /\ kread' = kread + r
               /\ \E a \in pp_read(amt) :
                    /\ PpAnswers(amt, a)
                    /\ Return(present_pp(f, a), len)

(* real_read() returns 0: at the end of the stream, or when it is asked    *)
(* for 0 bytes.                                                            *)
ReadEof ==
  /\ MustRefill
  /\ LET w == buf_shift(v)
     IN  /\ Space(w) = 0 \/ (shut /\ kread = sent)
         /\ v' = w
  /\ eof' = TRUE
  /\ app' = "run"
  /\ UNCHANGED <<net, received, kread, pp, readable>>

(* Mutant: an interrupted real_read() looks like the end. *)
ReadNothing_is_eof ==
  /\ MustRefill /\ kread = sent /\ ~shut /\ Space(buf_shift(v)) > 0
  /\ v' = buf_shift(v) /\ eof' = TRUE
  /\ app' = "run"
  /\ UNCHANGED <<net, received, kread, pp, readable>>

(* real_read() returns -1: nothing is there, or a signal arrived. *)
ReadNothing ==
  /\ MustRefill /\ kread = sent /\ ~shut /\ Space(buf_shift(v)) > 0
  /\ v' = buf_shift(v)
  /\ app' = "run"
  /\ UNCHANGED <<net, received, eof, kread, pp, readable>>

ReadSome == \E len \in 1..MaxLen : ReadShort1(len) \/ ReadShort2(len) \/ ReadRefill(len)

-----------------------------------------------------------------------------
(* select() and poll(), on this descriptor alone *)

Selecting == isopen /\ (app = "run" \/ (Reselect /\ app = "told"))

(* The cache answers, and forgets. *)
SelectCached ==
  /\ Selecting /\ readable
  /\ readable' = FALSE
  /\ app' = "told"
  /\ UNCHANGED <<net, received, eof, kread, v, pp>>

(* The cache has nothing: real_select(). *)
SelectEnter ==
  /\ Selecting /\ ~readable
  /\ app' = "insel"
  /\ UNCHANGED <<net, received, eof, kread, v, pp, readable>>

(* Mutant: real_select() is asked about cached descriptors only. *)
SelectWake_cached_only ==
  /\ app = "insel" /\ readable
  /\ app' = "told"
  /\ UNCHANGED <<net, received, eof, kread, v, pp, readable>>

(* real_select() returns 1: the cache is set, and stays set. *)
SelectWake ==
  /\ app = "insel"
  /\ kread < sent \/ shut
  /\ readable' = TRUE
  /\ app' = "told"
  /\ UNCHANGED <<net, received, eof, kread, v, pp>>

(* real_select() returns 0 or -1: the application does something else. *)
SelectTimeout ==
  /\ app = "insel" /\ kread = sent /\ ~shut
  /\ app' = "run"
  /\ UNCHANGED <<net, received, eof, kread, v, pp, readable>>

-----------------------------------------------------------------------------
Init ==
  /\ conn = 0 /\ isopen = FALSE /\ sent = 0 /\ shut = FALSE
  /\ received = << >> /\ eof = FALSE /\ kread = 0
  /\ v = ZeroVfd
  /\ pp = [parsed |-> 0, asked |-> 0]
  /\ readable = FALSE /\ app = "run"

(* What the running application does with an open descriptor. *)
AppStep == ReadSome \/ ReadEof \/ ReadNothing \/ SelectCached \/ SelectEnter

Next == Send \/ Shut \/ Accept \/ close \/ AppStep \/ SelectWake \/ SelectTimeout

(* The application keeps serving a descriptor it has open, and the kernel  *)
(* wakes a select() whose descriptor is readable.                          *)
Fairness == WF_vars(AppStep) /\ WF_vars(SelectWake)

Spec == Init /\ [][Next]_vars /\ Fairness

-----------------------------------------------------------------------------
(* Properties *)

Bytes == (0..MaxConns) \X (0..MaxSent)

Vfd ==
  [rbuf : [0..VBUFSIZE-1 -> Bytes], rbuflen : 0..VBUFSIZE,
   rbufofs : 0..VBUFSIZE, rlastlen : 0..VBUFSIZE,
   tosend : 0..VBUFSIZE, ppwantmore : {0, 1}]

(* Every variable has its type; in particular no index of vfd_t leaves the  *)
(* buffer while the process runs (read(), buf_shift(), buf_ret()).         *)
TypeOK ==
  /\ conn \in 0..MaxConns /\ isopen \in BOOLEAN
  /\ sent \in 0..MaxSent /\ shut \in BOOLEAN
  /\ received \in Seq(Bytes) /\ eof \in BOOLEAN
  /\ kread \in 0..sent
  /\ pp \in [parsed : Nat, asked : 0..VBUFSIZE]
  /\ readable \in BOOLEAN /\ app \in {"run", "told", "insel", "aborted"}
  /\ IF app = "aborted" THEN ~isopen ELSE v \in Vfd

(* The PP follows the stream: what the buffer holds from rbufofs on, which  *)
(* is what pp_read() is shown, are the bytes of this connection right       *)
(* behind those it has consumed, whatever the shifts, short reads and       *)
(* earlier connections were.                                               *)
PpAligned ==
  isopen => /\ pp.parsed + (v.rbuflen - v.rbufofs) = kread
            /\ \A i \in v.rbufofs..v.rbuflen-1 :
                 v.rbuf[i] = BS!Byte(conn, pp.parsed + 1 + i - v.rbufofs)

(* The assertions of buf_ret(), virtual_read() and read() hold whenever    *)
(* control can be there, with one exception: a PP that claims bytes the    *)
(* kernel has not delivered yet trips the assertion at the end of read(),  *)
(* rbufofs <= rbuflen, in that very call, and nothing else trips any.      *)
BufAsserts ==
  /\ isopen => /\ v.rbufofs <= v.rbuflen
               /\ v.tosend # 0 => v.rlastlen < VBUFSIZE
               /\ v.rlastlen + v.tosend <= v.rbuflen
  /\ app = "aborted" => /\ v.tosend # 0 /\ v.rlastlen < VBUFSIZE
                        /\ pp.parsed > kread

(* No wakeup is lost: while the buffer holds bytes the application has not *)
(* got, its next select() returns at once, or the last one has just told   *)
(* it so.  (set_readable_cache() in buf_ret(), FD_CLR in speak_select().)  *)
NoLostWakeup ==
  isopen /\ v.rlastlen < v.rbuflen => app # "insel" /\ (readable \/ app = "told")

(* A descriptor select() reports, or would report from its cache, is       *)
(* really readable: a blocking read() that follows does not hang.          *)
ReadyIsReal ==
  readable \/ app = "told" =>
    isopen /\ (v.rlastlen < v.rbuflen \/ kread < sent \/ shut)

(* Message isolation, the reason for the buffer: a read() never returns    *)
(* bytes from both sides of a message boundary the PP has found, and the   *)
(* PP never finds one behind bytes that were already returned.             *)
IsolatedStep ==
  conn' = conn =>
    LET lo == Len(received)
        hi == Len(received')
    IN  /\ pp.parsed <= lo \/ hi <= pp.parsed
        /\ pp'.parsed # pp.parsed => lo < pp'.parsed /\ hi <= pp'.parsed

IsolatedReads == [][IsolatedStep]_vars

(* The wrapped read() is the kernel's read(), see module ByteStream: bytes *)
(* of this connection only, in order, all of them, and 0 only at the end.  *)
RefinesByteStream == BS!BSpec
=============================================================================
