-------------------------------- MODULE LogD --------------------------------
(***************************************************************************)
(* The log daemon (logd/logd.c) in socket mode: it accepts connections     *)
(* from traced programs, collects their bytes in one relay buffer per      *)
(* descriptor, and copies every complete record to the log file with its   *)
(* time stamp moved to the daemon's clock.                                 *)
(*                                                                         *)
(* A byte is <<c, n, k, s>>: byte k of the s bytes of record n of          *)
(* connection c.  The first HDR bytes of a record are its header, which    *)
(* tells its size.  The daemon is one thread; one action is one iteration  *)
(* of a loop, so that clients and SIGINT come in between.                  *)
(***************************************************************************)
EXTENDS Integers, Sequences, FiniteSets

CONSTANTS
  HDR,        \* sizeof(logentry_frozen_t)
  RELAY_BUF,  \* bytes in a relay buffer
  MaxRec,     \* bytes in the largest record a client writes
  Hosts,      \* machines that traced programs run on
  NFds,       \* bound: descriptors for clients
  NConns,     \* bound: connections, one after the other or at once
  MaxRecs,    \* bound: records of one connection
  Breakers,   \* connections that may break in the middle of a record
  Stops       \* whether the operator may press Ctrl-C, or the disk be full

ASSUME HdrAssumption   == HDR \in Nat \ {0}
ASSUME SizesAssumption == /\ MaxRec \in Nat /\ MaxRec >= HDR
                          /\ RELAY_BUF \in Nat /\ RELAY_BUF >= MaxRec /\ RELAY_BUF > HDR
ASSUME HostsAssumption == Hosts # {}
ASSUME LogDBounds      == /\ NFds \in Nat /\ NConns \in Nat /\ MaxRecs \in Nat
                          /\ Breakers \subseteq 1..NConns /\ Stops \in BOOLEAN

Conns == 1..NConns
Fds   == 1..NFds
sock  == 0             \* the listening socket, the lowest descriptor of all
NoFd  == -1
NoConn == 0

VARIABLES
  \* the clients and the network
  phase,     \* of a connection: "new", "pending", "up", "closed", "broken"
  host,      \* where its client runs
  nsent,     \* records its client has written
  chan,      \* bytes in flight
  \* the daemon
  peer,      \* the connection behind an open descriptor
  active,    \* active_fd_set without sock
  relay,     \* the first b_end bytes of relay[fd]
  b_end, avail, timediff,
  infd,
  ready,     \* what is left of read_fd_set in this round of select()
  pc,        \* "select", "serve", "out" (transfer_out of transfer_in),
             \* "last" (transfer_out after a disconnect), "exit"
  log        \* what was written to outfd

client == <<phase, host, nsent, chan>>
vars   == <<phase, host, nsent, chan, peer, active, relay, b_end, avail,
            timediff, infd, ready, pc, log>>

NoDiff  == "unset"
Garbage == "garbage"
Zero    == <<0, 0, 0, 0>>

Record(c, n, s) == [k \in 1..s |-> <<c, n, k, s>>]

MinOf(S) == CHOOSE x \in S : \A y \in S : x <= y

-----------------------------------------------------------------------------
(* The clients *)

(* Connections the kernel still keeps a descriptor, or a place, for. *)
Live == {c \in Conns : \/ phase[c] = "pending"
                       \/ \E f \in active : peer[f] = c}

Connect(h) ==
  /\ \E c \in Conns : phase[c] = "new"
  /\ Cardinality(Live) < NFds
  /\ LET c == MinOf({d \in Conns : phase[d] = "new"})
     IN  /\ phase' = [phase EXCEPT ![c] = "pending"]
         /\ host'  = [host EXCEPT ![c] = h]
  /\ UNCHANGED <<nsent, chan, peer, active, relay, b_end, avail, timediff,
                 infd, ready, pc, log>>

(* The client writes a record; read() cuts the stream wherever it likes. *)
Emit(c, s) ==
  /\ phase[c] \in {"pending", "up"} /\ nsent[c] < MaxRecs
  /\ nsent' = [nsent EXCEPT ![c] = @ + 1]
  /\ chan'  = [chan EXCEPT ![c] = @ \o Record(c, nsent[c] + 1, s)]
  /\ UNCHANGED <<phase, host, peer, active, relay, b_end, avail, timediff,
                 infd, ready, pc, log>>

Disconnect(c) ==
  /\ phase[c] = "up"
  /\ phase' = [phase EXCEPT ![c] = "closed"]
  /\ UNCHANGED <<host, nsent, chan, peer, active, relay, b_end, avail, timediff,
                 infd, ready, pc, log>>

(* The client is killed in a write(), or the network fails: the rest of    *)
(* what it wrote does not arrive, and read() returns 0 or -1.              *)
Break(c) ==
  /\ c \in Breakers /\ phase[c] = "up"
  /\ phase' = [phase EXCEPT ![c] = "broken"]
  /\ \E k \in 0..Len(chan[c])-1 : chan' = [chan EXCEPT ![c] = SubSeq(@, 1, k)]
  /\ UNCHANGED <<host, nsent, peer, active, relay, b_end, avail, timediff,
                 infd, ready, pc, log>>

-----------------------------------------------------------------------------
(* main() *)

(* Mutant: a read() that returns 0 is tried again. *)
Ended_never(c) == FALSE

Ended(c) == phase[c] \in {"closed", "broken"} /\ chan[c] = << >>

Select ==
  /\ pc = "select"
  /\ LET s == {f \in active : chan[peer[f]] # << >> \/ Ended(peer[f])}
              \cup (IF \E c \in Conns : phase[c] = "pending" THEN {sock} ELSE {})
     IN  s # {} /\ ready' = s
  /\ pc' = "serve"
  /\ UNCHANGED <<client, peer, active, relay, b_end, avail, timediff, infd, log>>

SelectAgain ==
  /\ pc = "serve" /\ ready = {}
  /\ pc' = "select"
  /\ UNCHANGED <<client, peer, active, relay, b_end, avail, timediff, infd, ready, log>>

(* calloc(): zeroes, but b_end is what it was. *)
fresh_relay(f) == [k \in 1..b_end[f] |-> Zero]

Accept ==
  /\ pc = "serve" /\ sock \in ready
  /\ LET c == MinOf({d \in Conns : phase[d] = "pending"})
         f == MinOf(Fds \ active)
     IN  /\ phase'  = [phase EXCEPT ![c] = "up"]
         /\ peer'   = [peer EXCEPT ![f] = c]
         /\ active' = active \cup {f}
         /\ relay'  = [relay EXCEPT ![f] = fresh_relay(f)]
  /\ ready' = ready \ {sock}
  /\ UNCHANGED <<host, nsent, chan, b_end, avail, timediff, infd, pc, log>>

(* transfer_in() looks for records when it has more than a header. *)
Enough(n) == n > HDR

(* transfer_in() when read() returns r > 0 bytes. *)
transfer_in ==
  /\ pc = "serve" /\ sock \notin ready /\ ready # {}
  /\ LET f == MinOf(ready)
         c == peer[f]
     IN  /\ \E r \in 1..Len(chan[c]) :
              /\ r <= avail[f]
              /\ relay' = [relay EXCEPT ![f] = @ \o SubSeq(chan[c], 1, r)]
              /\ chan'  = [chan EXCEPT ![c] = SubSeq(@, r + 1, Len(@))]
              /\ avail' = [avail EXCEPT ![f] = @ - r]
              /\ b_end' = [b_end EXCEPT ![f] = @ + r]
         /\ IF Enough(b_end'[f])
            THEN pc' = "out" /\ infd' = f /\ UNCHANGED ready
            ELSE pc' = "serve" /\ infd' = NoFd /\ ready' = ready \ {f}
  /\ UNCHANGED <<phase, host, nsent, peer, active, timediff, log>>

(* Mutant: what is left in the buffer is dropped. *)
transfer_in_ends_drops ==
  /\ pc = "serve" /\ sock \notin ready /\ ready # {}
  /\ LET f == MinOf(ready)
     IN  /\ Ended(peer[f]) \/ avail[f] = 0
         /\ active' = active \ {f}
         /\ ready' = ready \ {f}
  /\ UNCHANGED <<client, peer, relay, b_end, avail, timediff, infd, pc, log>>

(* transfer_in() returns 0 or -1: the client is gone, or there was no room *)
(* to read into.                                                           *)
transfer_in_ends ==
  /\ pc = "serve" /\ sock \notin ready /\ ready # {}
  /\ LET f == MinOf(ready)
     IN  /\ Ended(peer[f]) \/ avail[f] = 0
         /\ active' = active \ {f}
         /\ infd' = f
  /\ pc' = "last"
  /\ UNCHANGED <<client, peer, relay, b_end, avail, timediff, ready, log>>

-----------------------------------------------------------------------------
(* transfer_out() *)

(* The header at the front of a buffer is the header of a record. *)
Framed(q) ==
  /\ q[1] # Zero
  /\ \A k \in 1..HDR : q[k] = <<q[1][1], q[1][2], k, q[1][4]>>

(* frozen_size() adds the signed lengths it finds in the header.  When the *)
(* buffer does not start with a header the sum is anything: less than a    *)
(* header, or more than the buffer, which RELAY_BUF + 1 stands for (b_end  *)
(* is compared with an unsigned size, so that a negative sum is as well).  *)
frozen_sizes(q) == IF Framed(q) THEN {q[1][4]} ELSE 0..RELAY_BUF+1

(* record_timediff(): the client's clock, from the record's time stamp. *)
record_timediff(q) == IF Framed(q) THEN host[q[1][1]] ELSE Garbage

diff(f) == IF timediff[f] = NoDiff THEN record_timediff(relay[f]) ELSE timediff[f]

(* Mutant: the room is not given back. *)
transfer_out_keeps_avail ==
  /\ pc \in {"out", "last"} /\ b_end[infd] >= HDR
  /\ \E size \in frozen_sizes(relay[infd]) :
       /\ b_end[infd] >= size
       /\ timediff' = [timediff EXCEPT ![infd] = diff(infd)]
       /\ log' = Append(log, [rec |-> SubSeq(relay[infd], 1, size), diff |-> diff(infd)])
       /\ relay' = [relay EXCEPT ![infd] = SubSeq(@, size + 1, Len(@))]
       /\ b_end' = [b_end EXCEPT ![infd] = @ - size]
  /\ UNCHANGED <<client, peer, active, avail, infd, ready, pc>>

(* Mutant: the record stays at the front of the buffer. *)
transfer_out_repeats ==
  /\ pc \in {"out", "last"} /\ b_end[infd] >= HDR
  /\ \E size \in frozen_sizes(relay[infd]) :
       /\ b_end[infd] >= size
       /\ timediff' = [timediff EXCEPT ![infd] = diff(infd)]
       /\ log' = Append(log, [rec |-> SubSeq(relay[infd], 1, size), diff |-> diff(infd)])
  /\ UNCHANGED <<client, peer, active, relay, b_end, avail, infd, ready, pc>>

(* One iteration that writes a record. *)
transfer_out_record ==
  /\ pc \in {"out", "last"} /\ b_end[infd] >= HDR
  /\ \E size \in frozen_sizes(relay[infd]) :
       /\ HDR <= size /\ size <= b_end[infd]
       /\ timediff' = [timediff EXCEPT ![infd] = diff(infd)]
       /\ log' = Append(log, [rec |-> SubSeq(relay[infd], 1, size), diff |-> diff(infd)])
       /\ relay' = [relay EXCEPT ![infd] = SubSeq(@, size + 1, Len(@))]
       /\ b_end' = [b_end EXCEPT ![infd] = @ - size]
       /\ avail' = [avail EXCEPT ![infd] = @ + size]
  /\ UNCHANGED <<client, peer, active, infd, ready, pc>>

(* One that ends the daemon: write() fails (exit(1)), or the lengths of    *)
(* what is no header let thaw2() or freeze() fail an assertion or fault,   *)
(* as those that add up to less than a header always do.                   *)
transfer_out_exits ==
  /\ pc \in {"out", "last"} /\ b_end[infd] >= HDR
  /\ \E size \in frozen_sizes(relay[infd]) : b_end[infd] >= size
  /\ Stops \/ ~Framed(relay[infd])
  /\ timediff' = [timediff EXCEPT ![infd] = diff(infd)]
  /\ pc' = "exit" /\ active' = {}
  /\ UNCHANGED <<client, peer, relay, b_end, avail, infd, ready, log>>

(* The record is not complete: the clock is looked at all the same. *)
transfer_out_done ==
  /\ pc \in {"out", "last"}
  /\ \/ b_end[infd] < HDR /\ UNCHANGED timediff
     \/ /\ b_end[infd] >= HDR
        /\ \E size \in frozen_sizes(relay[infd]) : b_end[infd] < size
        /\ timediff' = [timediff EXCEPT ![infd] = diff(infd)]
  /\ relay' = IF pc = "last" THEN [relay EXCEPT ![infd] = << >>] ELSE relay
  /\ pc' = "serve" /\ infd' = NoFd /\ ready' = ready \ {infd}
  /\ UNCHANGED <<client, peer, active, b_end, avail, log>>

(* SIGINT: the descriptors are closed, what the buffers hold is gone. *)
sig ==
  /\ Stops /\ pc # "exit"
  /\ pc' = "exit" /\ active' = {}
  /\ UNCHANGED <<client, peer, relay, b_end, avail, timediff, infd, ready, log>>

-----------------------------------------------------------------------------
Init ==
  /\ phase = [c \in Conns |-> "new"]
  /\ host = [c \in Conns |-> CHOOSE h \in Hosts : TRUE]
  /\ nsent = [c \in Conns |-> 0]
  /\ chan = [c \in Conns |-> << >>]
  /\ peer = [f \in Fds |-> NoConn]
  /\ active = {}
  /\ relay = [f \in Fds |-> << >>]
  /\ b_end = [f \in Fds |-> 0]
  /\ avail = [f \in Fds |-> RELAY_BUF]
  /\ timediff = [f \in Fds |-> NoDiff]
  /\ infd = NoFd
  /\ ready = {}
  /\ pc = "select"
  /\ log = << >>

Daemon == \/ Select \/ SelectAgain \/ Accept \/ transfer_in \/ transfer_in_ends
          \/ transfer_out_record \/ transfer_out_exits \/ transfer_out_done

Next ==
  \/ \E h \in Hosts : Connect(h)
  \/ \E c \in Conns, s \in HDR..MaxRec : Emit(c, s)
  \/ \E c \in Conns : Disconnect(c) \/ Break(c)
  \/ Daemon
  \/ sig

(* The daemon is scheduled; nothing is assumed of the clients. *)
Spec == Init /\ [][Next]_vars /\ WF_vars(Daemon)

-----------------------------------------------------------------------------
(* Properties *)

DataBytes == {b \in Conns \X (1..MaxRecs) \X (1..MaxRec) \X (HDR..MaxRec) : b[3] <= b[4]}
Bytes == DataBytes \cup {Zero}

(* Every variable has its type; relay holds b_end bytes while allocated. *)
TypeOK ==
  /\ phase \in [Conns -> {"new", "pending", "up", "closed", "broken"}]
  /\ host \in [Conns -> Hosts]
  /\ nsent \in [Conns -> 0..MaxRecs]
  /\ chan \in [Conns -> Seq(DataBytes)]
  /\ peer \in [Fds -> Conns \cup {NoConn}]
  /\ active \subseteq Fds
  /\ relay \in [Fds -> Seq(Bytes)]
  /\ b_end \in [Fds -> 0..RELAY_BUF] /\ avail \in [Fds -> 0..RELAY_BUF]
  /\ \A f \in active : Len(relay[f]) = b_end[f]
  /\ timediff \in [Fds -> Hosts \cup {NoDiff, Garbage}]
  /\ infd \in Fds \cup {NoFd}
  /\ ready \subseteq Fds \cup {sock}
  /\ pc \in {"select", "serve", "out", "last", "exit"}
  /\ log \in Seq([rec : Seq(Bytes), diff : Hosts \cup {NoDiff, Garbage}])

(* Between two calls a relay buffer holds an unfinished record or a bare   *)
(* header (transfer_in() wants more than a header before it calls          *)
(* transfer_out()), and has room for more: read() is never asked for 0     *)
(* bytes, which transfer_in() would take for a disconnect.  Only as long   *)
(* as no connection but the last breaks: a buffer that starts with what    *)
(* another connection left there may fill up and be closed on its client.  *)
RoomToRead ==
  /\ \A f \in Fds : b_end[f] + avail[f] = RELAY_BUF
  /\ pc \in {"select", "serve"} => \A f \in active : avail[f] > 0
  /\ pc = "select" => \A f \in active :
       b_end[f] > HDR => ~(Framed(relay[f]) /\ b_end[f] >= relay[f][1][4])

(* How many records of connection c are in the log. *)
Logged(c) == Cardinality({i \in 1..Len(log) : log[i].rec[1][1] = c})

(* Record n of connection c is <<c, n>>, if it is there from its first to  *)
(* its last byte; anything else is no record of the abstract log.          *)
Whole(r)  == r = Record(r[1][1], r[1][2], r[1][4])
Entry(r)  == IF Whole(r) THEN <<r[1][1], r[1][2]>> ELSE <<0, 0>>

RL == INSTANCE RecordLog WITH
        Conns <- Conns, written <- nsent,
        file <- [i \in 1..Len(log) |-> Entry(log[i].rec)]

(* The log daemon implements RecordLog: the log receives whole records,    *)
(* those of a connection in order, each of them once and none before it    *)
(* was written, whatever descriptor and buffer they went through and       *)
(* however read() cut and mixed the streams.                               *)
RefinesRecordLog == RL!RSpec

(* Once the daemon has let go of a connection that was closed properly,    *)
(* every record of it is in the log.                                       *)
LoggedAtClose ==
  \A c \in Conns :
    (phase[c] = "closed" /\ pc \in {"select", "serve"} /\ \A f \in active : peer[f] # c)
      => Logged(c) = nsent[c]

(* Every record of a program that terminates properly reaches the log, if  *)
(* the daemon goes on.                                                     *)
EventuallyLogged ==
  \A c \in Conns : phase[c] = "closed" ~> Logged(c) = nsent[c] \/ pc = "exit"

(* A record's time stamp is corrected by the difference to the clock of    *)
(* the machine it came from (record_timediff()).                           *)
OwnClock ==
  \A i \in 1..Len(log) : log[i].diff = host[log[i].rec[1][1]]
=============================================================================
