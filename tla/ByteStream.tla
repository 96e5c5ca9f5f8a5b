----------------------------- MODULE ByteStream -----------------------------
(***************************************************************************)
(* What an application may expect of read() on a connected descriptor, as  *)
(* the kernel provides it: successive connections on one descriptor, each  *)
(* a stream of bytes 1, 2, 3, ... that is delivered in order, without      *)
(* loss, repetition or invention; read() returns 0 only at its end.        *)
(* libbtrace.so interposes on that call and must be invisible: module      *)
(* VirtualRead is shown to implement this specification.                   *)
(***************************************************************************)
EXTENDS Naturals, Sequences

VARIABLES
  conn,      \* which connection the descriptor holds, 0 before the first
  isopen,    \* the descriptor is open
  sent,      \* number of bytes the peer has sent on this connection
  shut,      \* the peer has shut its side down
  received,  \* the bytes read() has returned to the application, in order
  eof        \* read() has returned 0 to the application

bvars == <<conn, isopen, sent, shut, received, eof>>

(* Byte i of connection c. *)
Byte(c, i) == <<c, i>>

(* The first n bytes of connection c. *)
Stream(c, n) == [i \in 1..n |-> Byte(c, i)]

BInit ==
  /\ conn = 0 /\ isopen = FALSE
  /\ sent = 0 /\ shut = FALSE
  /\ received = << >> /\ eof = FALSE

BOpen ==
  /\ ~isopen
  /\ conn' = conn + 1 /\ isopen' = TRUE
  /\ sent' = 0 /\ shut' = FALSE
  /\ received' = << >> /\ eof' = FALSE

BClose ==
  /\ isopen
  /\ isopen' = FALSE
  /\ UNCHANGED <<conn, sent, shut, received, eof>>

BSend ==
  /\ isopen /\ ~shut
  /\ sent' \in Nat /\ sent' > sent
  /\ UNCHANGED <<conn, isopen, shut, received, eof>>

BShut ==
  /\ isopen /\ ~shut
  /\ shut' = TRUE
  /\ UNCHANGED <<conn, isopen, sent, received, eof>>

(* read() returns the next bytes of the stream, at least one. *)
BDeliver ==
  /\ isopen
  /\ LET n == Len(received')
     IN  Len(received) < n /\ n <= sent /\ received' = Stream(conn, n)
  /\ UNCHANGED <<conn, isopen, sent, shut, eof>>

(* read() returns 0: the peer is done and everything was delivered. *)
BEof ==
  /\ isopen /\ shut /\ Len(received) = sent
  /\ eof' = TRUE
  /\ UNCHANGED <<conn, isopen, sent, shut, received>>

BNext == BOpen \/ BClose \/ BSend \/ BShut \/ BDeliver \/ BEof

BSpec == BInit /\ [][BNext]_bvars
=============================================================================
