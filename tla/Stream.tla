------------------------------- MODULE Stream -------------------------------
(***************************************************************************)
(* What the models of the protocol processors (Framing, Http) have in      *)
(* common.  A side of a connection sends a stream of messages; the bytes   *)
(* are numbered 1, 2, ...  The library shows them to the processor, which  *)
(* keeps a state of its own and logs some of the messages.                 *)
(***************************************************************************)
EXTENDS Integers, Sequences

CONSTANTS
  HDR,        \* bytes in a header
  MaxMsgs     \* bound: messages in a stream

VARIABLES
  stream,     \* the messages the application sends
  inloop,     \* whether vwrite_req() is in its loop
  st,         \* the processor's state of this direction
  heard       \* the messages it has logged: their numbers, 0 for none

Min(a, b) == IF a <= b THEN a ELSE b
=============================================================================
