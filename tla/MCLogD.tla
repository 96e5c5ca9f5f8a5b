------------------------------- MODULE MCLogD -------------------------------
(* Model checking of LogD.  Records are told apart by the bytes they are   *)
(* made of; a header of two bytes is the smallest that a read() can split. *)
EXTENDS LogD
=============================================================================
