--------------------------- MODULE MCVirtualRead ---------------------------
(***************************************************************************)
(* Model checking of VirtualRead: one descriptor, a buffer of a few bytes, *)
(* two connections one after the other.  The state constants are given in  *)
(* the .cfg files; this module adds what only TLC checks.                  *)
(***************************************************************************)
EXTENDS VirtualRead

(* Every byte that is sent reaches the application if it keeps the         *)
(* descriptor open, also through select() and through a PP that wants more *)
(* than a read() brought in (virtual_read(), speak_select()).  The peer    *)
(* sends finitely many bytes, so the application catches up for good.      *)
Delivered == []<>(~isopen \/ Len(received) = sent)
=============================================================================
