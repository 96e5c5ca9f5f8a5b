----------------------------- MODULE MCFdTable -----------------------------
EXTENDS FdTable, TLC

(* Threads and addresses are interchangeable. *)
Symmetry == Permutations(Threads) \cup Permutations(Objs)
=============================================================================
