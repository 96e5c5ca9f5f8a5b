---------------------------- MODULE MCPageFault -----------------------------
(* Model checking of PageFault.  Two threads of a process have a fault each *)
(* and may have both at once; a buffer of two records overflows when pf is  *)
(* behind; the pid is used twice, and the module is loaded twice.           *)
EXTENDS PageFault, TLC

Symmetry == Permutations(Tids)
=============================================================================
