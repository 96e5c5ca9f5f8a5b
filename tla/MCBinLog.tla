------------------------------ MODULE MCBinLog ------------------------------
(* Model checking of BinLog.  Records of one and two bytes in a buffer of   *)
(* four: they fill it up to the last byte, or overfill it by one; a record  *)
(* of five bytes does not fit at all.                                       *)
EXTENDS BinLog

(* A process that forks; write() may be short. *)
Forking == [sizes |-> {1, 2, 5}, partial |-> TRUE, threads |-> FALSE, overlap |-> FALSE,
            tasks |-> 2, procs |-> 2, conns |-> 1, recs |-> 2]

(* A process that execs too, for which there are two connections; its      *)
(* write() is not short, or it has logged one record.                      *)
Execing == {[Forking EXCEPT !.conns = 2, !.partial = FALSE], [Forking EXCEPT !.conns = 2, !.recs = 1]}

(* A process that creates threads, and forks, one at a time. *)
Threaded == [sizes |-> {2}, partial |-> FALSE, threads |-> TRUE, overlap |-> FALSE,
             tasks |-> 3, procs |-> 2, conns |-> 2, recs |-> 0]

MCPrograms == Execing \cup {Forking, Threaded}
=============================================================================
