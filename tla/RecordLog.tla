----------------------------- MODULE RecordLog ------------------------------
(***************************************************************************)
(* What traced programs may expect of the log daemon: a file of whole      *)
(* records, into which the records of a connection go in the order they    *)
(* were written, each of them once, interleaved with those of others.      *)
(* Records of a connection that breaks may be missing, but only its last.  *)
(* Module LogD is shown to implement this specification.                   *)
(***************************************************************************)
EXTENDS Naturals, Sequences, FiniteSets

CONSTANT Conns

VARIABLES
  written,  \* how many records were written to a connection
  file      \* the log: <<c, n>> is record n of connection c

rvars == <<written, file>>

(* How many records of c are in the file. *)
InFile(c) == Cardinality({i \in 1..Len(file) : file[i][1] = c})

RInit == written = [c \in Conns |-> 0] /\ file = << >>

RWrite(c) ==
  /\ written' = [written EXCEPT ![c] = @ + 1]
  /\ UNCHANGED file

RLog(c) ==
  /\ InFile(c) < written[c]
  /\ file' = Append(file, <<c, InFile(c) + 1>>)
  /\ UNCHANGED written

RNext == \E c \in Conns : RWrite(c) \/ RLog(c)

RSpec == RInit /\ [][RNext]_rvars
=============================================================================
