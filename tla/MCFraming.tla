------------------------------ MODULE MCFraming ------------------------------
(* Model checking of Framing: headers of two bytes, so that a write() can  *)
(* cut them, and bodies that are shorter, as long and longer.              *)
EXTENDS Framing

MCTypes == [psqlc |-> {"Q", "D"}, psqls |-> {"Z", "D"}, mysql |-> {"D"},
            fcgi |-> {"B", "D", "O"}]

(* No PostgreSQL message is empty, no MySQL length has a byte whose top    *)
(* bit is set.                                                             *)
MCSizes == [psqlc |-> {1, 2, 3}, psqls |-> {1, 3}, mysql |-> {0, 1, 3}, fcgi |-> {0, 1, 3}]

(* So the run satisfies what the theorems assume. *)
ASSUME MCRegular == Regular

(* Also those. *)
MCAllSizes == [psqlc |-> {0, 1}, psqls |-> {0, 1}, mysql |-> {3, 4}, fcgi |-> {0, 3}]
==============================================================================
