----------------------------- MODULE MCServices -----------------------------
(* Model checking of Services: two protocols, files of no or one line on   *)
(* the ports 1 and 2 or, for the user's file, of one line for each         *)
(* protocol; connections on those ports and on one that no file lists.     *)
EXTENDS Services

MCProtocols == <<"http", "mysql">>
MCPorts == 1..3

MCLines == [name : {"http", "mysql", "ssh"}, port : 1..2]

MCFiles == {<< >>} \cup [1..1 -> MCLines]

(* Files that list every protocol, in either order. *)
FullFiles == {f \in [1..2 -> MCLines] : \A k \in 1..2 : Hits(f, MCProtocols[k]) # {}}

MCUserFiles == {NoFile} \cup MCFiles \cup FullFiles
=============================================================================
