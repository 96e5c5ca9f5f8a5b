------------------------------ MODULE Services ------------------------------
(***************************************************************************)
(* How libbtrace.so decides which protocol processor follows a connection  *)
(* (pp_id_bind(), pp_id_connect() in trace/protocol.c): it asks            *)
(* getportbyname() (trace/getservice.c) for the port of one protocol after *)
(* the other and takes the first that matches.  Ports come from            *)
(* /etc/services and from the file LIBBTRACE_SERVICES names.               *)
(*                                                                         *)
(* Both files are read into one static struct servent.  mylock is held     *)
(* while a file is searched (one action), and is free when the caller      *)
(* looks at the struct (another action).                                   *)
(***************************************************************************)
EXTENDS Integers, Sequences

CONSTANTS
  Callers,    \* threads that accept() and connect()
  Protocols,  \* names of the protocols, in the order they are asked for
  Ports,      \* ports of the connections
  SysFiles,   \* what /etc/services may hold: sequences of [name, port], where
              \* name is the name or an alias
  UserFiles,  \* what the user's file may hold
  NoFile      \* LIBBTRACE_SERVICES is not set, or the file is not there

Files == SysFiles \cup (UserFiles \ {NoFile})
Lines == UNION {{f[k] : k \in DOMAIN f} : f \in Files}

ASSUME ProtocolsAssumption == Len(Protocols) \in Nat \ {0}
ASSUME PortsAssumption     == Ports \subseteq Nat \ {0}
ASSUME FilesAssumption     == NoFile \notin SysFiles /\ Files \subseteq Seq(Lines)

VARIABLES
  sys, user,  \* the two files
  serv,       \* serv.s_port, the only field a caller uses
  pc,         \* of a caller: "idle", "sys", "user", "answer"
  want,       \* the port of its connection
  i,          \* the protocol it is asking for
  service,    \* whether service is not NULL
  chosen      \* the protocol it has decided on, or 0 for NULL

services_vars == <<sys, user, serv, pc, want, i, service, chosen>>

-----------------------------------------------------------------------------
(* getservice.c *)

Hits(file, name) == {k \in 1..Len(file) : file[k].name = name}

First(S) == CHOOSE k \in S : \A l \in S : k <= l

(* Mutant: the last line of the file is parsed whatever was found. *)
bpgetservbyname_r_reads_on(file, name) ==
  serv' = IF file = NoFile \/ file = << >> THEN serv ELSE file[Len(file)].port

(* The lines are parsed into serv up to the first with that name, or all;  *)
(* there is no struct to parse them into that is the caller's own.         *)
bpgetservbyname_r(file, name) ==
  serv' = IF file = NoFile \/ file = << >> THEN serv
          ELSE IF Hits(file, name) = {} THEN file[Len(file)].port
          ELSE file[First(Hits(file, name))].port

Found(file, name) == file # NoFile /\ Hits(file, name) # {}

(* getportbyname(): the lookup in /etc/services, ... *)
getportbyname_sys(c) ==
  /\ pc[c] = "sys"
  /\ bpgetservbyname_r(sys, Protocols[i[c]])
  /\ service' = [service EXCEPT ![c] = Found(sys, Protocols[i[c]])]
  /\ pc' = [pc EXCEPT ![c] = IF user = NoFile THEN "answer" ELSE "user"]
  /\ UNCHANGED <<sys, user, want, i, chosen>>

(* ... then in the user's file; either result is a pointer to serv. *)
getportbyname_user(c) ==
  /\ pc[c] = "user"
  /\ bpgetservbyname_r(user, Protocols[i[c]])
  /\ service' = [service EXCEPT ![c] = @ \/ Found(user, Protocols[i[c]])]
  /\ pc' = [pc EXCEPT ![c] = "answer"]
  /\ UNCHANGED <<sys, user, want, i, chosen>>

getportbyname(c) == IF service[c] THEN serv ELSE -1

-----------------------------------------------------------------------------
(* protocol.c *)

(* Mutant: a protocol without a port has every port. *)
is_protocol_port_default(c) == getportbyname(c) <= 0 \/ getportbyname(c) = want[c]

is_protocol_port(c) == getportbyname(c) > 0 /\ getportbyname(c) = want[c]

(* accept() or connect() has made a connection. *)
Identify(c, port) ==
  /\ pc[c] = "idle"
  /\ want' = [want EXCEPT ![c] = port]
  /\ i' = [i EXCEPT ![c] = 1]
  /\ chosen' = [chosen EXCEPT ![c] = 0]
  /\ pc' = [pc EXCEPT ![c] = "sys"]
  /\ UNCHANGED <<sys, user, serv, service>>

(* The port is read from serv and compared; the next protocol is asked for *)
(* if it is another one.                                                   *)
pp_id(c) ==
  /\ pc[c] = "answer"
  /\ \/ /\ is_protocol_port(c)
        /\ chosen' = [chosen EXCEPT ![c] = i[c]]
        /\ pc' = [pc EXCEPT ![c] = "idle"]
        /\ UNCHANGED i
     \/ /\ ~is_protocol_port(c) /\ i[c] < Len(Protocols)
        /\ i' = [i EXCEPT ![c] = @ + 1]
        /\ pc' = [pc EXCEPT ![c] = "sys"]
        /\ UNCHANGED chosen
     \/ /\ ~is_protocol_port(c) /\ i[c] = Len(Protocols)
        /\ pc' = [pc EXCEPT ![c] = "idle"]
        /\ UNCHANGED <<i, chosen>>
  /\ UNCHANGED <<sys, user, serv, want, service>>

-----------------------------------------------------------------------------
ServicesInit ==
  /\ sys \in SysFiles /\ user \in UserFiles
  /\ serv = 0
  /\ pc = [c \in Callers |-> "idle"]
  /\ want = [c \in Callers |-> 0]
  /\ i = [c \in Callers |-> 0]
  /\ service = [c \in Callers |-> FALSE]
  /\ chosen = [c \in Callers |-> 0]

ServicesNext ==
  \E c \in Callers :
    \/ \E port \in Ports : Identify(c, port)
    \/ getportbyname_sys(c) \/ getportbyname_user(c) \/ pp_id(c)

ServicesSpec == ServicesInit /\ [][ServicesNext]_services_vars

-----------------------------------------------------------------------------
(* Properties *)

(* The port of a protocol: the user's mapping overrides the default one. *)
PortOf(name) ==
  IF Found(user, name) THEN user[First(Hits(user, name))].port
  ELSE IF Found(sys, name) THEN sys[First(Hits(sys, name))].port
  ELSE -1

(* The first protocol on a port, or 0. *)
ProtocolOn(port) ==
  LET S == {k \in 1..Len(Protocols) : PortOf(Protocols[k]) = port}
  IN  IF S = {} THEN 0 ELSE First(S)

(* Every caller that is done has chosen the protocol its port is mapped    *)
(* to, whatever was looked up before and is looked up at the same time     *)
(* (pp_id_bind(), getportbyname()).                                        *)
Identified ==
  \A c \in Callers : pc[c] = "idle" /\ want[c] # 0 => chosen[c] = ProtocolOn(want[c])

(* The user's file, if there is one, lists every protocol. *)
Complete == user = NoFile \/ \A k \in 1..Len(Protocols) : Found(user, Protocols[k])

(* That much holds while a single thread makes connections, with no file   *)
(* of the user or a complete one: the shared serv holds the right port     *)
(* when getportbyname() reads it, after any sequence of lookups.           *)
IdentifiedAlone ==
  Complete => \A c \in Callers :
    /\ pc[c] = "idle" /\ want[c] # 0
    /\ \A d \in Callers \ {c} : want[d] = 0
    => chosen[c] = ProtocolOn(want[c])

Listed == {sys[k].port : k \in 1..Len(sys)}
          \cup (IF user = NoFile THEN {} ELSE {user[k].port : k \in 1..Len(user)})

(* However lookups are mixed up in serv, a connection on a port that       *)
(* neither file lists is left to the program as it is: no protocol         *)
(* processor gets to cut its reads.                                        *)
OnlyListed == \A c \in Callers : chosen[c] # 0 => want[c] \in Listed
=============================================================================
