--------------------------- MODULE ProtocolProofs ---------------------------
(***************************************************************************)
(* Proofs about the protocol layer: Services, which chooses a processor,   *)
(* and the processors that follow a stream, Framing and Http.  They hold   *)
(* for every number of callers, list of protocols and content of the two   *)
(* files, and for streams of any length with messages of any sizes.        *)
(*                                                                         *)
(* Framing and Http share the variables of Stream; no formula below is     *)
(* about both.                                                             *)
(***************************************************************************)
EXTENDS Services, Framing, Http, WellFoundedInduction, TLAPS

-----------------------------------------------------------------------------
(* Numbers *)

(* A nonempty set of numbers has a least element. *)
LEMMA Least ==
  ASSUME NEW S \in SUBSET Nat, S # {}
  PROVE  \E x \in S : \A y \in S : x <= y
<1> DEFINE R == OpToRel(<, Nat)
<1>1. IsWellFoundedOn(R, Nat)
  BY NatLessThanWellFounded
<1>2. \A x, y \in Nat : <<y, x>> \in R <=> y < x
  BY DEF OpToRel
<1> HIDE DEF R
<1>3. PICK x \in S : \A y \in S : ~(<<y, x>> \in R)
  BY <1>1, WFMin
<1>4. ASSUME NEW y \in S PROVE x <= y
  <2>1. x \in Nat /\ y \in Nat
    OBVIOUS
  <2>2. ~(y < x)
    BY <1>2, <1>3, <2>1
  <2> QED BY <2>1, <2>2
<1> QED BY <1>4

(* A set that contains 0, and n + 1 with n, contains every number: the     *)
(* least number outside would have a predecessor in it.                    *)
LEMMA Induction ==
  ASSUME NEW S \in SUBSET Nat, 0 \in S, \A n \in S : n + 1 \in S
  PROVE  \A n \in Nat : n \in S
<1>1. SUFFICES ASSUME NEW m \in Nat, m \notin S PROVE FALSE
  OBVIOUS
<1> DEFINE T == Nat \ S
<1>2. PICK x \in T : \A y \in T : x <= y
  BY <1>1, Least
<1>3. x # 0 /\ x \in Nat
  BY <1>2
<1>4. x - 1 \in S
  BY <1>2, <1>3
<1>5. x \in S
  BY <1>3, <1>4
<1> QED BY <1>2, <1>5

(* A function on 1..n that is defined by recursion exists. *)
LEMMA Sums ==
  ASSUME NEW n \in Nat, NEW d \in [1..n -> Nat]
  PROVE  \E f : f = [k \in 1..n+1 |-> IF k = 1 THEN 1 ELSE f[k-1] + d[k-1]]
<1> DEFINE Rec(f, m) == [k \in 1..m+1 |-> IF k = 1 THEN 1 ELSE f[k-1] + d[k-1]]
           S == {m \in Nat : m <= n => \E f : f = Rec(f, m)}
<1>1. 0 \in S
  <2> DEFINE f == [k \in 1..1 |-> 1]
  <2>1. f = Rec(f, 0)
    OBVIOUS
  <2> QED BY <2>1
<1>2. ASSUME NEW m \in S PROVE m + 1 \in S
  <2>1. SUFFICES ASSUME m + 1 <= n PROVE \E f : f = Rec(f, m + 1)
    OBVIOUS
  <2>2. PICK f : f = Rec(f, m)
    BY <2>1
  <2> DEFINE g == [k \in 1..m+2 |-> IF k = m + 2 THEN f[m+1] + d[m+1] ELSE f[k]]
  <2>3. \A k \in 1..m+1 : f[k] = IF k = 1 THEN 1 ELSE f[k-1] + d[k-1]
    BY <2>2
  <2>4. ASSUME NEW k \in 1..m+2 PROVE g[k] = IF k = 1 THEN 1 ELSE g[k-1] + d[k-1]
    <3>1. CASE k = m + 2
      <4>1. k # 1 /\ k - 1 = m + 1 /\ k - 1 \in 1..m+2 /\ k - 1 # m + 2
        BY <3>1
      <4>2. g[k-1] = f[m+1] /\ g[k] = f[m+1] + d[m+1]
        BY <3>1, <4>1
      <4> QED BY <4>1, <4>2
    <3>2. CASE k # m + 2
      <4>1. k \in 1..m+1
        BY <3>2
      <4>2. g[k] = f[k] /\ (k # 1 => g[k-1] = f[k-1])
        BY <4>1
      <4> QED BY <4>1, <4>2, <2>3
    <3> QED BY <3>1, <3>2
  <2>5. g = Rec(g, m + 1)
    <3> HIDE DEF g
    <3>1. m + 1 + 1 = m + 2
      OBVIOUS
    <3>2. g = [k \in 1..m+2 |-> g[k]]
      BY DEF g
    <3>3. g = [k \in 1..m+2 |-> IF k = 1 THEN 1 ELSE g[k-1] + d[k-1]]
      BY <2>4, <3>2
    <3> QED BY <3>1, <3>3
  <2> QED BY <2>5
<1> HIDE DEF S
<1>3. n \in S
  BY <1>1, <1>2, Induction DEF S
<1> QED BY <1>3 DEF S

(* What such a function computes: the sums of the d[k], from 1 on. *)
LEMMA OffsetTypes ==
  ASSUME NEW n \in Nat, NEW d \in [1..n -> Nat], NEW f, f[1] = 1,
         \A k \in 1..n : f[k+1] = f[k] + d[k]
  PROVE  \A k \in 1..n+1 : f[k] \in Nat \ {0}
<1> DEFINE S == {m \in Nat : m <= n => f[m+1] \in Nat \ {0}}
<1>1. 0 \in S
  OBVIOUS
<1>2. ASSUME NEW m \in S PROVE m + 1 \in S
  <2>1. SUFFICES ASSUME m + 1 <= n PROVE f[(m+1)+1] \in Nat \ {0}
    OBVIOUS
  <2>2. m + 1 \in 1..n /\ f[m+1] \in Nat \ {0}
    BY <2>1
  <2> QED BY <2>2
<1> HIDE DEF S
<1>3. \A m \in Nat : m \in S
  BY <1>1, <1>2, Induction DEF S
<1>4. ASSUME NEW k \in 1..n+1 PROVE f[k] \in Nat \ {0}
  <2>1. k - 1 \in S /\ k - 1 \in Nat /\ k - 1 <= n /\ (k - 1) + 1 = k
    BY <1>3
  <2> QED BY <2>1 DEF S
<1> QED BY <1>4

(* ... which grow. *)
LEMMA OffsetOrder ==
  ASSUME NEW n \in Nat, NEW d \in [1..n -> Nat], NEW f, f[1] = 1,
         \A k \in 1..n : f[k+1] = f[k] + d[k]
  PROVE  \A k \in 1..n, l \in 1..n+1 : k < l => f[k] + d[k] <= f[l]
<1>1. \A k \in 1..n+1 : f[k] \in Nat
  BY OffsetTypes
<1>2. SUFFICES ASSUME NEW k \in 1..n
               PROVE  \A l \in 1..n+1 : k < l => f[k] + d[k] <= f[l]
  OBVIOUS
<1> DEFINE S == {m \in Nat : k + 1 + m <= n + 1 => f[k+1] <= f[k+1+m]}
<1>3. 0 \in S
  BY <1>1
<1>4. ASSUME NEW m \in S PROVE m + 1 \in S
  <2>1. SUFFICES ASSUME k + 1 + (m + 1) <= n + 1 PROVE f[k+1] <= f[k+1+(m+1)]
    OBVIOUS
  <2> DEFINE l == k + 1 + m
  <2>2. /\ l \in 1..n /\ l + 1 = k + 1 + (m + 1)
        /\ l + 1 \in 1..n+1 /\ k + 1 \in 1..n+1 /\ l \in 1..n+1
    BY <2>1
  <2>3. f[k+1] <= f[l]
    BY <2>2
  <2>4. f[l+1] = f[l] + d[l] /\ d[l] \in Nat
    BY <2>2
  <2> HIDE DEF l
  <2>5. f[l] \in Nat /\ f[k+1] \in Nat
    BY <1>1, <2>2
  <2>6. f[k+1] <= f[l+1]
    BY <2>3, <2>4, <2>5
  <2>7. f[k+1+(m+1)] = f[l+1]
    BY <2>2
  <2> QED BY <2>6, <2>7
<1> HIDE DEF S
<1>5. \A m \in Nat : m \in S
  BY <1>3, <1>4, Induction DEF S
<1>6. ASSUME NEW l \in 1..n+1, k < l PROVE f[k] + d[k] <= f[l]
  <2> DEFINE m == l - (k + 1)
  <2>1. m \in Nat /\ k + 1 + m = l /\ k + 1 + m <= n + 1
    BY <1>6
  <2> HIDE DEF m
  <2>2. f[k+1] <= f[k+1+m]
    BY <1>5, <2>1 DEF S
  <2>3. f[k+1+m] = f[l] /\ f[k+1] = f[k] + d[k]
    BY <2>1
  <2> QED BY <2>2, <2>3
<1> QED BY <1>6

(* Arithmetic *)
LEMMA Ahead ==
  ASSUME NEW t \in Nat, NEW d \in Nat, NEW h \in Nat, NEW x \in Nat, t + 1 + d = x + (h + d)
  PROVE  t + 1 = x + h
OBVIOUS

LEMMA Enough ==
  ASSUME NEW t \in Nat, NEW n \in Nat \ {0}, NEW w \in Nat, t + n = w,
         NEW d \in Nat, NEW s \in Nat, t + 1 + d = s, w >= s - 1
  PROVE  n >= d
OBVIOUS

LEMMA Before ==
  ASSUME NEW n \in Nat, NEW k \in 1..n + 1, k > 1
  PROVE  k - 1 \in 1..n /\ (k - 1) + 1 = k
OBVIOUS

LEMMA Remains ==
  ASSUME NEW t \in Nat, NEW d \in Nat, NEW r \in Nat, NEW s, t + 1 + d = s
  PROVE  (t + r) + 1 + (d - r) = s
OBVIOUS

LEMMA TooShort ==
  ASSUME NEW t \in Nat, NEW n \in Nat, NEW w \in Nat, t + n = w, NEW h \in Nat, n < h,
         NEW z \in Nat, NEW a \in Nat, a = t + 1 + (h + z), NEW b \in Nat, a <= b, b - 1 <= w
  PROVE  FALSE
OBVIOUS

LEMMA TooLate ==
  ASSUME NEW t \in Nat, NEW n \in Nat, NEW w \in Nat, t + n = w, NEW d \in Nat, n < d,
         NEW a \in Nat, a = t + 1 + d, NEW b \in Nat, b - 1 <= w
  PROVE  ~(a <= b)
OBVIOUS

LEMMA LongAgo ==
  ASSUME NEW t \in Nat, NEW d \in Nat, NEW a \in Nat, NEW h \in Nat, NEW z \in Nat,
         t + 1 + d = a + (h + z), d <= z
  PROVE  \A b \in Nat : b <= a => b - 1 <= t
OBVIOUS

LEMMA Shuffle ==
  ASSUME NEW p \in Nat, NEW h \in Nat, NEW b \in Nat
  PROVE  (p + h) + 1 + b = (p + 1) + (h + b)
OBVIOUS

LEMMA TooFar ==
  ASSUME NEW s \in Nat, NEW t \in Nat, NEW h \in Nat \ {0}, NEW a \in Nat, a = s + 1 + t
  PROVE  ~(a + h - 1 <= s)
OBVIOUS

LEMMA Further ==
  ASSUME NEW a \in Nat, NEW b \in 0..a, NEW j \in 1..a - b
  PROVE  b + j \in 1..a
OBVIOUS

LEMMA Within ==
  ASSUME NEW t \in Nat, NEW d \in Nat, NEW a \in Nat, NEW h \in Nat \ {0}, NEW z \in Nat,
         t + 1 + d = a + (h + z), d <= z
  PROVE  a <= t
OBVIOUS

LEMMA Shorter ==
  ASSUME NEW a \in Nat, NEW h \in Nat, NEW z \in Nat, NEW b \in Nat, a + (h + z) <= b
  PROVE  a + h <= b
OBVIOUS

-----------------------------------------------------------------------------
(* Services *)

(* The types of the variables. *)
ServiceTypes ==
  /\ sys \in SysFiles /\ user \in UserFiles
  /\ pc \in [Callers -> {"idle", "sys", "user", "answer"}]
  /\ want \in [Callers -> Ports \cup {0}]
  /\ i \in [Callers -> 0..Len(Protocols)]
  /\ service \in [Callers -> BOOLEAN]
  /\ chosen \in [Callers -> 0..Len(Protocols)]

(* A caller that has never made a connection is idle; one that looks for a *)
(* protocol has a connection, has not decided yet, and has a file to look  *)
(* into.                                                                   *)
Looking(c) ==
  pc[c] # "idle" =>
    /\ want[c] # 0 /\ i[c] \in 1..Len(Protocols) /\ chosen[c] = 0
    /\ pc[c] = "user" => user # NoFile

(* What serv may hold. *)
ServListed == serv = 0 \/ serv \in Listed

Alone(c) == \A d \in Callers \ {c} : want[d] = 0

(* What the search has found out so far, if nobody else searches. *)
Search(c) ==
  /\ pc[c] # "idle" => \A k \in 1..i[c]-1 : PortOf(Protocols[k]) # want[c]
  /\ pc[c] = "answer" => getportbyname(c) = PortOf(Protocols[i[c]])
  /\ pc[c] = "idle" /\ want[c] # 0 => chosen[c] = ProtocolOn(want[c])

IInv ==
  /\ ServiceTypes /\ ServListed /\ OnlyListed
  /\ \A c \in Callers : Looking(c)
  /\ Complete => \A c \in Callers : Alone(c) => Search(c)

-----------------------------------------------------------------------------
(* The first hit *)

(* A nonempty set of numbers has a first one. *)
LEMMA FirstIsLeast ==
  ASSUME NEW S \in SUBSET Nat, S # {}
  PROVE  First(S) \in S /\ \A l \in S : First(S) <= l
BY Least DEF First

(* ... and only one. *)
LEMMA FirstUnique ==
  ASSUME NEW S \in SUBSET Nat, NEW k \in S, \A l \in S : k <= l
  PROVE  First(S) = k
<1>1. First(S) \in S /\ First(S) <= k
  BY FirstIsLeast
<1>2. First(S) \in Nat /\ k \in Nat /\ k <= First(S)
  BY <1>1
<1> QED BY <1>1, <1>2

(* The line a lookup stops at is a line of the file. *)
LEMMA HitInFile ==
  ASSUME NEW file \in Files, NEW name
  PROVE  /\ Len(file) \in Nat
         /\ Hits(file, name) # {} => First(Hits(file, name)) \in 1..Len(file)
<1>1. Len(file) \in Nat
  BY FilesAssumption
<1>2. Hits(file, name) \in SUBSET Nat /\ Hits(file, name) \subseteq 1..Len(file)
  BY <1>1 DEF Hits
<1> QED BY <1>1, <1>2, FirstIsLeast

(* A lookup leaves a port of the file in serv, or serv as it was.  If the  *)
(* file lists the name, it is that name's port.                            *)
LEMMA Lookup ==
  ASSUME NEW file \in Files \cup {NoFile}, NEW name, bpgetservbyname_r(file, name)
  PROVE  /\ \/ serv' = serv
            \/ file # NoFile /\ \E k \in 1..Len(file) : serv' = file[k].port
         /\ Found(file, name) => serv' = file[First(Hits(file, name))].port
<1>1. CASE file = NoFile
  BY <1>1 DEF bpgetservbyname_r, Found
<1>2. CASE file # NoFile /\ file = << >>
  <2>1. Hits(file, name) = {}
    BY <1>2 DEF Hits
  <2> QED BY <1>2, <2>1 DEF bpgetservbyname_r, Found
<1>3. CASE file # NoFile /\ file # << >>
  <2>1. Len(file) \in Nat /\ Len(file) # 0
    BY <1>3, FilesAssumption
  <2>2. Len(file) \in 1..Len(file)
    BY <2>1
  <2>3. Hits(file, name) # {} => First(Hits(file, name)) \in 1..Len(file)
    BY <1>3, HitInFile
  <2> QED BY <1>3, <2>2, <2>3 DEF bpgetservbyname_r, Found
<1> QED BY <1>1, <1>2, <1>3

-----------------------------------------------------------------------------
(* The invariant *)

LEMMA InitInv == ServicesInit => IInv
<1> SUFFICES ASSUME ServicesInit PROVE IInv
  OBVIOUS
<1>1. ServiceTypes
  BY ProtocolsAssumption DEF ServicesInit, ServiceTypes
<1>2. \A c \in Callers : pc[c] = "idle" /\ want[c] = 0 /\ chosen[c] = 0
  BY DEF ServicesInit
<1> QED BY <1>1, <1>2 DEF ServicesInit, IInv, ServListed, OnlyListed, Looking, Search

(* The files do not change, nor do the ports in them. *)
LEMMA FilesStay ==
  ASSUME [ServicesNext]_services_vars
  PROVE  /\ sys' = sys /\ user' = user /\ Listed' = Listed /\ Complete' = Complete
         /\ \A name : PortOf(name)' = PortOf(name)
         /\ \A port : ProtocolOn(port)' = ProtocolOn(port)
<1>1. sys' = sys /\ user' = user
  BY DEF ServicesNext, services_vars, Identify, getportbyname_sys, getportbyname_user, pp_id
<1>2. Listed' = Listed /\ Complete' = Complete
  BY <1>1 DEF Listed, Complete, Found, Hits
<1>3. \A name : PortOf(name)' = PortOf(name)
  BY <1>1 DEF PortOf
<1>4. \A port : ProtocolOn(port)' = ProtocolOn(port)
  BY <1>3 DEF ProtocolOn
<1> QED BY <1>1, <1>2, <1>3, <1>4

LEMMA NextTypes ==
  ASSUME IInv, [ServicesNext]_services_vars
  PROVE  ServiceTypes' /\ \A c \in Callers : Looking(c)'
<1> USE DEF ServiceTypes
<1>0. ServiceTypes /\ \A c \in Callers : Looking(c)
  BY DEF IInv
<1>1. ASSUME NEW c \in Callers, NEW port \in Ports, Identify(c, port)
      PROVE  ServiceTypes' /\ \A d \in Callers : Looking(d)'
  <2>1. ServiceTypes' /\ port # 0
    BY <1>0, <1>1, ProtocolsAssumption, PortsAssumption DEF Identify
  <2>2. 1 \in 1..Len(Protocols)
    BY ProtocolsAssumption
  <2>3. /\ want'[c] = port /\ i'[c] = 1 /\ chosen'[c] = 0 /\ pc'[c] = "sys"
        /\ \A d \in Callers \ {c} : /\ want'[d] = want[d] /\ i'[d] = i[d]
                                    /\ chosen'[d] = chosen[d] /\ pc'[d] = pc[d]
        /\ user' = user
    BY <1>0, <1>1 DEF Identify
  <2>4. ASSUME NEW d \in Callers PROVE Looking(d)'
    BY <1>0, <2>1, <2>2, <2>3 DEF Looking
  <2> QED BY <2>1, <2>4
<1>2. ASSUME NEW c \in Callers, getportbyname_sys(c)
      PROVE  ServiceTypes' /\ \A d \in Callers : Looking(d)'
  <2>1. Found(sys, Protocols[i[c]]) \in BOOLEAN
    BY DEF Found
  <2>2. ServiceTypes'
    <3>1. service' \in [Callers -> BOOLEAN]
      BY <1>0, <1>2, <2>1 DEF getportbyname_sys
    <3> QED BY <1>0, <1>2, <3>1 DEF getportbyname_sys
  <2>3. /\ pc'[c] = "user" => user # NoFile
        /\ \A d \in Callers \ {c} : pc'[d] = pc[d]
        /\ pc[c] = "sys" /\ UNCHANGED <<sys, user, want, i, chosen>>
    BY <1>0, <1>2 DEF getportbyname_sys
  <2>4. ASSUME NEW d \in Callers PROVE Looking(d)'
    BY <1>0, <2>3 DEF Looking
  <2> QED BY <2>2, <2>4
<1>3. ASSUME NEW c \in Callers, getportbyname_user(c)
      PROVE  ServiceTypes' /\ \A d \in Callers : Looking(d)'
  <2>1. ServiceTypes'
    <3>1. service' \in [Callers -> BOOLEAN]
      BY <1>0, <1>3 DEF getportbyname_user, Found
    <3> QED BY <1>0, <1>3, <3>1 DEF getportbyname_user
  <2>2. /\ pc'[c] = "answer" /\ \A d \in Callers \ {c} : pc'[d] = pc[d]
        /\ pc[c] = "user" /\ UNCHANGED <<sys, user, want, i, chosen>>
    BY <1>0, <1>3 DEF getportbyname_user
  <2>3. ASSUME NEW d \in Callers PROVE Looking(d)'
    BY <1>0, <2>2 DEF Looking
  <2> QED BY <2>1, <2>3
<1>4. ASSUME NEW c \in Callers, pp_id(c)
      PROVE  ServiceTypes' /\ \A d \in Callers : Looking(d)'
  <2>1. /\ pc[c] = "answer" /\ UNCHANGED <<sys, user, want>>
        /\ \/ pc'[c] = "idle"
           \/ /\ pc'[c] = "sys" /\ i[c] < Len(Protocols) /\ i'[c] = i[c] + 1
              /\ chosen'[c] = chosen[c]
        /\ \A d \in Callers \ {c} : /\ pc'[d] = pc[d] /\ i'[d] = i[d]
                                    /\ chosen'[d] = chosen[d]
    BY <1>0, <1>4 DEF pp_id
  <2>3. i[c] < Len(Protocols) => i[c] + 1 \in 1..Len(Protocols)
    BY <1>0, ProtocolsAssumption
  <2>2. ServiceTypes'
    <3>1. i' \in [Callers -> 0..Len(Protocols)]
      <4>1. i' = i \/ (i[c] < Len(Protocols) /\ i' = [i EXCEPT ![c] = i[c] + 1])
        BY <1>4 DEF pp_id
      <4>2. i \in [Callers -> 0..Len(Protocols)]
        BY <1>0
      <4>3. i[c] < Len(Protocols) => i[c] + 1 \in 0..Len(Protocols)
        BY <2>3
      <4> QED BY <4>1, <4>2, <4>3
    <3>2. chosen' \in [Callers -> 0..Len(Protocols)]
      BY <1>0, <1>4 DEF pp_id
    <3>3. pc' \in [Callers -> {"idle", "sys", "user", "answer"}]
      BY <1>0, <1>4 DEF pp_id
    <3>4. UNCHANGED <<sys, user, want, service>>
      BY <1>4 DEF pp_id
    <3> QED BY <1>0, <3>1, <3>2, <3>3, <3>4
  <2>4. ASSUME NEW d \in Callers PROVE Looking(d)'
    BY <1>0, <2>1, <2>3, ZenonT(60) DEF Looking
  <2> QED BY <2>2, <2>4
<1>5. CASE UNCHANGED services_vars
  BY <1>0, <1>5 DEF services_vars, Looking
<1> QED BY <1>1, <1>2, <1>3, <1>4, <1>5 DEF ServicesNext

(* A port in serv is from one of the files, so that a protocol is chosen   *)
(* only for a port that is listed.                                         *)
LEMMA NextListed ==
  ASSUME IInv, [ServicesNext]_services_vars
  PROVE  ServListed' /\ OnlyListed'
<1>0. /\ ServiceTypes /\ ServListed /\ OnlyListed
      /\ \A c \in Callers : Looking(c)
      /\ sys \in Files /\ user \in Files \cup {NoFile} /\ sys # NoFile
  BY FilesAssumption DEF IInv, ServiceTypes, Files
<1>1. Listed' = Listed /\ sys' = sys /\ user' = user
  BY FilesStay
<1>2. ASSUME NEW file \in {sys, user}, NEW name, bpgetservbyname_r(file, name)
      PROVE  ServListed'
  <2>1. \/ serv' = serv
        \/ file # NoFile /\ \E k \in 1..Len(file) : serv' = file[k].port
    BY <1>0, <1>2, Lookup
  <2> QED BY <1>0, <1>1, <2>1 DEF ServListed, Listed
<1>3. ASSUME NEW c \in Callers, NEW port \in Ports, Identify(c, port)
      PROVE  ServListed' /\ OnlyListed'
  BY <1>0, <1>1, <1>3 DEF ServiceTypes, Identify, ServListed, OnlyListed
<1>4. ASSUME NEW c \in Callers, getportbyname_sys(c)
      PROVE  ServListed' /\ OnlyListed'
  BY <1>0, <1>1, <1>2, <1>4 DEF getportbyname_sys, OnlyListed
<1>5. ASSUME NEW c \in Callers, getportbyname_user(c)
      PROVE  ServListed' /\ OnlyListed'
  BY <1>0, <1>1, <1>2, <1>5 DEF getportbyname_user, OnlyListed
<1>6. ASSUME NEW c \in Callers, pp_id(c)
      PROVE  ServListed' /\ OnlyListed'
  <2>1. serv' = serv /\ want' = want
    BY <1>6 DEF pp_id
  <2>2. is_protocol_port(c) => want[c] \in Listed
    BY <1>0 DEF is_protocol_port, getportbyname, ServListed
  <2>3. \A d \in Callers : chosen'[d] # chosen[d] => d = c /\ is_protocol_port(c)
    BY <1>0, <1>6 DEF pp_id, ServiceTypes
  <2> QED BY <1>0, <1>1, <2>1, <2>2, <2>3 DEF ServListed, OnlyListed
<1>7. CASE UNCHANGED services_vars
  BY <1>0, <1>1, <1>7 DEF services_vars, ServListed, OnlyListed
<1> QED BY <1>3, <1>4, <1>5, <1>6, <1>7 DEF ServicesNext

(* One caller alone finds the first protocol on its port. *)
LEMMA NextSearch ==
  ASSUME IInv, [ServicesNext]_services_vars, Complete', NEW c \in Callers, Alone(c)'
  PROVE  Search(c)'
<1>0. /\ ServiceTypes /\ ServiceTypes' /\ \A d \in Callers : Looking(d)
      /\ sys \in Files /\ user \in Files \cup {NoFile} /\ sys # NoFile
  BY FilesAssumption, NextTypes DEF IInv, ServiceTypes, Files
<1>1. /\ Complete /\ sys' = sys /\ user' = user
      /\ \A name : PortOf(name)' = PortOf(name)
      /\ \A port : ProtocolOn(port)' = ProtocolOn(port)
  BY FilesStay
<1>2. ASSUME NEW d \in Callers, NEW port \in Ports, Identify(d, port)
      PROVE  Search(c)'
  <2>1. want'[d] # 0
    BY <1>0, <1>2, PortsAssumption DEF ServiceTypes, Identify
  <2>2. d = c
    BY <2>1 DEF Alone
  <2>3. pc'[c] = "sys" /\ i'[c] = 1
    BY <1>0, <1>2, <2>2 DEF ServiceTypes, Identify
  <2>4. 1..i'[c]-1 = {}
    BY <2>3
  <2> QED BY <2>3, <2>4 DEF Search
<1>3. ASSUME want' = want PROVE Search(c) /\ \A d \in Callers \ {c} : pc[d] = "idle"
  <2>1. Alone(c)
    BY <1>3 DEF Alone
  <2> QED BY <1>0, <1>1, <2>1 DEF IInv, Alone, Looking
<1>4. ASSUME NEW d \in Callers, getportbyname_sys(d)
      PROVE  Search(c)'
  <2>1. want' = want /\ i' = i /\ pc[d] = "sys"
    BY <1>4 DEF getportbyname_sys
  <2>2. Search(c) /\ d = c
    BY <1>3, <2>1
  <2> DEFINE name == Protocols[i[c]]
  <2>3. /\ pc'[c] = IF user = NoFile THEN "answer" ELSE "user"
        /\ service'[c] = Found(sys, name) /\ bpgetservbyname_r(sys, name)
    BY <1>0, <1>4, <2>2 DEF ServiceTypes, getportbyname_sys
  <2>4. Found(sys, name) => serv' = sys[First(Hits(sys, name))].port
    BY <1>0, <2>3, Lookup
  <2>5. ASSUME user = NoFile PROVE getportbyname(c)' = PortOf(name)
    BY <2>3, <2>4, <2>5 DEF getportbyname, PortOf, Found
  <2> QED BY <1>1, <2>1, <2>2, <2>3, <2>5 DEF Search
<1>5. ASSUME NEW d \in Callers, getportbyname_user(d)
      PROVE  Search(c)'
  <2>1. want' = want /\ i' = i /\ pc[d] = "user"
    BY <1>5 DEF getportbyname_user
  <2>2. Search(c) /\ d = c
    BY <1>3, <2>1
  <2> DEFINE name == Protocols[i[c]]
  <2>3. /\ pc'[c] = "answer" /\ bpgetservbyname_r(user, name)
        /\ service'[c] = (service[c] \/ Found(user, name))
    BY <1>0, <1>5, <2>2 DEF ServiceTypes, getportbyname_user
  <2>4. user # NoFile /\ i[c] \in 1..Len(Protocols)
    BY <1>0, <2>1, <2>2 DEF Looking
  <2>5. Found(user, name)
    BY <1>1, <2>4 DEF Complete
  <2>6. serv' = user[First(Hits(user, name))].port
    BY <1>0, <2>3, <2>5, Lookup
  <2>7. getportbyname(c)' = PortOf(name)
    BY <2>3, <2>5, <2>6 DEF getportbyname, PortOf
  <2> QED BY <1>1, <2>1, <2>2, <2>3, <2>7 DEF Search
<1>6. ASSUME NEW d \in Callers, pp_id(d)
      PROVE  Search(c)'
  <2>1. want' = want /\ pc[d] = "answer" /\ serv' = serv /\ service' = service
    BY <1>6 DEF pp_id
  <2>2. Search(c) /\ d = c
    BY <1>3, <2>1
  <2> DEFINE name == Protocols[i[c]]
             S == {k \in 1..Len(Protocols) : PortOf(Protocols[k]) = want[c]}
  <2>3. /\ want[c] \in Nat /\ want[c] > 0 /\ i[c] \in 1..Len(Protocols)
        /\ i[c] \in Nat /\ Len(Protocols) \in Nat /\ chosen[c] = 0
    <3>1. want[c] # 0 /\ i[c] \in 1..Len(Protocols) /\ chosen[c] = 0
      BY <1>0, <2>1, <2>2 DEF Looking
    <3>2. want[c] \in Nat
      <4>1. want \in [Callers -> Ports \cup {0}]
        BY <1>0 DEF ServiceTypes
      <4>2. want[c] \in Ports \/ want[c] = 0
        BY <4>1
      <4>3. \A port \in Ports : port \in Nat
        BY PortsAssumption
      <4>4. 0 \in Nat
        OBVIOUS
      <4> QED BY <4>2, <4>3, <4>4, Zenon
    <3> QED BY <3>1, <3>2, ProtocolsAssumption
  <2>4. is_protocol_port(c) <=> PortOf(name) = want[c]
    BY <2>1, <2>2, <2>3 DEF is_protocol_port, Search
  <2>5. \A k \in 1..i[c]-1 : k \notin S
    BY <2>1, <2>2 DEF Search
  <2>6. S \in SUBSET Nat /\ ProtocolOn(want[c]) = IF S = {} THEN 0 ELSE First(S)
    BY DEF ProtocolOn
  <2>7. is_protocol_port(c) <=> i[c] \in S
    BY <2>3, <2>4
  <2> HIDE DEF S, name
  <2>8. CASE is_protocol_port(c)
    <3>1. chosen'[c] = i[c] /\ pc'[c] = "idle"
      BY <1>0, <1>6, <2>2, <2>8 DEF pp_id, ServiceTypes
    <3>2. ASSUME NEW l \in S PROVE i[c] <= l
      <4>1. l \in 1..Len(Protocols) /\ l \notin 1..i[c]-1
        BY <2>5 DEF S
      <4> QED BY <2>3, <4>1
    <3>3. First(S) = i[c]
      BY <2>6, <2>7, <2>8, <3>2, FirstUnique
    <3>4. ProtocolOn(want[c]) = i[c]
      BY <2>6, <2>7, <2>8, <3>3
    <3> QED BY <1>1, <2>1, <3>1, <3>4 DEF Search
  <2>9. CASE ~is_protocol_port(c) /\ i[c] < Len(Protocols)
    <3>1. i'[c] = i[c] + 1 /\ pc'[c] = "sys"
      BY <1>0, <1>6, <2>2, <2>3, <2>9 DEF pp_id, ServiceTypes
    <3>2. ASSUME NEW k \in 1..i'[c]-1 PROVE PortOf(Protocols[k]) # want[c]
      <4>1. k \in 1..Len(Protocols) /\ (k \in 1..i[c]-1 \/ k = i[c])
        BY <2>3, <2>9, <3>1
      <4> QED BY <2>5, <2>7, <2>9, <4>1 DEF S
    <3> QED BY <1>1, <2>1, <3>1, <3>2 DEF Search
  <2>10. CASE ~is_protocol_port(c) /\ ~(i[c] < Len(Protocols))
    <3>1. chosen'[c] = 0 /\ pc'[c] = "idle"
      BY <1>0, <1>6, <2>2, <2>3, <2>10 DEF pp_id, ServiceTypes
    <3>2. S = {}
      <4> SUFFICES ASSUME NEW k \in S PROVE FALSE
        OBVIOUS
      <4>1. k \in 1..Len(Protocols)
        BY DEF S
      <4>2. k \in 1..i[c]-1 \/ k = i[c]
        BY <2>3, <2>10, <4>1
      <4> QED BY <2>5, <2>7, <2>10, <4>2
    <3> QED BY <1>1, <2>1, <2>6, <3>1, <3>2 DEF Search
  <2> QED BY <2>8, <2>9, <2>10
<1>7. CASE UNCHANGED services_vars
  <2>1. want' = want /\ pc' = pc /\ i' = i /\ chosen' = chosen
        /\ service' = service /\ serv' = serv
    BY <1>7 DEF services_vars
  <2> QED BY <1>1, <1>3, <2>1 DEF Search, getportbyname
<1> QED BY <1>2, <1>4, <1>5, <1>6, <1>7 DEF ServicesNext

LEMMA Invariance == ServicesSpec => []IInv
<1>1. ASSUME IInv, [ServicesNext]_services_vars PROVE IInv'
  BY <1>1, NextTypes, NextListed, NextSearch DEF IInv
<1> QED BY <1>1, InitInv, PTL DEF ServicesSpec

-----------------------------------------------------------------------------
(* The theorems *)

(* However many threads look up ports at once and whatever the files hold, *)
(* no protocol processor is put on a connection whose port neither file    *)
(* lists.                                                                  *)
THEOREM UnlistedLeftAlone == ServicesSpec => []OnlyListed
<1>1. IInv => OnlyListed
  BY DEF IInv
<1> QED BY <1>1, Invariance, PTL

(* A thread that makes its connections alone identifies each of them by    *)
(* the user's file, or by /etc/services if there is none, for every list   *)
(* of protocols and every such pair of files.                              *)
THEOREM AloneIdentifies == ServicesSpec => []IdentifiedAlone
<1>1. IInv => IdentifiedAlone
  BY DEF IInv, IdentifiedAlone, Alone, Search
<1> QED BY <1>1, Invariance, PTL

-----------------------------------------------------------------------------
(* Framing: the invariant *)

States(a) ==
  [gotStartup : BOOLEAN, gotHeader : BOOLEAN, type : Types[a] \cup {"none"}, todo : Nat,
   done : BOOLEAN]

FTypes ==
  /\ side \in Sides /\ stream \in Seq(MessagesOf(side)) /\ written \in 0..Total
  /\ wbuf \in Seq(Nat) /\ Len(wbuf) <= written /\ wbufofs \in 0..Len(wbuf)
  /\ inloop \in BOOLEAN
  /\ st \in States(side)
  /\ heard \in Seq(Nat)

(* wbuf holds the last of the bytes that were written. *)
Window == \A j \in 1..Len(wbuf) : wbuf[j] = written - Len(wbuf) + j

(* The processor expects message k behind the st.todo bytes it is to take. *)
Expects(k) ==
  /\ Taken + 1 + st.todo = StartOf[k]
  /\ st.gotStartup = ~(side = "psqlc" /\ k = 1)
  /\ st.todo = 0 => ~st.gotHeader
  /\ side = "mysql" => ~st.gotHeader
  /\ st.todo > 0 => k > 1 /\ st.todo <= stream[k-1].size
  /\ st.todo > 0 /\ side = "fcgi" => st.gotHeader /\ st.todo = stream[k-1].size

Synced == ~st.done => \E k \in 1..Len(stream) + 1 : Expects(k)

(* The messages of which one of the first t bytes is a part. *)
Begun(t) == {k \in 1..Len(stream) : StartOf[k] <= t}

(* FastCGI: the first output ends the processor's interest. *)
Output == {k \in Begun(Taken) : stream[k].type = "O"}
Deaf == /\ st.done => side = "fcgi"
        /\ side = "fcgi" => (st.done <=> Output # {})

(* What wbuf holds between two calls of write(). *)
Idle ==
  ~inloop =>
    /\ wbufofs = 0
    /\ \/ wbuf = << >>
       \/ ~st.done /\ st.todo = 0 /\ Len(wbuf) < IF st.gotStartup THEN HDR ELSE STARTUP
       \/ ~st.done /\ st.type = "Q" /\ Len(wbuf) < st.todo

Cut == side \notin Splits => ~InsideBody(written)

FInv == FTypes /\ Window /\ Synced /\ Deaf /\ Idle /\ Cut /\ HeardAll

-----------------------------------------------------------------------------
(* Where messages start *)

(* The messages of a stream. *)
LEMMA FramedMessages ==
  ASSUME FramingConstants, side \in Sides, stream \in Seq(MessagesOf(side))
  PROVE  /\ Len(stream) \in Nat
         /\ \A k \in 1..Len(stream) :
              /\ stream[k] \in MessagesOf(side) /\ stream[k].size \in Sizes[side]
              /\ stream[k].type \in Types[side] /\ stream[k].size \in Nat
              /\ MessageLen(k) = HeaderLen(k) + stream[k].size
              /\ MessageLen(k) \in Nat
              /\ HeaderLen(k) \in Nat \ {0}
<1>1. ASSUME NEW k \in 1..Len(stream)
      PROVE  /\ stream[k] \in MessagesOf(side) /\ stream[k].size \in Sizes[side]
             /\ stream[k].type \in Types[side] /\ stream[k].size \in Nat
  <2>1. stream[k] \in MessagesOf(side)
    OBVIOUS
  <2>2. stream[k].size \in Sizes[side] /\ stream[k].type \in Types[side]
    BY <2>1 DEF MessagesOf
  <2> QED BY <2>1, <2>2 DEF FramingConstants
<1>2. ASSUME NEW k \in 1..Len(stream) PROVE HeaderLen(k) \in Nat \ {0}
  BY DEF FramingConstants, HeaderLen
<1> QED BY <1>1, <1>2 DEF MessageLen

(* Where they start: the sums of the lengths before them. *)
LEMMA FrameStarts ==
  ASSUME FramingConstants, side \in Sides, stream \in Seq(MessagesOf(side))
  PROVE  /\ StartOf[1] = 1
         /\ \A k \in 1..Len(stream) : StartOf[k+1] = StartOf[k] + MessageLen(k)
         /\ \A k \in 1..Len(stream) + 1 : StartOf[k] \in Nat \ {0}
         /\ \A k \in 1..Len(stream), l \in 1..Len(stream) + 1 :
              k < l => StartOf[k] + MessageLen(k) <= StartOf[l]
<1> DEFINE n == Len(stream)
           d == [k \in 1..n |-> MessageLen(k)]
           Rec(f) == [k \in 1..n+1 |-> IF k = 1 THEN 1 ELSE f[k-1] + MessageLen(k-1)]
<1>0. n \in Nat /\ d \in [1..n -> Nat]
  BY FramedMessages
<1>1. PICK f : f = [k \in 1..n+1 |-> IF k = 1 THEN 1 ELSE f[k-1] + d[k-1]]
  BY <1>0, Sums
<1>2. /\ \A k \in 1..n+1 : k # 1 => d[k-1] = MessageLen(k-1)
      /\ \A k \in 1..n : d[k] = MessageLen(k)
  BY <1>0
<1> HIDE DEF d
<1>3. [k \in 1..n+1 |-> IF k = 1 THEN 1 ELSE f[k-1] + d[k-1]] = Rec(f)
  BY <1>2
<1>4. f = Rec(f)
  BY <1>1, <1>3
<1>5. StartOf = Rec(StartOf)
  BY <1>4 DEF StartOf
<1>6. ASSUME NEW k \in 1..n+1
      PROVE StartOf[k] = IF k = 1 THEN 1 ELSE StartOf[k-1] + MessageLen(k-1)
  BY <1>5
<1>7. StartOf[1] = 1
  BY <1>0, <1>6
<1>8. ASSUME NEW k \in 1..n PROVE StartOf[k+1] = StartOf[k] + MessageLen(k)
  <2>1. k + 1 \in 1..n+1 /\ k + 1 # 1 /\ (k + 1) - 1 = k
    BY <1>0
  <2> QED BY <1>6, <2>1
<1>9. \A k \in 1..n : StartOf[k+1] = StartOf[k] + d[k]
  BY <1>2, <1>8
<1>10. \A k \in 1..n+1 : StartOf[k] \in Nat \ {0}
  BY <1>0, <1>7, <1>9, OffsetTypes
<1>11. \A k \in 1..n, l \in 1..n+1 : k < l => StartOf[k] + d[k] <= StartOf[l]
  BY <1>0, <1>7, <1>9, OffsetOrder
<1> QED BY <1>2, <1>7, <1>8, <1>10, <1>11

(* No two start at the same byte, and they start in order. *)
LEMMA FramesApart ==
  ASSUME FramingConstants, side \in Sides, stream \in Seq(MessagesOf(side)),
         NEW k \in 1..Len(stream) + 1, NEW l \in 1..Len(stream) + 1
  PROVE  /\ StartOf[k] = StartOf[l] => k = l
         /\ StartOf[k] < StartOf[l] <=> k < l
         /\ StartOf[k] <= StartOf[l] <=> k <= l
<1>0. Len(stream) \in Nat /\ StartOf[k] \in Nat /\ StartOf[l] \in Nat
  BY FramedMessages, FrameStarts
<1>1. ASSUME NEW x \in 1..Len(stream) + 1, NEW y \in 1..Len(stream) + 1, x < y
      PROVE  StartOf[x] < StartOf[y]
  <2>1. x \in 1..Len(stream)
    BY <1>0, <1>1
  <2>2. /\ StartOf[x] \in Nat /\ StartOf[y] \in Nat
        /\ StartOf[x] + MessageLen(x) <= StartOf[y]
    BY <1>1, <2>1, FrameStarts
  <2>3. MessageLen(x) \in Nat /\ MessageLen(x) > 0
    <3>1. /\ MessageLen(x) = HeaderLen(x) + stream[x].size
          /\ stream[x].size \in Nat /\ HeaderLen(x) \in Nat \ {0}
      BY <2>1, FramedMessages
    <3> QED BY <3>1
  <2> QED BY <2>2, <2>3
<1>2. k \in Int /\ l \in Int
  BY <1>0
<1> QED BY <1>0, <1>1, <1>2

(* The processor that looks at the start of a message sees that message.   *)
LEMMA MessageThere ==
  ASSUME FramingConstants, side \in Sides, stream \in Seq(MessagesOf(side)),
         NEW k \in 1..Len(stream)
  PROVE  MessageAt(StartOf[k]) = k /\ HeadersAt(StartOf[k]) = {stream[k]}
<1>1. Len(stream) \in Nat /\ k \in 1..Len(stream) + 1 /\ k # 0
  BY FramedMessages
<1>2. \A l \in 1..Len(stream) : StartOf[l] = StartOf[k] => l = k
  BY <1>1, FramesApart
<1>3. MessageAt(StartOf[k]) = k
  BY <1>2 DEF MessageAt
<1> QED BY <1>1, <1>3 DEF HeadersAt

(* The stream does not change. *)
LEMMA SameStarts ==
  ASSUME side' = side, stream' = stream
  PROVE  /\ StartOf' = StartOf /\ Total' = Total
         /\ \A b : InsideBody(b)' = InsideBody(b)
         /\ \A k : Notable(k)' = Notable(k)
<1>1. StartOf' = StartOf
  BY DEF StartOf, MessageLen, HeaderLen
<1>2. Total' = Total
  BY <1>1 DEF Total
<1>3. ASSUME NEW b PROVE InsideBody(b)' = InsideBody(b)
  BY <1>1 DEF InsideBody, HeaderLen
<1>4. ASSUME NEW k PROVE Notable(k)' = Notable(k)
  BY DEF Notable
<1> QED BY <1>1, <1>2, <1>3, <1>4

-----------------------------------------------------------------------------
(* What a processor answers: it asks for more, takes (a part of) a body,   *)
(* or takes a header.                                                      *)

Asks(p, len) ==
  /\ p = More(st)
  /\ \/ st.todo = 0 /\ len < IF st.gotStartup THEN HDR ELSE STARTUP
     \/ st.type = "Q" /\ len < st.todo

TakesBody(p, len) ==
  /\ ~p.tell /\ p.ret \in 1..st.todo /\ p.ret <= len
  /\ p.st \in States(side) /\ p.st.todo = st.todo - p.ret
  /\ ~p.st.done /\ (p.st.gotStartup <=> st.gotStartup)
  /\ p.st.todo = 0 \/ side = "mysql" => ~p.st.gotHeader
  /\ side = "fcgi" => p.st.todo = 0

Tells(k) ==
  \/ side = "mysql"
  \/ side = "psqlc" /\ stream[k].type = "Q" /\ k > 1
  \/ side = "psqls" /\ stream[k].type = "Z"
  \/ side = "fcgi" /\ stream[k].type \in {"B", "O"}

TakesHeader(p, len, k) ==
  /\ st.todo = 0 /\ p.ret = HeaderLen(k) /\ p.ret <= len
  /\ p.st \in States(side) /\ p.st.todo = stream[k].size /\ p.st.gotStartup
  /\ p.st.done <=> side = "fcgi" /\ stream[k].type = "O"
  /\ p.st.todo = 0 \/ side = "mysql" => ~p.st.gotHeader
  /\ side = "fcgi" /\ p.st.todo > 0 => p.st.gotHeader
  /\ p.tell <=> Tells(k)

(* What the processors make of their state. *)
LEMMA BodyState ==
  ASSUME NEW a, NEW s \in States(a), NEW n \in Nat, n <= s.todo
  PROVE  /\ psql_body(s, n) \in States(a)
         /\ psql_body(s, n).todo = s.todo - n
         /\ psql_body(s, n).done = s.done
         /\ psql_body(s, n).gotStartup = s.gotStartup
         /\ s.todo = n => ~psql_body(s, n).gotHeader
<1>1. s.todo - n \in Nat /\ s.gotHeader \in BOOLEAN
  BY DEF States
<1>2. (IF s.todo = n THEN FALSE ELSE s.gotHeader) \in BOOLEAN
  BY <1>1, Zenon
<1>3. psql_body(s, n) \in States(a)
  BY <1>1, <1>2 DEF psql_body, States
<1>4. psql_body(s, n).todo = s.todo - n
  BY DEF psql_body, States
<1>5. psql_body(s, n).done = s.done
  BY DEF psql_body, States
<1>6. psql_body(s, n).gotStartup = s.gotStartup
  BY DEF psql_body, States
<1>7. psql_body(s, n).gotHeader = IF s.todo = n THEN FALSE ELSE s.gotHeader
  BY DEF psql_body, States
<1> QED BY <1>3, <1>4, <1>5, <1>6, <1>7

LEMMA StartupState ==
  ASSUME NEW a, NEW s \in States(a), NEW h, h.size \in Nat
  PROVE  /\ psql_startup(s, h) \in States(a)
         /\ psql_startup(s, h).todo = h.size
         /\ psql_startup(s, h).done = s.done
         /\ psql_startup(s, h).gotStartup
<1>1. psql_startup(s, h) \in States(a)
  BY DEF psql_startup, States
<1>2. psql_startup(s, h).todo = h.size /\ psql_startup(s, h).done = s.done
  BY DEF psql_startup, States
<1>3. psql_startup(s, h).gotStartup = TRUE
  BY DEF psql_startup, States
<1> QED BY <1>1, <1>2, <1>3

LEMMA HeaderState ==
  ASSUME NEW a, NEW s \in States(a), NEW h, h.size \in Nat, h.type \in Types[a]
  PROVE  /\ psql_header(s, h) \in States(a)
         /\ psql_header(s, h).todo = h.size
         /\ psql_header(s, h).done = s.done
         /\ psql_header(s, h).gotStartup = s.gotStartup
<1>1. psql_header(s, h) \in States(a)
  BY DEF psql_header, States
<1>2. psql_header(s, h).todo = h.size /\ psql_header(s, h).done = s.done
  BY DEF psql_header, States
<1>3. psql_header(s, h).gotStartup = s.gotStartup
  BY DEF psql_header, States
<1> QED BY <1>1, <1>2, <1>3

(* PostgreSQL: a body, the first message, or another header. *)
LEMMA PsqlAnswers ==
  ASSUME FramingConstants, Regular, side \in Sides, stream \in Seq(MessagesOf(side)),
         side \in {"psqlc", "psqls"}, st \in States(side), ~st.done,
         NEW len \in Nat \ {0}, NEW k \in 1..Len(stream) + 1, Expects(k),
         NEW h \in MessagesOf(side), st.todo = 0 => k <= Len(stream) /\ h = stream[k]
  PROVE  LET p == speak_psql(st, len, h)
         IN  Asks(p, len) \/ TakesBody(p, len) \/ TakesHeader(p, len, k)
<1> DEFINE p == speak_psql(st, len, h)
<1>0. /\ st.todo \in Nat /\ st.gotHeader \in BOOLEAN /\ st.gotStartup \in BOOLEAN
      /\ HDR \in Nat \ {0} /\ STARTUP \in Nat \ {0}
  BY DEF States, FramingConstants
<1>1. CASE st.todo > 0
  <2>1. CASE WaitsFor(st, len)
    <3>1. p = More(st)
      BY <1>1, <2>1 DEF speak_psql
    <3> QED BY <2>1, <3>1 DEF Asks, WaitsFor
  <2>2. CASE ~WaitsFor(st, len)
    <3> DEFINE used == Min(len, st.todo)
    <3>1. p = Took(used, psql_body(st, used))
      BY <1>1, <2>2 DEF speak_psql
    <3>2. used \in 1..st.todo /\ used <= len /\ used \in Nat
      BY <1>0, <1>1 DEF Min
    <3> HIDE DEF used
    <3> DEFINE s == psql_body(st, used)
    <3>3. /\ s \in States(side) /\ s.todo = st.todo - used /\ s.done = st.done
          /\ s.gotStartup = st.gotStartup /\ (st.todo = used => ~s.gotHeader)
      BY <3>2, BodyState
    <3>4. p.ret = used /\ p.st = s /\ p.tell = FALSE
      BY <3>1 DEF Took
    <3> HIDE DEF p, s
    <3>5. TakesBody(p, len)
      BY <1>0, <3>2, <3>3, <3>4 DEF TakesBody
    <3> QED BY <3>5 DEF p
  <2> QED BY <2>1, <2>2
<1>2. CASE st.todo = 0 /\ ~st.gotStartup
  <2>0. side = "psqlc" /\ k = 1 /\ k <= Len(stream) /\ h = stream[k]
    BY <1>2 DEF Expects
  <2>1. CASE len < STARTUP
    <3>1. p = More(st)
      BY <1>2, <2>1 DEF speak_psql
    <3> QED BY <1>2, <2>1, <3>1 DEF Asks
  <2>2. CASE ~(len < STARTUP)
    <3>1. p = Took(STARTUP, psql_startup(st, h))
      BY <1>2, <2>2 DEF speak_psql
    <3>2. h.size \in Nat /\ h.size # 0 /\ h.type \in Types[side]
      BY <2>0, FramedMessages DEF MessagesOf, Regular
    <3> DEFINE s == psql_startup(st, h)
    <3>3. s \in States(side) /\ s.todo = h.size /\ s.done = st.done /\ s.gotStartup
      BY <3>2, StartupState
    <3>4. p.ret = STARTUP /\ p.st = s /\ p.tell = FALSE
      BY <3>1 DEF Took
    <3>5. HeaderLen(k) = STARTUP /\ ~Tells(k)
      BY <2>0 DEF HeaderLen, Tells
    <3> HIDE DEF p, s
    <3>6. TakesHeader(p, len, k)
      BY <1>0, <1>2, <2>0, <2>2, <3>2, <3>3, <3>4, <3>5 DEF TakesHeader
    <3> QED BY <3>6 DEF p
  <2> QED BY <2>1, <2>2
<1>3. CASE st.todo = 0 /\ st.gotStartup
  <2>0. ~(side = "psqlc" /\ k = 1) /\ k <= Len(stream) /\ h = stream[k] /\ ~st.gotHeader
    BY <1>3 DEF Expects
  <2>1. CASE len < HDR
    <3>1. p = More(st)
      BY <1>3, <2>0, <2>1 DEF speak_psql
    <3> QED BY <1>3, <2>1, <3>1 DEF Asks
  <2>2. CASE ~(len < HDR)
    <3> DEFINE s == psql_header(st, h)
    <3>1. p = [ret |-> HDR, tell |-> psql_logs(h.type), st |-> s]
      BY <1>3, <2>0, <2>2 DEF speak_psql
    <3>2. h.size \in Nat /\ h.size # 0 /\ h.type \in Types[side]
      BY <2>0, FramedMessages DEF MessagesOf, Regular
    <3>3. /\ s \in States(side) /\ s.todo = h.size /\ s.done = st.done
          /\ s.gotStartup = st.gotStartup
      BY <3>2, HeaderState
    <3>4. p.ret = HDR /\ p.st = s /\ p.tell = psql_logs(h.type)
      BY <3>1
    <3>5. k \in Int /\ k >= 1
      BY FramedMessages
    <3>6. HeaderLen(k) = HDR
      BY <2>0 DEF HeaderLen
    <3>7. psql_logs(h.type) <=> Tells(k)
      <4>1. CASE side = "psqlc"
        BY <2>0, <3>5, <4>1 DEF Tells, psql_logs
      <4>2. CASE side = "psqls"
        BY <2>0, <4>2 DEF Tells, psql_logs
      <4> QED BY <4>1, <4>2
    <3> HIDE DEF p, s
    <3>8. (p.tell <=> Tells(k)) /\ p.st.gotStartup /\ ~p.st.done
      BY <1>3, <3>3, <3>4, <3>7
    <3>9. TakesHeader(p, len, k)
      BY <1>0, <1>3, <2>0, <2>2, <3>2, <3>3, <3>4, <3>6, <3>8 DEF TakesHeader
    <3> QED BY <3>9 DEF p
  <2> QED BY <2>1, <2>2
<1> QED BY <1>0, <1>1, <1>2, <1>3

(* A length without negative bytes is read as it was meant. *)
LEMMA MysqlSize ==
  ASSUME FramingConstants, Regular, "mysql" \in Sides, NEW n \in Sizes["mysql"]
  PROVE  get_mysql_size(n) = n
BY Zenon DEF Regular, get_mysql_size

(* MySQL: a body or a header. *)
LEMMA MysqlAnswers ==
  ASSUME FramingConstants, Regular, side \in Sides, stream \in Seq(MessagesOf(side)),
         side = "mysql", st \in States(side), ~st.done,
         NEW len \in Nat \ {0}, NEW k \in 1..Len(stream) + 1, Expects(k),
         NEW h \in MessagesOf(side), st.todo = 0 => k <= Len(stream) /\ h = stream[k]
  PROVE  LET p == speak_mysql(st, len, h)
         IN  Asks(p, len) \/ TakesBody(p, len) \/ TakesHeader(p, len, k)
<1> DEFINE p == speak_mysql(st, len, h)
<1>0. st.todo \in Nat /\ st.gotStartup /\ HDR \in Nat \ {0} /\ HeaderLen(k) = HDR
  BY DEF States, FramingConstants, Expects, HeaderLen
<1>1. ASSUME NEW n \in Nat
      PROVE  /\ [st EXCEPT !.todo = n] \in States(side)
             /\ [st EXCEPT !.todo = n].todo = n
             /\ [st EXCEPT !.todo = n].done = st.done
             /\ [st EXCEPT !.todo = n].gotStartup = st.gotStartup
             /\ [st EXCEPT !.todo = n].gotHeader = st.gotHeader
  BY DEF States
<1>2. CASE st.todo > 0
  <2> DEFINE used == Min(len, st.todo)
             s == [st EXCEPT !.todo = @ - used]
  <2>1. p = Took(used, s)
    BY <1>2 DEF speak_mysql
  <2>2. used \in 1..st.todo /\ used <= len /\ st.todo - used \in Nat
    BY <1>0, <1>2 DEF Min
  <2> HIDE DEF used
  <2>3. /\ s \in States(side) /\ s.todo = st.todo - used /\ s.done = st.done
        /\ s.gotStartup = st.gotStartup /\ s.gotHeader = st.gotHeader
    BY <1>1, <2>2
  <2>4. p.ret = used /\ p.st = s /\ p.tell = FALSE
    BY <2>1 DEF Took
  <2> HIDE DEF p, s
  <2>5. (p.st.gotStartup <=> st.gotStartup) /\ ~p.st.done /\ ~p.st.gotHeader /\ ~p.tell
    BY <2>3, <2>4 DEF Expects
  <2>6. TakesBody(p, len)
    BY <1>0, <2>2, <2>3, <2>4, <2>5 DEF TakesBody
  <2> QED BY <2>6 DEF p
<1>3. CASE st.todo = 0 /\ len < HDR
  <2>1. p = More(st)
    BY <1>3 DEF speak_mysql
  <2> QED BY <1>0, <1>3, <2>1 DEF Asks
<1>4. CASE st.todo = 0 /\ ~(len < HDR)
  <2>0. k <= Len(stream) /\ h = stream[k] /\ ~st.gotHeader
    BY <1>4 DEF Expects
  <2>1. h.size \in Nat /\ get_mysql_size(h.size) = h.size
    BY MysqlSize DEF MessagesOf, FramingConstants
  <2> DEFINE s == [st EXCEPT !.todo = get_mysql_size(h.size)]
  <2>2. p = [ret |-> HDR, tell |-> TRUE, st |-> s]
    BY <1>4 DEF speak_mysql
  <2>3. /\ s \in States(side) /\ s.todo = h.size /\ s.done = st.done
        /\ s.gotStartup = st.gotStartup /\ s.gotHeader = st.gotHeader
    BY <1>1, <2>1
  <2>4. p.ret = HDR /\ p.st = s /\ p.tell = TRUE
    BY <2>2
  <2>5. Tells(k)
    BY DEF Tells
  <2> HIDE DEF p, s
  <2>6. p.st.gotStartup /\ ~p.st.done /\ ~p.st.gotHeader /\ (p.tell <=> Tells(k))
    BY <1>0, <2>0, <2>3, <2>4, <2>5
  <2>7. TakesHeader(p, len, k)
    BY <1>0, <1>4, <2>0, <2>1, <2>3, <2>4, <2>6 DEF TakesHeader
  <2> QED BY <2>7 DEF p
<1> QED BY <1>0, <1>2, <1>3, <1>4

(* FastCGI, whose processor is in the body of a record only at its start, *)
(* and then with all of it there.                                         *)
LEMMA FcgiAnswers ==
  ASSUME FramingConstants, side \in Sides, stream \in Seq(MessagesOf(side)),
         side = "fcgi", st \in States(side), ~st.done,
         NEW len \in Nat \ {0}, NEW k \in 1..Len(stream) + 1, Expects(k),
         NEW h \in MessagesOf(side), st.todo = 0 => k <= Len(stream) /\ h = stream[k],
         st.todo > 0 => len >= st.todo
  PROVE  LET p == speak_fcgi(st, len, h)
         IN  Asks(p, len) \/ TakesBody(p, len) \/ TakesHeader(p, len, k)
<1> DEFINE p == speak_fcgi(st, len, h)
<1>0. st.todo \in Nat /\ st.gotStartup /\ HDR \in Nat \ {0} /\ HeaderLen(k) = HDR
  BY DEF States, FramingConstants, Expects, HeaderLen
<1>1. CASE st.todo > 0
  <2> DEFINE s == [st EXCEPT !.gotHeader = FALSE, !.todo = 0]
  <2>1. st.gotHeader /\ len >= st.todo
    BY <1>1 DEF Expects
  <2>2. p = Took(st.todo, s)
    BY <2>1 DEF speak_fcgi
  <2>3. s \in States(side)
    BY DEF States
  <2>4. s.todo = 0 /\ s.done = st.done
    BY DEF States
  <2>5. s.gotStartup = st.gotStartup /\ s.gotHeader = FALSE
    BY DEF States
  <2>6. p.ret = st.todo /\ p.st = s /\ p.tell = FALSE
    BY <2>2 DEF Took
  <2> HIDE DEF p, s
  <2>7. (p.st.gotStartup <=> st.gotStartup) /\ ~p.st.done /\ ~p.st.gotHeader /\ ~p.tell
    BY <2>4, <2>5, <2>6
  <2>8. TakesBody(p, len)
    BY <1>0, <1>1, <2>1, <2>3, <2>4, <2>6, <2>7 DEF TakesBody
  <2> QED BY <2>8 DEF p
<1>2. CASE st.todo = 0 /\ len < HDR
  <2>1. ~st.gotHeader
    BY <1>2 DEF Expects
  <2>2. p = More(st)
    BY <1>2, <2>1 DEF speak_fcgi
  <2> QED BY <1>0, <1>2, <2>2 DEF Asks
<1>3. CASE st.todo = 0 /\ ~(len < HDR)
  <2>0. k <= Len(stream) /\ h = stream[k] /\ ~st.gotHeader
    BY <1>3 DEF Expects
  <2>1. h.size \in Nat
    BY DEF MessagesOf, FramingConstants
  <2> DEFINE s == fcgi_header(st, h)
  <2>2. p = [ret |-> HDR, tell |-> h.type \in {"B", "O"}, st |-> s]
    BY <1>3, <2>0 DEF speak_fcgi
  <2>3. s \in States(side)
    <3>1. (h.size > 0) \in BOOLEAN /\ (h.type = "O") \in BOOLEAN
      OBVIOUS
    <3> QED BY <2>1, <3>1 DEF States, fcgi_header
  <2>4. s.todo = h.size /\ s.gotStartup = st.gotStartup
    BY DEF States, fcgi_header
  <2>5. s.done = (h.type = "O")
    BY DEF States, fcgi_header
  <2>6. s.gotHeader = (h.size > 0)
    BY DEF States, fcgi_header
  <2>7. p.ret = HDR /\ p.st = s /\ p.tell = (h.type \in {"B", "O"})
    BY <2>2
  <2> HIDE DEF p, s
  <2>8. /\ p.tell <=> Tells(k)
        /\ p.st.done <=> side = "fcgi" /\ stream[k].type = "O"
        /\ p.st.gotStartup
    BY <1>0, <2>0, <2>4, <2>5, <2>7 DEF Tells
  <2>9. (p.st.todo = 0 => ~p.st.gotHeader) /\ (p.st.todo > 0 => p.st.gotHeader)
    <3>1. p.st.gotHeader <=> h.size > 0
      BY <2>6, <2>7
    <3>2. p.st.todo = h.size
      BY <2>4, <2>7
    <3> QED BY <2>1, <3>1, <3>2
  <2>10. TakesHeader(p, len, k)
    BY <1>0, <1>3, <2>0, <2>1, <2>3, <2>4, <2>7, <2>8, <2>9 DEF TakesHeader
  <2> QED BY <2>10 DEF p
<1> QED BY <1>0, <1>1, <1>2, <1>3

-----------------------------------------------------------------------------
(* One turn of the loop *)

(* There is something to show the processor. *)
Turn == wbufofs < Len(wbuf)

(* What the processor is shown begins behind what it has taken. *)
LEMMA ShownNext ==
  ASSUME FTypes, Window
  PROVE  /\ Taken \in Nat /\ Taken + (Len(wbuf) - wbufofs) = written
         /\ Len(wbuf) \in Nat /\ wbufofs \in Nat /\ written \in Nat
         /\ Turn => wbuf[wbufofs + 1] = Taken + 1 /\ Len(wbuf) - wbufofs \in Nat \ {0}
<1>1. Len(wbuf) \in Nat /\ wbufofs \in 0..Len(wbuf) /\ Len(wbuf) <= written /\ written \in Int
  BY DEF FTypes
<1>2. ASSUME Turn PROVE wbuf[wbufofs + 1] = Taken + 1
  <2>1. wbufofs + 1 \in 1..Len(wbuf)
    BY <1>1, <1>2 DEF Turn
  <2>2. wbuf[wbufofs + 1] = written - Len(wbuf) + (wbufofs + 1)
    BY <2>1 DEF Window
  <2> QED BY <1>1, <2>2 DEF Taken
<1> QED BY <1>1, <1>2 DEF Taken, Turn

(* All that is written is in the stream. *)
LEMMA TotalIs ==
  ASSUME FramingConstants, FTypes
  PROVE  Total = StartOf[Len(stream) + 1] - 1 /\ Total \in Nat /\ written <= Total
<1>1. Len(stream) \in Nat /\ Len(stream) + 1 \in 1..Len(stream) + 1
  BY FramedMessages DEF FTypes
<1>2. StartOf[Len(stream) + 1] \in Nat \ {0}
  BY <1>1, FrameStarts DEF FTypes
<1> QED BY <1>2 DEF Total, FTypes

(* A FastCGI body that is not written in pieces is there completely.       *)
LEMMA BodyThere ==
  ASSUME FramingConstants, Regular, FInv, side = "fcgi", Turn,
         NEW k \in 1..Len(stream) + 1, Expects(k), st.todo > 0
  PROVE  Len(wbuf) - wbufofs >= st.todo
<1>0. /\ FTypes /\ Window /\ Cut
      /\ side \in Sides /\ stream \in Seq(MessagesOf(side)) /\ st \in States(side)
  BY DEF FInv, FTypes
<1> DEFINE len == Len(wbuf) - wbufofs
<1>1. /\ Len(stream) \in Nat /\ Taken \in Nat /\ Taken + len = written /\ len \in Nat \ {0}
      /\ written \in Nat /\ st.todo \in Nat /\ HDR \in Nat \ {0}
  BY <1>0, FramedMessages, ShownNext DEF States, FramingConstants
<1> HIDE DEF len
<1>2. /\ k > 1 /\ st.todo = stream[k-1].size /\ Taken + 1 + st.todo = StartOf[k]
  BY DEF Expects
<1>3. PICK m \in 1..Len(stream) : m + 1 = k /\ stream[m].size = st.todo
  <2>1. k - 1 \in 1..Len(stream) /\ (k - 1) + 1 = k
    BY <1>1, <1>2
  <2> QED BY <1>2, <2>1
<1>4. StartOf[k] = StartOf[m] + (HDR + st.todo)
  <2>1. StartOf[m+1] = StartOf[m] + MessageLen(m)
    BY <1>0, FrameStarts
  <2>2. MessageLen(m) = HeaderLen(m) + stream[m].size
    BY <1>0, FramedMessages
  <2>3. HeaderLen(m) = HDR
    BY DEF HeaderLen
  <2> QED BY <1>3, <2>1, <2>2, <2>3
<1>5. StartOf[k] \in Nat /\ StartOf[m] \in Nat
  BY <1>0, <1>1, <1>3, FrameStarts
<1>6. Taken + 1 = StartOf[m] + HDR
  <2>1. Taken + 1 + st.todo = StartOf[m] + (HDR + st.todo)
    BY <1>2, <1>4
  <2> QED BY <1>1, <1>5, <2>1, Ahead
<1>7. ~(StartOf[m] + HDR <= written /\ written < StartOf[m+1] - 1)
  <2>1. ~InsideBody(written)
    BY <1>0 DEF Cut, Regular
  <2>2. HeaderLen(m) = HDR
    BY DEF HeaderLen
  <2> QED BY <1>3, <2>1, <2>2 DEF InsideBody
<1>8. StartOf[m] + HDR <= written
  BY <1>1, <1>5, <1>6
<1>9. written >= StartOf[k] - 1
  BY <1>1, <1>3, <1>5, <1>7, <1>8
<1>10. len >= st.todo
  BY <1>1, <1>2, <1>5, <1>9, Enough
<1> QED BY <1>10 DEF len

(* The processor knows where it is. *)
LEMMA ProcessorAnswers ==
  ASSUME FramingConstants, Regular, FInv, Turn, ~st.done,
         NEW h \in HeadersAt(wbuf[wbufofs + 1])
  PROVE  LET len == Len(wbuf) - wbufofs
             p == pp_write(st, len, h)
         IN  \E k \in 1..Len(stream) + 1 :
               /\ Expects(k) /\ (st.todo = 0 => k <= Len(stream) /\ MessageAt(Taken + 1) = k)
               /\ Asks(p, len) \/ TakesBody(p, len) \/ TakesHeader(p, len, k)
<1> DEFINE len == Len(wbuf) - wbufofs
           p == pp_write(st, len, h)
<1> USE DEF FInv
<1>1. /\ Len(stream) \in Nat /\ Taken \in Nat /\ Taken + len = written /\ len \in Nat \ {0}
      /\ written \in Nat /\ wbuf[wbufofs + 1] = Taken + 1
  BY FramedMessages, ShownNext DEF FTypes
<1>2. /\ side \in Sides /\ stream \in Seq(MessagesOf(side)) /\ st \in States(side)
      /\ side \in {"psqlc", "psqls", "mysql", "fcgi"}
  BY DEF FTypes, FramingConstants
<1>3. PICK k \in 1..Len(stream) + 1 : Expects(k)
  BY DEF Synced
<1>4. ASSUME st.todo = 0
      PROVE  k <= Len(stream) /\ MessageAt(Taken + 1) = k /\ h = stream[k]
  <2>1. StartOf[k] = Taken + 1
    BY <1>1, <1>3, <1>4 DEF Expects
  <2>2. StartOf[k] < StartOf[Len(stream) + 1]
    <3>1. Total = StartOf[Len(stream) + 1] - 1 /\ Total \in Nat /\ written <= Total
      BY TotalIs
    <3>2. StartOf[Len(stream) + 1] \in Nat
      BY <1>1, <1>2, FrameStarts
    <3> QED BY <1>1, <2>1, <3>1, <3>2
  <2>3. k < Len(stream) + 1
    BY <1>1, <1>2, <2>2, FramesApart
  <2>4. k \in 1..Len(stream)
    BY <1>1, <2>3
  <2>5. MessageAt(StartOf[k]) = k /\ HeadersAt(StartOf[k]) = {stream[k]}
    BY <1>2, <2>4, MessageThere
  <2> QED BY <1>1, <2>1, <2>4, <2>5
<1>5. h \in MessagesOf(side)
  <2>1. CASE MessageAt(Taken + 1) = 0
    BY <1>1, <2>1 DEF HeadersAt
  <2>2. CASE MessageAt(Taken + 1) # 0
    <3>1. MessageAt(Taken + 1) \in 1..Len(stream)
      BY <2>2 DEF MessageAt
    <3>2. h = stream[MessageAt(Taken + 1)]
      BY <1>1, <2>2 DEF HeadersAt
    <3> QED BY <1>2, <3>1, <3>2, FramedMessages
  <2> QED BY <2>1, <2>2
<1> HIDE DEF len
<1>6. Asks(p, len) \/ TakesBody(p, len) \/ TakesHeader(p, len, k)
  <2>1. CASE side \in {"psqlc", "psqls"}
    <3>1. p = speak_psql(st, len, h)
      BY <2>1 DEF pp_write
    <3> HIDE DEF p
    <3> QED BY <1>1, <1>2, <1>3, <1>4, <1>5, <2>1, <3>1, PsqlAnswers
  <2>2. CASE side = "mysql"
    <3>1. p = speak_mysql(st, len, h)
      BY <2>2 DEF pp_write
    <3> HIDE DEF p
    <3> QED BY <1>1, <1>2, <1>3, <1>4, <1>5, <2>2, <3>1, MysqlAnswers
  <2>3. CASE side = "fcgi"
    <3>1. p = speak_fcgi(st, len, h)
      BY <2>3 DEF pp_write
    <3>2. st.todo > 0 => len >= st.todo
      BY <1>3, <2>3, BodyThere DEF len
    <3> HIDE DEF p
    <3> QED BY <1>1, <1>2, <1>3, <1>4, <1>5, <2>3, <3>1, <3>2, FcgiAnswers
  <2> QED BY <1>2, <2>1, <2>2, <2>3
<1> QED BY <1>3, <1>4, <1>6 DEF len

-----------------------------------------------------------------------------
(* The messages that have begun *)

(* No message begins in the body of another, ... *)
LEMMA BegunInBody ==
  ASSUME FramingConstants, side \in Sides, stream \in Seq(MessagesOf(side)),
         NEW k \in 1..Len(stream) + 1, k > 1, NEW t \in Nat, NEW d \in Nat, NEW r \in 0..d,
         t + 1 + d = StartOf[k], d <= stream[k-1].size
  PROVE  Begun(t + r) = Begun(t)
<1>1. Len(stream) \in Nat
  BY FramedMessages
<1>2. PICK m \in 1..Len(stream) : m + 1 = k /\ d <= stream[m].size
  <2>1. k - 1 \in 1..Len(stream) /\ (k - 1) + 1 = k
    BY <1>1, Before
  <2> QED BY <2>1
<1>3. StartOf[m] <= t
  <2>1. StartOf[m+1] = StartOf[m] + MessageLen(m) /\ StartOf[m] \in Nat
    BY <1>1, <1>2, FrameStarts
  <2>2. /\ MessageLen(m) = HeaderLen(m) + stream[m].size
        /\ stream[m].size \in Nat /\ HeaderLen(m) \in Nat \ {0}
    BY <1>2, FramedMessages
  <2>3. t + 1 + d = StartOf[m] + (HeaderLen(m) + stream[m].size)
    BY <1>2, <2>1, <2>2
  <2>4. d <= stream[m].size /\ StartOf[m] \in Nat
    BY <1>2, <2>1
  <2> QED BY <2>2, <2>3, <2>4, Within
<1>4. ASSUME NEW j \in 1..Len(stream) PROVE StartOf[j] <= t + r <=> StartOf[j] <= t
  <2>1. StartOf[j] \in Nat /\ StartOf[m] \in Nat /\ StartOf[k] \in Nat
        /\ j \in 1..Len(stream) + 1 /\ m \in 1..Len(stream) + 1 /\ j \in Nat /\ m \in Nat
    BY <1>1, FrameStarts
  <2>2. (StartOf[j] < StartOf[k] <=> j < k) /\ (StartOf[j] <= StartOf[m] <=> j <= m)
    BY <2>1, FramesApart
  <2>3. StartOf[j] <= t + r => StartOf[j] < StartOf[k]
    BY <2>1
  <2>4. StartOf[j] <= StartOf[m] => StartOf[j] <= t
    BY <1>3, <2>1
  <2>5. j < k => j <= m
    BY <1>2, <2>1
  <2>6. StartOf[j] <= t => StartOf[j] <= t + r
    BY <2>1
  <2> QED BY <2>2, <2>3, <2>4, <2>5, <2>6
<1> QED BY <1>4 DEF Begun

(* ... and one with its header. *)
LEMMA BegunInHeader ==
  ASSUME FramingConstants, side \in Sides, stream \in Seq(MessagesOf(side)),
         NEW k \in 1..Len(stream), NEW t \in Nat, t + 1 = StartOf[k]
  PROVE  /\ Begun(t + HeaderLen(k)) = Begun(t) \cup {k}
         /\ \A j \in Begun(t) : j < k
         /\ \A j \in 1..Len(stream) : j < k => j \in Begun(t)
         /\ t + HeaderLen(k) + 1 + stream[k].size = StartOf[k+1]
<1>1. Len(stream) \in Nat
  BY FramedMessages
<1>2. /\ MessageLen(k) = HeaderLen(k) + stream[k].size
      /\ stream[k].size \in Nat /\ HeaderLen(k) \in Nat \ {0}
  BY FramedMessages
<1>3. StartOf[k+1] = t + 1 + (HeaderLen(k) + stream[k].size)
  BY <1>2, FrameStarts
<1>4. ASSUME NEW j \in 1..Len(stream)
      PROVE  /\ StartOf[j] <= t + HeaderLen(k) <=> StartOf[j] <= t \/ j = k
             /\ StartOf[j] <= t <=> j < k
  <2>1. StartOf[j] \in Nat /\ StartOf[k] \in Nat /\ StartOf[k+1] \in Nat
        /\ j \in 1..Len(stream) + 1 /\ k \in 1..Len(stream) + 1 /\ k + 1 \in 1..Len(stream) + 1
        /\ j \in Nat /\ k \in Nat
    BY <1>1, FrameStarts
  <2>2. /\ StartOf[j] < StartOf[k] <=> j < k
        /\ StartOf[j] < StartOf[k+1] <=> j < k + 1
    BY <2>1, FramesApart
  <2>3. StartOf[j] <= t <=> j < k
    BY <2>1, <2>2
  <2>4. StartOf[j] <= t + HeaderLen(k) => StartOf[j] < StartOf[k+1]
    BY <1>2, <1>3, <2>1
  <2>5. j < k + 1 => j < k \/ j = k
    BY <2>1
  <2>6. StartOf[j] <= t \/ j = k => StartOf[j] <= t + HeaderLen(k)
    BY <1>2, <2>1
  <2> QED BY <2>2, <2>3, <2>4, <2>5, <2>6
<1>5. t + HeaderLen(k) + 1 + stream[k].size = StartOf[k+1]
  <2>1. HeaderLen(k) \in Nat /\ stream[k].size \in Nat
    BY <1>2
  <2>2. t + HeaderLen(k) + 1 + stream[k].size = t + 1 + (HeaderLen(k) + stream[k].size)
    BY <2>1, Shuffle
  <2> QED BY <1>3, <2>2
<1> QED BY <1>4, <1>5 DEF Begun

-----------------------------------------------------------------------------
(* How the loop moves the window *)

(* What is left of a sequence without its first n elements. *)
LEMMA Remainder ==
  ASSUME NEW s \in Seq(Nat), NEW n \in 0..Len(s)
  PROVE  LET t == SubSeq(s, n + 1, Len(s))
         IN  /\ t \in Seq(Nat) /\ Len(t) = Len(s) - n
             /\ \A j \in 1..Len(s) - n : t[j] = s[n + j]
OBVIOUS

(* The application writes. *)
LEMMA WindowGrows ==
  ASSUME FTypes, Window, NEW n \in Nat \ {0}, UNCHANGED wbufofs,
         written' = written + n, wbuf' = wbuf \o [j \in 1..n |-> written + j]
  PROVE  /\ Taken' = Taken /\ Window'
         /\ wbuf' \in Seq(Nat) /\ Len(wbuf') <= written' /\ wbufofs' \in 0..Len(wbuf')
<1> DEFINE new == [j \in 1..n |-> written + j]
<1>1. wbuf \in Seq(Nat) /\ Len(wbuf) \in Nat /\ Len(wbuf) <= written /\ wbufofs \in 0..Len(wbuf)
      /\ written \in Int
  BY DEF FTypes
<1>2. new \in Seq(Nat) /\ Len(new) = n /\ \A j \in 1..n : new[j] = written + j
  BY <1>1
<1> HIDE DEF new
<1>3. wbuf' \in Seq(Nat) /\ Len(wbuf') = Len(wbuf) + n
  BY <1>1, <1>2 DEF new
<1>4. ASSUME NEW j \in 1..Len(wbuf') PROVE wbuf'[j] = written' - Len(wbuf') + j
  <2>1. CASE j <= Len(wbuf)
    <3>1. j \in 1..Len(wbuf) /\ wbuf'[j] = wbuf[j]
      BY <1>1, <1>2, <1>3, <2>1 DEF new
    <3>2. wbuf[j] = written - Len(wbuf) + j
      BY <3>1 DEF Window
    <3> QED BY <1>1, <1>3, <3>1, <3>2
  <2>2. CASE j > Len(wbuf)
    <3>1. j - Len(wbuf) \in 1..n /\ wbuf'[j] = new[j - Len(wbuf)]
      BY <1>1, <1>2, <1>3, <2>2 DEF new
    <3>2. wbuf'[j] = written + (j - Len(wbuf))
      BY <1>2, <3>1
    <3> QED BY <1>1, <1>3, <3>2
  <2> QED BY <1>1, <1>3, <2>1, <2>2
<1>5. Taken' = Taken
  BY <1>1, <1>3 DEF Taken
<1> QED BY <1>1, <1>3, <1>4, <1>5 DEF Window

(* The loop ends: what is left is moved to the front. *)
LEMMA WindowMoves ==
  ASSUME FTypes, Window, UNCHANGED written, wbuf' = Rest, wbufofs' = 0
  PROVE  /\ Taken' = Taken /\ Window' /\ Len(wbuf') = Len(wbuf) - wbufofs
         /\ wbuf' \in Seq(Nat) /\ Len(wbuf') <= written' /\ wbufofs' \in 0..Len(wbuf')
<1>1. wbuf \in Seq(Nat) /\ Len(wbuf) \in Nat /\ Len(wbuf) <= written /\ wbufofs \in 0..Len(wbuf)
      /\ written \in Int
  BY DEF FTypes
<1>2. /\ wbuf' \in Seq(Nat) /\ Len(wbuf') = Len(wbuf) - wbufofs
      /\ \A j \in 1..Len(wbuf) - wbufofs : wbuf'[j] = wbuf[wbufofs + j]
  <2>1. wbuf' = SubSeq(wbuf, wbufofs + 1, Len(wbuf))
    BY DEF Rest
  <2> QED BY <1>1, <2>1, Remainder
<1>3. ASSUME NEW j \in 1..Len(wbuf') PROVE wbuf'[j] = written' - Len(wbuf') + j
  <2>1. wbufofs + j \in 1..Len(wbuf) /\ wbuf'[j] = wbuf[wbufofs + j]
    <3>1. j \in 1..Len(wbuf) - wbufofs
      BY <1>2
    <3>2. wbufofs + j \in 1..Len(wbuf)
      BY <1>1, <3>1, Further
    <3> QED BY <1>2, <3>1, <3>2
  <2>2. wbuf[wbufofs + j] = written - Len(wbuf) + (wbufofs + j)
    BY <2>1 DEF Window
  <2> QED BY <1>1, <1>2, <2>1, <2>2
<1>4. Taken' = Taken
  BY <1>1, <1>2 DEF Taken
<1> QED BY <1>1, <1>2, <1>3, <1>4 DEF Window

(* The processor takes r bytes. *)
LEMMA WindowTaken ==
  ASSUME FTypes, Window, UNCHANGED <<written, wbuf>>,
         NEW r \in 0..Len(wbuf) - wbufofs, wbufofs' = wbufofs + r
  PROVE  /\ Taken' = Taken + r /\ Window'
         /\ wbuf' \in Seq(Nat) /\ Len(wbuf') <= written' /\ wbufofs' \in 0..Len(wbuf')
<1>1. wbuf \in Seq(Nat) /\ Len(wbuf) \in Nat /\ Len(wbuf) <= written /\ wbufofs \in 0..Len(wbuf)
      /\ written \in Int
  BY DEF FTypes
<1>2. Taken' = Taken + r
  BY <1>1 DEF Taken
<1> QED BY <1>1, <1>2 DEF Window

-----------------------------------------------------------------------------
(* What is logged *)

(* Nothing that is to be logged begins, and nothing is logged. *)
LEMMA HeardSame ==
  ASSUME HeardAll, UNCHANGED <<side, stream, heard>>,
         {k \in Begun(Taken') : Notable(k)} = {k \in Begun(Taken) : Notable(k)}
  PROVE  HeardAll'
<1>1. StartOf' = StartOf /\ \A k : Notable(k)' = Notable(k)
  BY SameStarts
<1>2. {k \in 1..Len(stream) : Notable(k) /\ StartOf[k] <= Taken'}
        = {k \in 1..Len(stream) : Notable(k) /\ StartOf[k] <= Taken}
  BY DEF Begun
<1>3. {k \in 1..Len(stream') : Notable(k)' /\ StartOf'[k] <= Taken'}
        = {k \in 1..Len(stream) : Notable(k) /\ StartOf[k] <= Taken'}
  BY <1>1
<1> QED BY <1>2, <1>3 DEF HeardAll

(* A message begins and is logged. *)
LEMMA HeardNext ==
  ASSUME HeardAll, UNCHANGED <<side, stream>>, heard \in Seq(Nat),
         NEW k \in 1..Len(stream), heard' = Append(heard, k), Notable(k),
         Begun(Taken') = Begun(Taken) \cup {k}, \A j \in Begun(Taken) : j < k
  PROVE  HeardAll' /\ heard' \in Seq(Nat)
<1>1. StartOf' = StartOf /\ \A j : Notable(j)' = Notable(j)
  BY SameStarts
<1> DEFINE n == Len(heard)
<1>2. /\ n \in Nat /\ heard' \in Seq(Nat) /\ Len(heard') = n + 1 /\ heard'[n+1] = k
      /\ \A x \in 1..n : heard'[x] = heard[x]
  <2>1. n \in Nat /\ Len(heard') = n + 1
    OBVIOUS
  <2>2. k \in Nat
    OBVIOUS
  <2> QED BY <2>1, <2>2
<1> DEFINE Told == {heard[x] : x \in 1..n}
           B == {j \in 1..Len(stream) : Notable(j) /\ StartOf[j] <= Taken}
<1>3. Told = B
  BY DEF HeardAll
<1>4. \A x \in 1..n : heard[x] < k
  <2>1. SUFFICES ASSUME NEW x \in 1..n PROVE heard[x] < k
    OBVIOUS
  <2>2. heard[x] \in B
    BY <1>3
  <2> QED BY <2>2 DEF Begun
<1>5. \A x, j \in 1..n : x < j => heard[x] < heard[j]
  BY DEF HeardAll
<1> HIDE DEF n
<1>6. ASSUME NEW x \in 1..n+1, NEW j \in 1..n+1, x < j PROVE heard'[x] < heard'[j]
  <2>1. x \in 1..n
    BY <1>2, <1>6
  <2>2. CASE j = n + 1
    BY <1>2, <1>4, <2>1, <2>2
  <2>3. CASE j # n + 1
    <3>1. j \in 1..n
      BY <1>2, <2>3
    <3> QED BY <1>2, <1>5, <1>6, <2>1, <3>1
  <2> QED BY <2>2, <2>3
<1>7. {heard'[x] : x \in 1..n+1} = Told \cup {k}
  <2>1. \A x \in 1..n+1 : x \in 1..n \/ x = n + 1
    BY <1>2
  <2>2. n + 1 \in 1..n+1 /\ \A x \in 1..n : x \in 1..n+1
    BY <1>2
  <2> QED BY <1>2, <2>1, <2>2
<1>8. {j \in 1..Len(stream) : Notable(j) /\ StartOf[j] <= Taken'} = B \cup {k}
  <2>1. \A j \in 1..Len(stream) : StartOf[j] <= Taken' <=> StartOf[j] <= Taken \/ j = k
    BY DEF Begun
  <2> QED BY <2>1
<1>9. {j \in 1..Len(stream') : Notable(j)' /\ StartOf'[j] <= Taken'} = B \cup {k}
  BY <1>1, <1>8
<1> QED BY <1>2, <1>3, <1>6, <1>7, <1>9 DEF HeardAll

-----------------------------------------------------------------------------
(* The steps *)

(* The processor is not called. *)
LEMMA SameSync ==
  ASSUME UNCHANGED <<side, stream, st>>, Taken' = Taken, Synced, Deaf
  PROVE  Synced' /\ Deaf'
<1>1. StartOf' = StartOf
  BY SameStarts
<1>2. \A k : Expects(k)' = Expects(k)
  BY <1>1 DEF Expects
<1>3. Output' = Output
  BY <1>1 DEF Output, Begun
<1> QED BY <1>2, <1>3 DEF Synced, Deaf

LEMMA SameCut ==
  ASSUME UNCHANGED <<side, stream, written>>, Cut
  PROVE  Cut'
BY SameStarts DEF Cut

LEMMA SameTypes ==
  ASSUME FTypes, UNCHANGED <<side, stream>>, written' \in 0..Total,
         wbuf' \in Seq(Nat), Len(wbuf') <= written', wbufofs' \in 0..Len(wbuf'),
         inloop' \in BOOLEAN, st' \in States(side), heard' \in Seq(Nat)
  PROVE  FTypes'
<1>1. Total' = Total
  BY SameStarts
<1>2. States(side') = States(side) /\ MessagesOf(side') = MessagesOf(side)
  OBVIOUS
<1> QED BY <1>1, <1>2 DEF FTypes

(* The application calls write(). *)
LEMMA FramingWrite ==
  ASSUME FramingConstants, FInv, NEW n \in Nat \ {0}, write(n)
  PROVE  FInv'
<1>1. FTypes /\ Window /\ Synced /\ Deaf /\ Cut /\ HeardAll
  BY DEF FInv
<1>2. /\ UNCHANGED <<side, stream, wbufofs, st, heard>> /\ inloop' = TRUE
      /\ written' = written + n /\ wbuf' = wbuf \o [j \in 1..n |-> written + j]
      /\ written + n <= Total /\ (side \in Splits \/ ~InsideBody(written'))
  BY DEF write
<1>3. /\ Taken' = Taken /\ Window'
      /\ wbuf' \in Seq(Nat) /\ Len(wbuf') <= written' /\ wbufofs' \in 0..Len(wbuf')
  BY <1>1, <1>2, WindowGrows
<1>4. Synced' /\ Deaf'
  BY <1>1, <1>2, <1>3, SameSync
<1>5. HeardAll'
  BY <1>1, <1>2, <1>3, HeardSame
<1>6. Cut'
  BY <1>2, SameStarts DEF Cut
<1>7. Idle'
  BY <1>2 DEF Idle
<1>8. written' \in 0..Total
  <2>1. written \in Nat /\ Total \in Nat
    BY <1>1, ShownNext, TotalIs
  <2> QED BY <1>2, <2>1
<1>9. FTypes'
  <2>1. inloop' \in BOOLEAN /\ st' \in States(side) /\ heard' \in Seq(Nat)
    BY <1>1, <1>2 DEF FTypes
  <2> QED BY <1>1, <1>2, <1>3, <1>8, <2>1, SameTypes
<1> QED BY <1>3, <1>4, <1>5, <1>6, <1>7, <1>9 DEF FInv

(* The end of vwrite_req()'s loop. *)
LEMMA FramingStops ==
  ASSUME FramingConstants, FInv, UNCHANGED <<side, stream, written, st, heard>>,
         wbuf' = Rest, wbufofs' = 0, inloop' = FALSE,
         LET len == Len(wbuf) - wbufofs
         IN  \/ len = 0
             \/ ~st.done /\ st.todo = 0 /\ len < IF st.gotStartup THEN HDR ELSE STARTUP
             \/ ~st.done /\ st.type = "Q" /\ len < st.todo
  PROVE  FInv'
<1>1. FTypes /\ Window /\ Synced /\ Deaf /\ Cut /\ HeardAll
  BY DEF FInv
<1>2. /\ Taken' = Taken /\ Window' /\ Len(wbuf') = Len(wbuf) - wbufofs
      /\ wbuf' \in Seq(Nat) /\ Len(wbuf') <= written' /\ wbufofs' \in 0..Len(wbuf')
  BY <1>1, WindowMoves
<1>3. Synced' /\ Deaf' /\ Cut' /\ HeardAll'
  BY <1>1, <1>2, SameSync, SameCut, HeardSame
<1>4. Idle'
  <2>1. CASE Len(wbuf) - wbufofs = 0
    <3>1. wbuf' = << >>
      BY <1>2, <2>1
    <3> QED BY <3>1 DEF Idle
  <2>2. CASE ~st.done /\ st.todo = 0
             /\ Len(wbuf) - wbufofs < IF st.gotStartup THEN HDR ELSE STARTUP
    BY <1>2, <2>2 DEF Idle
  <2>3. CASE ~st.done /\ st.type = "Q" /\ Len(wbuf) - wbufofs < st.todo
    BY <1>2, <2>3 DEF Idle
  <2> QED BY <2>1, <2>2, <2>3
<1>5. FTypes'
  <2>1. /\ inloop' \in BOOLEAN /\ st' \in States(side) /\ heard' \in Seq(Nat)
        /\ written' \in 0..Total
    BY <1>1 DEF FTypes
  <2> QED BY <1>1, <1>2, <2>1, SameTypes
<1> QED BY <1>2, <1>3, <1>4, <1>5 DEF FInv

(* A processor that has seen the output takes all there is. *)
LEMMA FramingDeaf ==
  ASSUME FramingConstants, FInv, Turn, st.done, inloop,
         UNCHANGED <<side, stream, written, st, heard, wbuf, inloop>>,
         wbufofs' = wbufofs + (Len(wbuf) - wbufofs)
  PROVE  FInv'
<1>1. /\ FTypes /\ Window /\ Synced /\ Deaf /\ Cut /\ HeardAll
      /\ side \in Sides /\ stream \in Seq(MessagesOf(side))
  BY DEF FInv, FTypes
<1> DEFINE r == Len(wbuf) - wbufofs
<1>2. r \in 0..Len(wbuf) - wbufofs /\ r \in Nat /\ Taken \in Nat /\ Len(stream) \in Nat
  BY <1>1, ShownNext, FramedMessages
<1>3. /\ Taken' = Taken + r /\ Window'
      /\ wbuf' \in Seq(Nat) /\ Len(wbuf') <= written' /\ wbufofs' \in 0..Len(wbuf')
  BY <1>1, <1>2, WindowTaken
<1> HIDE DEF r
<1>4. Begun(Taken) \subseteq Begun(Taken')
  <2>1. \A k \in 1..Len(stream) : StartOf[k] \in Nat
    BY <1>1, <1>2, FrameStarts
  <2>2. \A k \in 1..Len(stream) : StartOf[k] <= Taken => StartOf[k] <= Taken'
    BY <1>2, <1>3, <2>1
  <2> QED BY <2>2 DEF Begun
<1>5. side = "fcgi" /\ Output # {}
  BY <1>1 DEF Deaf
<1>6. PICK o \in Begun(Taken) : stream[o].type = "O"
  BY <1>5 DEF Output
<1>7. Deaf'
  <2>1. StartOf' = StartOf
    BY SameStarts
  <2>2. Output' = {k \in Begun(Taken') : stream[k].type = "O"}
    BY <2>1 DEF Output, Begun
  <2>3. o \in Output'
    BY <1>4, <1>6, <2>2
  <2> QED BY <1>5, <2>3 DEF Deaf
<1>8. \A k \in Begun(Taken') : Notable(k) => k \in Begun(Taken)
  <2>1. SUFFICES ASSUME NEW k \in 1..Len(stream), Notable(k), k \notin Begun(Taken) PROVE FALSE
    BY DEF Begun
  <2>2. o \in 1..Len(stream) /\ StartOf[o] <= Taken /\ ~(StartOf[k] <= Taken)
    BY <1>6, <2>1 DEF Begun
  <2>3. /\ StartOf[o] \in Nat /\ StartOf[k] \in Nat /\ k \in Nat /\ o \in Nat /\ 1 <= o
        /\ k \in 1..Len(stream) + 1 /\ o \in 1..Len(stream) + 1
    BY <1>1, <1>2, <2>2, FrameStarts
  <2>4. StartOf[o] < StartOf[k] <=> o < k
    BY <1>1, <2>3, FramesApart
  <2>5. StartOf[o] < StartOf[k]
    BY <1>2, <2>2, <2>3
  <2>6. o \in 1..k-1
    BY <2>3, <2>4, <2>5
  <2>7. \A j \in 1..k-1 : stream[j].type # "O"
    BY <1>5, <2>1 DEF Notable
  <2> QED BY <1>6, <2>6, <2>7
<1>9. HeardAll'
  <2>1. {k \in Begun(Taken') : Notable(k)} = {k \in Begun(Taken) : Notable(k)}
    BY <1>4, <1>8
  <2> QED BY <1>1, <2>1, HeardSame
<1>10. FTypes'
  <2>1. /\ inloop' \in BOOLEAN /\ st' \in States(side) /\ heard' \in Seq(Nat)
        /\ written' \in 0..Total
    BY <1>1 DEF FTypes
  <2> QED BY <1>1, <1>3, <2>1, SameTypes
<1>11. Cut'
  BY <1>1, SameCut
<1> QED BY <1>3, <1>7, <1>9, <1>10, <1>11 DEF FInv, Synced, Idle

(* The processor takes a piece of a body. *)
LEMMA FramingBody ==
  ASSUME FramingConstants, FInv, Turn, ~st.done, inloop,
         NEW p, TakesBody(p, Len(wbuf) - wbufofs),
         NEW k \in 1..Len(stream) + 1, Expects(k),
         UNCHANGED <<side, stream, written, heard, wbuf, inloop>>,
         wbufofs' = wbufofs + p.ret, st' = p.st
  PROVE  FInv'
<1>1. /\ FTypes /\ Window /\ Synced /\ Deaf /\ Cut /\ HeardAll
      /\ side \in Sides /\ stream \in Seq(MessagesOf(side)) /\ st \in States(side)
  BY DEF FInv, FTypes
<1> DEFINE r == p.ret
<1>2. /\ r \in 0..Len(wbuf) - wbufofs /\ r \in 1..st.todo /\ r \in Nat /\ st.todo \in Nat
      /\ Taken \in Nat /\ Len(stream) \in Nat
  <2>1. Len(wbuf) - wbufofs \in Nat /\ Taken \in Nat /\ Len(stream) \in Nat /\ st.todo \in Nat
    BY <1>1, ShownNext, FramedMessages DEF States
  <2>2. r \in 1..st.todo /\ r <= Len(wbuf) - wbufofs
    BY DEF TakesBody
  <2> QED BY <2>1, <2>2
<1>3. /\ Taken' = Taken + r /\ Window'
      /\ wbuf' \in Seq(Nat) /\ Len(wbuf') <= written' /\ wbufofs' \in 0..Len(wbuf')
  BY <1>1, <1>2, WindowTaken
<1>4. StartOf' = StartOf
  BY SameStarts
<1>5. /\ st' \in States(side) /\ st'.todo = st.todo - r /\ ~st'.done
      /\ st'.gotStartup <=> st.gotStartup
      /\ st'.todo = 0 \/ side = "mysql" => ~st'.gotHeader
      /\ side = "fcgi" => st'.todo = 0
  BY DEF TakesBody
<1> HIDE DEF r
<1>6. /\ Taken + 1 + st.todo = StartOf[k] /\ k > 1 /\ st.todo <= stream[k-1].size
      /\ st.gotStartup = ~(side = "psqlc" /\ k = 1)
  <2>1. st.todo > 0
    BY <1>2
  <2> QED BY <2>1 DEF Expects
<1>7. Begun(Taken') = Begun(Taken)
  <2>1. r \in 0..st.todo
    BY <1>2
  <2> QED BY <1>1, <1>2, <1>3, <1>6, <2>1, BegunInBody
<1>8. Expects(k)'
  <2>1. Taken' + 1 + st'.todo = StartOf'[k]
    <3>1. Taken \in Nat /\ st.todo \in Nat /\ r \in Nat /\ Taken + 1 + st.todo = StartOf[k]
      BY <1>2, <1>6
    <3>2. (Taken + r) + 1 + (st.todo - r) = StartOf[k]
      BY <3>1, Remains
    <3> QED BY <1>3, <1>4, <1>5, <3>2
  <2>2. st'.todo <= stream'[k-1].size
    <3>1. stream[k-1].size \in Nat
      BY <1>1, <1>2, <1>6, Before, FramedMessages
    <3> QED BY <1>2, <1>5, <1>6, <3>1
  <2>3. st'.gotStartup = ~(side' = "psqlc" /\ k = 1)
    <3>1. st'.gotStartup \in BOOLEAN /\ st.gotStartup \in BOOLEAN
      BY <1>1, <1>5 DEF States
    <3> QED BY <1>5, <1>6, <3>1
  <2> QED BY <1>5, <1>6, <2>1, <2>2, <2>3 DEF Expects
<1>9. Synced'
  BY <1>8 DEF Synced
<1>10. Deaf'
  <2>1. Output' = Output
    BY <1>4, <1>7 DEF Output, Begun
  <2> QED BY <1>1, <1>5, <2>1 DEF Deaf
<1>11. HeardAll' /\ Cut'
  BY <1>1, <1>7, HeardSame, SameCut
<1>12. FTypes'
  <2>1. inloop' \in BOOLEAN /\ heard' \in Seq(Nat) /\ written' \in 0..Total
    BY <1>1 DEF FTypes
  <2> QED BY <1>1, <1>3, <1>5, <2>1, SameTypes
<1> QED BY <1>3, <1>9, <1>10, <1>11, <1>12 DEF FInv, Idle

(* The processor takes a header. *)
LEMMA FramingHeader ==
  ASSUME FramingConstants, FInv, Turn, ~st.done, inloop,
         NEW k \in 1..Len(stream), Expects(k), NEW p, TakesHeader(p, Len(wbuf) - wbufofs, k),
         UNCHANGED <<side, stream, written, wbuf, inloop>>,
         wbufofs' = wbufofs + p.ret, st' = p.st,
         heard' = IF p.tell THEN Append(heard, k) ELSE heard
  PROVE  FInv'
<1>1. /\ FTypes /\ Window /\ Synced /\ Deaf /\ Cut /\ HeardAll
      /\ side \in Sides /\ stream \in Seq(MessagesOf(side)) /\ st \in States(side)
      /\ heard \in Seq(Nat)
  BY DEF FInv, FTypes
<1> DEFINE r == HeaderLen(k)
<1>2. /\ r \in 0..Len(wbuf) - wbufofs /\ r \in Nat \ {0} /\ wbufofs' = wbufofs + r
      /\ Taken \in Nat /\ Len(stream) \in Nat
  <2>1. Len(wbuf) - wbufofs \in Nat /\ Taken \in Nat /\ Len(stream) \in Nat /\ r \in Nat \ {0}
    BY <1>1, ShownNext, FramedMessages
  <2>2. p.ret = r /\ r <= Len(wbuf) - wbufofs
    BY DEF TakesHeader
  <2> QED BY <2>1, <2>2
<1>3. /\ Taken' = Taken + r /\ Window'
      /\ wbuf' \in Seq(Nat) /\ Len(wbuf') <= written' /\ wbufofs' \in 0..Len(wbuf')
  BY <1>1, <1>2, WindowTaken
<1>4. StartOf' = StartOf
  BY SameStarts
<1>5. /\ st' \in States(side) /\ st'.todo = stream[k].size /\ st'.gotStartup
      /\ st'.done <=> side = "fcgi" /\ stream[k].type = "O"
      /\ st'.todo = 0 \/ side = "mysql" => ~st'.gotHeader
      /\ side = "fcgi" /\ st'.todo > 0 => st'.gotHeader
      /\ st.todo = 0 /\ (p.tell <=> Tells(k))
  BY DEF TakesHeader
<1>6. Taken + 1 = StartOf[k]
  BY <1>2, <1>5 DEF Expects
<1>7. /\ Begun(Taken') = Begun(Taken) \cup {k}
      /\ \A j \in Begun(Taken) : j < k
      /\ \A j \in 1..Len(stream) : j < k => j \in Begun(Taken)
      /\ Taken + r + 1 + stream[k].size = StartOf[k+1]
  BY <1>1, <1>2, <1>3, <1>6, BegunInHeader
<1> HIDE DEF r
<1>8. /\ k + 1 \in 1..Len(stream) + 1 /\ k + 1 > 1 /\ (k + 1) - 1 = k /\ k + 1 # 1
      /\ stream[k].size \in Nat
  BY <1>1, <1>2, FramedMessages
<1>9. Expects(k+1)'
  <2>1. Taken' + 1 + st'.todo = StartOf'[k+1]
    BY <1>2, <1>3, <1>4, <1>5, <1>7, <1>8
  <2>2. st'.gotStartup = ~(side' = "psqlc" /\ k + 1 = 1)
    <3>1. st'.gotStartup \in BOOLEAN
      BY <1>5 DEF States
    <3> QED BY <1>5, <1>8, <3>1
  <2>3. st'.todo = stream'[(k+1)-1].size /\ st'.todo <= stream'[(k+1)-1].size
    BY <1>5, <1>8
  <2> QED BY <1>5, <1>8, <2>1, <2>2, <2>3 DEF Expects
<1>10. Synced'
  BY <1>8, <1>9 DEF Synced
<1>11. side = "fcgi" => Output = {}
  BY <1>1 DEF Deaf
<1>12. Deaf'
  <2>1. Output' = {j \in Begun(Taken') : stream[j].type = "O"}
    BY <1>4 DEF Output, Begun
  <2>2. side = "fcgi" => (Output' # {} <=> stream[k].type = "O")
    BY <1>7, <1>11, <2>1 DEF Output
  <2> QED BY <1>5, <2>2 DEF Deaf
<1>13. Tells(k) <=> Notable(k)
  <2>1. CASE side = "fcgi"
    <3>1. \A j \in 1..k-1 : j \in 1..Len(stream) /\ j < k
      BY <1>2
    <3>2. \A j \in 1..k-1 : stream[j].type # "O"
      BY <1>7, <1>11, <2>1, <3>1 DEF Output
    <3> QED BY <2>1, <3>2 DEF Tells, Notable
  <2>2. CASE side # "fcgi"
    BY <2>2 DEF Tells, Notable
  <2> QED BY <2>1, <2>2
<1>14. HeardAll' /\ heard' \in Seq(Nat)
  <2>1. CASE Notable(k)
    <3>1. heard' = Append(heard, k)
      BY <1>5, <1>13, <2>1
    <3> QED BY <1>1, <1>7, <2>1, <3>1, HeardNext
  <2>2. CASE ~Notable(k)
    <3>1. heard' = heard
      BY <1>5, <1>13, <2>2
    <3>2. {j \in Begun(Taken') : Notable(j)} = {j \in Begun(Taken) : Notable(j)}
      BY <1>7, <2>2
    <3> QED BY <1>1, <3>1, <3>2, HeardSame
  <2> QED BY <2>1, <2>2
<1>15. FTypes' /\ Cut'
  <2>1. inloop' \in BOOLEAN /\ written' \in 0..Total
    BY <1>1 DEF FTypes
  <2> QED BY <1>1, <1>3, <1>5, <1>14, <2>1, SameTypes, SameCut
<1> QED BY <1>3, <1>10, <1>12, <1>14, <1>15 DEF FInv, Idle

(* Any turn of the loop. *)
LEMMA FramingCall ==
  ASSUME FramingConstants, Regular, FInv, vwrite_req_call
  PROVE  FInv'
<1> DEFINE len == Len(wbuf) - wbufofs
           P(h) == pp_write(st, len, h)
<1>1. Turn /\ inloop /\ UNCHANGED <<side, stream, written>>
  BY DEF vwrite_req_call, Turn
<1>2. /\ wbuf[wbufofs + 1] = Taken + 1 /\ len \in Nat \ {0} /\ Taken \in Nat
  BY <1>1, ShownNext DEF FInv
<1>3. PICK h \in HeadersAt(wbuf[wbufofs + 1]) :
        /\ st' = P(h).st
        /\ heard' = IF P(h).tell THEN Append(heard, MessageAt(wbuf[wbufofs + 1])) ELSE heard
        /\ IF P(h).ret > 0
           THEN wbufofs' = wbufofs + P(h).ret /\ UNCHANGED <<wbuf, inloop>>
           ELSE wbuf' = Rest /\ wbufofs' = 0 /\ inloop' = FALSE
  BY DEF vwrite_req_call
<1> DEFINE p == P(h)
<1>4. CASE st.done
  <2>1. side = "fcgi"
    BY <1>4 DEF FInv, Deaf
  <2>2. p = Took(len, st)
    BY <1>4, <2>1 DEF pp_write, speak_fcgi
  <2>3. p.ret = len /\ p.st = st /\ p.tell = FALSE
    BY <2>2 DEF Took
  <2> HIDE DEF P
  <2>4. st' = st /\ heard' = heard /\ wbufofs' = wbufofs + len /\ UNCHANGED <<wbuf, inloop>>
    <3>1. p.ret > 0
      BY <1>2, <2>3
    <3> QED BY <1>3, <2>3, <3>1
  <2> QED BY <1>1, <1>4, <2>4, FramingDeaf
<1>5. CASE ~st.done
  <2>1. PICK k \in 1..Len(stream) + 1 :
          /\ Expects(k) /\ (st.todo = 0 => k <= Len(stream) /\ MessageAt(Taken + 1) = k)
          /\ Asks(p, len) \/ TakesBody(p, len) \/ TakesHeader(p, len, k)
    BY <1>1, <1>5, ProcessorAnswers
  <2> HIDE DEF P
  <2>2. CASE Asks(p, len)
    <3>1. p.ret = -1 /\ p.st = st /\ p.tell = FALSE
      BY <2>2 DEF Asks, More
    <3>2. /\ st' = st /\ heard' = heard /\ wbuf' = Rest /\ wbufofs' = 0 /\ inloop' = FALSE
      <4>1. ~(p.ret > 0)
        BY <3>1
      <4> QED BY <1>3, <3>1, <4>1
    <3>3. \/ st.todo = 0 /\ len < IF st.gotStartup THEN HDR ELSE STARTUP
          \/ st.type = "Q" /\ len < st.todo
      BY <2>2 DEF Asks
    <3> QED BY <1>1, <1>5, <3>2, <3>3, FramingStops
  <2>3. CASE TakesBody(p, len)
    <3>1. p.ret > 0 /\ ~p.tell
      BY <2>3 DEF TakesBody
    <3>2. /\ st' = p.st /\ heard' = heard /\ wbufofs' = wbufofs + p.ret
          /\ UNCHANGED <<wbuf, inloop>>
      BY <1>3, <3>1
    <3> HIDE DEF p
    <3> QED BY <1>1, <1>5, <2>1, <2>3, <3>2, FramingBody
  <2>4. CASE TakesHeader(p, len, k)
    <3>1. /\ k \in 1..Len(stream) /\ MessageAt(Taken + 1) = k /\ p.ret > 0
      <4>1. st.todo = 0 /\ p.ret = HeaderLen(k)
        BY <2>4 DEF TakesHeader
      <4>2. Len(stream) \in Nat
        BY FramedMessages DEF FInv, FTypes
      <4>3. k \in 1..Len(stream)
        BY <2>1, <4>1, <4>2
      <4>4. HeaderLen(k) \in Nat \ {0}
        BY <4>3, FramedMessages DEF FInv, FTypes
      <4> QED BY <2>1, <4>1, <4>3, <4>4
    <3>2. /\ st' = p.st /\ heard' = (IF p.tell THEN Append(heard, k) ELSE heard)
          /\ wbufofs' = wbufofs + p.ret /\ UNCHANGED <<wbuf, inloop>>
      BY <1>2, <1>3, <3>1
    <3> HIDE DEF p
    <3> QED BY <1>1, <1>5, <2>1, <2>4, <3>1, <3>2, FramingHeader
  <2> QED BY <2>1, <2>2, <2>3, <2>4
<1> QED BY <1>4, <1>5

LEMMA FramingEmpty ==
  ASSUME FramingConstants, FInv, vwrite_req_empty
  PROVE  FInv'
<1>1. /\ UNCHANGED <<side, stream, written, st, heard>>
      /\ wbuf' = Rest /\ wbufofs' = 0 /\ inloop' = FALSE /\ wbufofs = Len(wbuf)
  BY DEF vwrite_req_empty
<1>2. Len(wbuf) - wbufofs = 0
  BY <1>1 DEF FInv, FTypes
<1> QED BY <1>1, <1>2, FramingStops

LEMMA FInitially ==
  ASSUME FramingConstants, FramingInit
  PROVE  FInv
<1>1. /\ side \in Sides /\ stream \in Seq(MessagesOf(side))
      /\ written = 0 /\ wbuf = << >> /\ wbufofs = 0 /\ inloop = FALSE
      /\ heard = << >>
  BY DEF FramingInit, StreamsOf
<1>2. /\ Len(stream) \in Nat /\ Len(wbuf) = 0 /\ Taken = 0
  <2>1. Len(stream) \in Nat
    BY <1>1, FramedMessages
  <2>2. Len(wbuf) = 0
    BY <1>1
  <2>3. Taken = written - (Len(wbuf) - wbufofs) /\ written = 0 /\ wbufofs = 0
    BY <1>1 DEF Taken
  <2>4. Taken = 0
    BY <2>2, <2>3
  <2> QED BY <2>1, <2>2, <2>4
<1>3. /\ 1 \in 1..Len(stream) + 1 /\ StartOf[1] = 1
      /\ \A k \in 1..Len(stream) : ~(StartOf[k] <= Taken)
  <2>1. /\ StartOf[1] = 1 /\ \A k \in 1..Len(stream) + 1 : StartOf[k] \in Nat \ {0}
    BY <1>1, FrameStarts
  <2>2. \A k \in 1..Len(stream) : k \in 1..Len(stream) + 1
    BY <1>2
  <2>3. ASSUME NEW k \in 1..Len(stream) PROVE ~(StartOf[k] <= Taken)
    <3>1. StartOf[k] \in Nat \ {0}
      BY <2>1, <2>2
    <3> QED BY <1>2, <3>1
  <2> QED BY <1>2, <2>1, <2>3
<1>4. /\ st \in States(side) /\ st.todo = 0 /\ st.done = FALSE /\ st.gotHeader = FALSE
      /\ st.gotStartup = (side # "psqlc")
  <2>1. (side # "psqlc") \in BOOLEAN
    OBVIOUS
  <2> QED BY <2>1 DEF FramingInit, States
<1>5. Total \in Nat
  <2>1. StartOf[Len(stream) + 1] \in Nat \ {0}
    BY <1>1, <1>2, FrameStarts
  <2> QED BY <2>1 DEF Total
<1>6. FTypes
  <2>1. written \in 0..Total
    BY <1>1, <1>5
  <2>2. wbuf \in Seq(Nat) /\ heard \in Seq(Nat)
    BY <1>1
  <2>3. Len(wbuf) <= written /\ wbufofs \in 0..Len(wbuf) /\ inloop \in BOOLEAN
    <3>1. Len(wbuf) = 0 /\ written = 0 /\ wbufofs = 0
      BY <1>1, <1>2
    <3>2. inloop \in BOOLEAN
      BY <1>1
    <3> QED BY <3>1, <3>2
  <2> QED BY <1>1, <1>4, <2>1, <2>2, <2>3 DEF FTypes
<1>7. Window /\ Idle /\ Cut
  <2>1. ~InsideBody(written)
    <3>1. ASSUME NEW k \in 1..Len(stream) PROVE ~(StartOf[k] + HeaderLen(k) <= 0)
      <4>1. StartOf[k] \in Nat \ {0} /\ HeaderLen(k) \in Nat
        BY <1>1, <1>2, FrameStarts, FramedMessages
      <4> QED BY <4>1
    <3> QED BY <1>1, <3>1 DEF InsideBody
  <2> QED BY <1>1, <1>2, <2>1 DEF Window, Idle, Cut
<1>8. Expects(1)
  BY <1>1, <1>2, <1>3, <1>4 DEF Expects
<1>9. Synced
  BY <1>3, <1>8 DEF Synced
<1>10. Deaf
  <2>1. Output = {}
    BY <1>3 DEF Output, Begun
  <2> QED BY <1>4, <2>1 DEF Deaf
<1>11. HeardAll
  <2>1. Len(heard) = 0
    BY <1>1
  <2>2. 1..Len(heard) = {}
    BY <2>1
  <2> QED BY <1>3, <2>2 DEF HeardAll
<1> QED BY <1>6, <1>7, <1>9, <1>10, <1>11 DEF FInv

LEMMA FStep ==
  ASSUME FramingConstants, Regular, FInv, [FramingNext]_framing_vars
  PROVE  FInv'
<1>1. ASSUME NEW n \in 1..MaxWrite, write(n) PROVE FInv'
  <2>1. n \in Nat \ {0}
    BY DEF FramingConstants
  <2> QED BY <1>1, <2>1, FramingWrite
<1>2. CASE vwrite_req_empty
  BY <1>2, FramingEmpty
<1>3. CASE vwrite_req_call
  BY <1>3, FramingCall
<1>4. CASE UNCHANGED framing_vars
  <2>1. UNCHANGED <<side, stream, written, wbuf, wbufofs, inloop, st, heard>>
    BY <1>4 DEF framing_vars
  <2>2. Taken' = Taken
    BY <2>1 DEF Taken
  <2>3. FTypes /\ Window /\ Synced /\ Deaf /\ Idle /\ Cut /\ HeardAll
    BY DEF FInv
  <2>4. Synced' /\ Deaf' /\ Cut' /\ HeardAll'
    BY <2>1, <2>2, <2>3, SameSync, SameCut, HeardSame
  <2>5. FTypes'
    BY <2>1, <2>3, SameTypes DEF FTypes
  <2>6. Window' /\ Idle'
    BY <2>1, <2>3 DEF Window, Idle
  <2> QED BY <2>4, <2>5, <2>6 DEF FInv
<1> QED BY <1>1, <1>2, <1>3, <1>4 DEF FramingNext

LEMMA FramingKnows ==
  ASSUME FInv
  PROVE  InStep
BY DEF FInv, Synced, Expects, InStep

LEMMA NoneLeftOver ==
  ASSUME FramingConstants, FInv
  PROVE  NothingPending
<1>1. /\ FTypes /\ Window /\ Synced /\ Idle
      /\ side \in Sides /\ stream \in Seq(MessagesOf(side)) /\ st \in States(side)
  BY DEF FInv, FTypes
<1>2. SUFFICES ASSUME ~inloop
               PROVE  /\ \A k \in 1..Len(stream) :
                           StartOf[k + 1] - 1 <= written => StartOf[k + 1] - 1 <= Taken
                      /\ \/ Len(wbuf) < IF st.gotStartup THEN HDR ELSE STARTUP
                         \/ st.type = "Q" /\ Len(wbuf) < st.todo
  BY DEF NothingPending
<1>3. /\ Taken \in Nat /\ Taken + Len(wbuf) = written
      /\ Len(wbuf) \in Nat /\ Len(stream) \in Nat /\ written \in Nat
  <2>1. wbufofs = 0
    BY <1>1, <1>2 DEF Idle
  <2>2. Taken \in Nat /\ Taken + (Len(wbuf) - wbufofs) = written /\ Len(wbuf) \in Nat
        /\ written \in Nat
    BY <1>1, ShownNext
  <2>3. Len(stream) \in Nat
    BY <1>1, FramedMessages
  <2>4. Len(wbuf) - wbufofs = Len(wbuf)
    BY <2>1, <2>2
  <2> QED BY <2>2, <2>3, <2>4
<1>4. CASE wbuf = << >>
  <2>1. Len(wbuf) = 0 /\ Taken = written
    BY <1>3, <1>4
  <2>2. 0 < IF st.gotStartup THEN HDR ELSE STARTUP
    BY DEF FramingConstants
  <2> QED BY <2>1, <2>2
<1>5. CASE /\ ~st.done /\ st.todo = 0
           /\ Len(wbuf) < IF st.gotStartup THEN HDR ELSE STARTUP
  <2>1. PICK k \in 1..Len(stream) + 1 : Expects(k)
    BY <1>1, <1>5 DEF Synced
  <2>2. StartOf[k] = Taken + 1 /\ (st.gotStartup = ~(side = "psqlc" /\ k = 1))
    BY <1>3, <1>5, <2>1 DEF Expects
  <2>3. ASSUME NEW j \in 1..Len(stream), StartOf[j+1] - 1 <= written
        PROVE  StartOf[j+1] - 1 <= Taken
    <3>1. /\ j + 1 \in 1..Len(stream) + 1 /\ j \in Nat /\ k \in Nat
          /\ StartOf[j+1] \in Nat /\ StartOf[k] \in Nat
      BY <1>1, <1>3, FrameStarts
    <3>2. StartOf[j+1] <= StartOf[k] <=> j + 1 <= k
      BY <1>1, <3>1, FramesApart
    <3>3. CASE j + 1 <= k
      BY <1>3, <2>2, <3>1, <3>2, <3>3
    <3>4. CASE j >= k
      <4>1. k \in 1..Len(stream)
        BY <1>3, <3>1, <3>4
      <4>2. /\ StartOf[k+1] = StartOf[k] + MessageLen(k)
            /\ MessageLen(k) = HeaderLen(k) + stream[k].size /\ stream[k].size \in Nat
            /\ HeaderLen(k) \in Nat
        BY <1>1, <4>1, FrameStarts, FramedMessages
      <4>3. k + 1 \in 1..Len(stream) + 1 /\ StartOf[k+1] \in Nat /\ k + 1 <= j + 1
        BY <1>1, <1>3, <3>1, <3>4, <4>1, FrameStarts
      <4>4. StartOf[k+1] <= StartOf[j+1]
        BY <1>1, <3>1, <4>3, FramesApart
      <4>5. HeaderLen(k) = IF st.gotStartup THEN HDR ELSE STARTUP
        BY <2>2 DEF HeaderLen
      <4>6. Len(wbuf) < HeaderLen(k)
        BY <1>5, <4>5
      <4>7. StartOf[k+1] = Taken + 1 + (HeaderLen(k) + stream[k].size)
        BY <2>2, <4>2
      <4> QED BY <1>3, <2>3, <3>1, <4>2, <4>3, <4>4, <4>6, <4>7, TooShort
    <3> QED BY <3>1, <3>3, <3>4
  <2> QED BY <1>5, <2>3
<1>6. CASE ~st.done /\ st.type = "Q" /\ Len(wbuf) < st.todo
  <2>1. PICK k \in 1..Len(stream) + 1 : Expects(k)
    BY <1>1, <1>6 DEF Synced
  <2>2. st.todo \in Nat
    BY <1>1 DEF States
  <2>3. st.todo > 0
    BY <1>3, <1>6, <2>2
  <2>4. StartOf[k] = Taken + 1 + st.todo /\ k > 1 /\ st.todo <= stream[k-1].size
    BY <2>1, <2>3 DEF Expects
  <2>5. PICK m \in 1..Len(stream) : m + 1 = k /\ st.todo <= stream[m].size
    BY <1>3, <2>4, Before
  <2>6. ASSUME NEW j \in 1..Len(stream), StartOf[j+1] - 1 <= written
        PROVE  StartOf[j+1] - 1 <= Taken
    <3>1. /\ j + 1 \in 1..Len(stream) + 1 /\ j + 1 \in Nat /\ k \in Nat /\ m \in Nat
          /\ StartOf[j+1] \in Nat /\ StartOf[k] \in Nat /\ StartOf[m] \in Nat
          /\ m \in 1..Len(stream) + 1
      BY <1>1, <1>3, FrameStarts
    <3>2. /\ StartOf[k] <= StartOf[j+1] <=> k <= j + 1
          /\ StartOf[j+1] <= StartOf[m] <=> j + 1 <= m
      BY <1>1, <3>1, FramesApart
    <3>3. ~(StartOf[k] <= StartOf[j+1])
      BY <1>3, <1>6, <2>2, <2>4, <2>6, <3>1, TooLate
    <3>4. j + 1 <= m
      BY <2>5, <3>1, <3>2, <3>3
    <3>5. StartOf[k] = StartOf[m] + MessageLen(m)
          /\ MessageLen(m) = HeaderLen(m) + stream[m].size /\ stream[m].size \in Nat
          /\ HeaderLen(m) \in Nat
      BY <1>1, <2>5, FrameStarts, FramedMessages
    <3>6. Taken + 1 + st.todo = StartOf[m] + (HeaderLen(m) + stream[m].size)
      BY <2>4, <3>5
    <3>7. StartOf[j+1] <= StartOf[m]
      BY <3>2, <3>4
    <3>8. Taken \in Nat
      BY <1>3
    <3>9. \A b \in Nat : b <= StartOf[m] => b - 1 <= Taken
      BY <2>2, <2>5, <3>1, <3>5, <3>6, <3>8, LongAgo
    <3> QED BY <3>1, <3>7, <3>9
  <2> QED BY <1>6, <2>6
<1> QED BY <1>1, <1>2, <1>4, <1>5, <1>6 DEF Idle

(* What the processors of length-framed protocols know of the stream, for  *)
(* streams of any length, messages of any sizes they understand and writes *)
(* that cut and join them anywhere, but for the bodies of FastCGI records. *)
THEOREM FramingInvariant ==
  ASSUME Regular
  PROVE  FramingSpec => []FInv
<1>1. FramingInit => FInv
  BY FramingAssumption, FInitially
<1>2. FInv /\ [FramingNext]_framing_vars => FInv'
  BY FramingAssumption, FStep
<1> QED BY <1>1, <1>2, PTL DEF FramingSpec

(* speak_psql() and speak_mysql() look for a header only at the start of a *)
(* message, and know in a body how much is left of it, wherever the writes *)
(* cut the stream; speak_fcgi() does if no write() ends inside the body of *)
(* a record, else it takes what is left of it for headers.                 *)
THEOREM StaysInStep ==
  ASSUME Regular
  PROVE  FramingSpec => []InStep
<1>1. FInv => InStep
  BY FramingAssumption, FramingKnows
<1> QED BY <1>1, FramingInvariant, PTL

(* When vwrite_req() returns, no message that was written completely is    *)
(* left in wbuf, and what is left is less than a header or than the query  *)
(* that is waited for, as far as that fits into wbuf.                      *)
THEOREM NothingIsPending ==
  ASSUME Regular
  PROVE  FramingSpec => []NothingPending
<1>1. FInv => NothingPending
  BY FramingAssumption, NoneLeftOver
<1> QED BY <1>1, FramingInvariant, PTL

(* Each message a processor is to log is logged once, in order, as soon as *)
(* its header is written.                                                  *)
THEOREM AllHeard ==
  ASSUME Regular
  PROVE  FramingSpec => []HeardAll
<1>1. FInv => HeardAll
  BY DEF FInv
<1> QED BY <1>1, FramingInvariant, PTL

-----------------------------------------------------------------------------
(* Http: the invariant *)

(* Bytes of the stream the processor has taken. *)
Seen == given - (buflen - bufofs)

HTypes ==
  /\ dir \in {"read", "write"} /\ stream \in Seq(Messages(dir)) /\ given \in 0..StreamLen
  /\ buf \in [Cells -> Nat] /\ buflen \in 0..VBUFSIZE /\ buflen <= given /\ bufofs \in 0..buflen
  /\ inloop \in BOOLEAN
  /\ st \in [done : BOOLEAN, await : BOOLEAN, toread : Nat]
  /\ heard \in Seq(Nat) /\ Len(heard) <= Len(stream)

Numbered == \A x \in 0..buflen-1 : buf[x] = given - buflen + 1 + x

Uncut == ~InHeader(given + 1)

Modes ==
  /\ dir = "read" => /\ lastlen = bufofs /\ ppwantmore = FALSE
                     /\ st.toread = 0 /\ (st.done \/ st.await)
  /\ dir = "write" /\ ~inloop => bufofs = 0 /\ buflen = 0

Follows == ~st.done /\ (st.await \/ st.toread > 0)

InOrder ==
  /\ \A x \in 1..Len(heard) : heard[x] = x
  /\ Len(heard) > 0 => HeaderStart[Len(heard)] + HDR - 1 <= Seen
  /\ \A x \in 1..Len(heard) - 1 : ~Blinds(stream[x])

Place ==
  /\ Follows => /\ Seen + 1 + st.toread = HeaderStart[Len(heard) + 1]
                /\ st.await <=> st.toread = 0
                /\ Len(heard) > 0 => ~Blinds(stream[Len(heard)])
  /\ ~Follows => Len(heard) > 0 /\ Blinds(stream[Len(heard)])

HInv == HTypes /\ Numbered /\ Uncut /\ Modes /\ InOrder /\ Place

-----------------------------------------------------------------------------
(* Where messages start *)

(* The messages of a stream. *)
LEMMA HMessages ==
  ASSUME HttpConstants, stream \in Seq(Messages(dir))
  PROVE  /\ Len(stream) \in Nat
         /\ \A k \in 1..Len(stream) :
              /\ stream[k] \in Messages(dir) /\ stream[k].body \in Nat
              /\ HttpLen(k) = HDR + stream[k].body /\ HttpLen(k) \in Nat
<1>1. ASSUME NEW k \in 1..Len(stream) PROVE stream[k] \in Messages(dir) /\ stream[k].body \in Nat
  <2>1. stream[k] \in Messages(dir)
    OBVIOUS
  <2>2. stream[k].body \in IF dir = "read" THEN ReqBodies ELSE Bodies
    BY <2>1 DEF Messages
  <2> QED BY <2>1, <2>2 DEF HttpConstants
<1>2. HDR \in Nat
  BY DEF HttpConstants
<1> QED BY <1>1, <1>2 DEF HttpLen

(* Where they start. *)
LEMMA HStarts ==
  ASSUME HttpConstants, stream \in Seq(Messages(dir))
  PROVE  /\ HeaderStart[1] = 1
         /\ \A k \in 1..Len(stream) : HeaderStart[k+1] = HeaderStart[k] + (HDR + stream[k].body)
         /\ \A k \in 1..Len(stream) + 1 : HeaderStart[k] \in Nat \ {0}
         /\ \A k \in 1..Len(stream), l \in 1..Len(stream) + 1 :
              k < l => HeaderStart[k] + HttpLen(k) <= HeaderStart[l]
<1> DEFINE n == Len(stream)
           d == [k \in 1..n |-> HttpLen(k)]
           Rec(f) == [k \in 1..n+1 |-> IF k = 1 THEN 1 ELSE f[k-1] + HttpLen(k-1)]
<1>0. n \in Nat /\ d \in [1..n -> Nat]
  BY HMessages
<1>1. PICK f : f = [k \in 1..n+1 |-> IF k = 1 THEN 1 ELSE f[k-1] + d[k-1]]
  BY <1>0, Sums
<1>2. /\ \A k \in 1..n+1 : k # 1 => d[k-1] = HttpLen(k-1)
      /\ \A k \in 1..n : d[k] = HttpLen(k)
  BY <1>0
<1> HIDE DEF d
<1>3. [k \in 1..n+1 |-> IF k = 1 THEN 1 ELSE f[k-1] + d[k-1]] = Rec(f)
  BY <1>2
<1>4. f = Rec(f)
  BY <1>1, <1>3
<1>5. HeaderStart = Rec(HeaderStart)
  BY <1>4 DEF HeaderStart
<1>6. ASSUME NEW k \in 1..n+1
      PROVE HeaderStart[k] = IF k = 1 THEN 1 ELSE HeaderStart[k-1] + HttpLen(k-1)
  BY <1>5
<1>7. HeaderStart[1] = 1
  BY <1>0, <1>6
<1>8. ASSUME NEW k \in 1..n PROVE HeaderStart[k+1] = HeaderStart[k] + HttpLen(k)
  <2>1. k + 1 \in 1..n+1 /\ k + 1 # 1 /\ (k + 1) - 1 = k
    BY <1>0
  <2> QED BY <1>6, <2>1
<1>9. \A k \in 1..n : HeaderStart[k+1] = HeaderStart[k] + d[k]
  BY <1>2, <1>8
<1>10. \A k \in 1..n+1 : HeaderStart[k] \in Nat \ {0}
  BY <1>0, <1>7, <1>9, OffsetTypes
<1>11. \A k \in 1..n, l \in 1..n+1 : k < l => HeaderStart[k] + d[k] <= HeaderStart[l]
  BY <1>0, <1>7, <1>9, OffsetOrder
<1> QED BY <1>2, <1>7, <1>8, <1>10, <1>11 DEF HttpLen

(* Headers do not overlap. *)
LEMMA HApart ==
  ASSUME HttpConstants, stream \in Seq(Messages(dir)),
         NEW k \in 1..Len(stream) + 1, NEW l \in 1..Len(stream) + 1
  PROVE  /\ HeaderStart[k] \in Nat \ {0} /\ HeaderStart[l] \in Nat \ {0} /\ HDR \in Nat \ {0}
         /\ k \in Nat /\ l \in Nat
         /\ k < l => HeaderStart[k] + HDR <= HeaderStart[l]
         /\ l < k => HeaderStart[l] + HDR <= HeaderStart[k]
<1>0. Len(stream) \in Nat /\ HeaderStart[k] \in Nat \ {0} /\ HeaderStart[l] \in Nat \ {0}
      /\ HDR \in Nat \ {0}
  BY HMessages, HStarts DEF HttpConstants
<1>1. ASSUME NEW x \in 1..Len(stream) + 1, NEW y \in 1..Len(stream) + 1, x < y
      PROVE  HeaderStart[x] + HDR <= HeaderStart[y]
  <2>1. x \in 1..Len(stream)
    BY <1>0, <1>1
  <2>2. /\ HeaderStart[x] \in Nat /\ HeaderStart[y] \in Nat
        /\ HeaderStart[x] + HttpLen(x) <= HeaderStart[y]
    BY <1>1, <2>1, HStarts
  <2>3. HttpLen(x) = HDR + stream[x].body /\ stream[x].body \in Nat
    BY <2>1, HMessages
  <2>4. HeaderStart[x] + (HDR + stream[x].body) <= HeaderStart[y] /\ HDR \in Nat
    BY <1>0, <2>2, <2>3
  <2> QED BY <2>2, <2>3, <2>4, Shorter
<1>2. k \in Nat /\ l \in Nat
  BY <1>0
<1> QED BY <1>0, <1>1, <1>2

(* The bytes of message k's header. *)
LEMMA HeaderBytes ==
  ASSUME HttpConstants, stream \in Seq(Messages(dir)), NEW k \in 1..Len(stream)
  PROVE  /\ EndOf(HeaderStart[k] + HDR - 1) = k
         /\ \A b \in Nat : HeaderStart[k] <= b /\ b < HeaderStart[k] + HDR - 1 => EndOf(b) = 0
<1>1. Len(stream) \in Nat /\ k \in 1..Len(stream) + 1
      /\ \A l \in 1..Len(stream) : l \in 1..Len(stream) + 1
  BY HMessages
<1>2. \A l \in 1..Len(stream) : HeaderStart[l] + HDR - 1 = HeaderStart[k] + HDR - 1 => l = k
  <2>1. SUFFICES ASSUME NEW l \in 1..Len(stream),
                        HeaderStart[l] + HDR - 1 = HeaderStart[k] + HDR - 1
                 PROVE  l = k
    OBVIOUS
  <2>2. /\ HeaderStart[k] \in Nat \ {0} /\ HeaderStart[l] \in Nat \ {0} /\ HDR \in Nat \ {0}
        /\ k \in Nat /\ l \in Nat
        /\ k < l => HeaderStart[k] + HDR <= HeaderStart[l]
        /\ l < k => HeaderStart[l] + HDR <= HeaderStart[k]
    BY <1>1, HApart
  <2> HIDE <1>1
  <2> QED BY <2>1, <2>2
<1>3. EndOf(HeaderStart[k] + HDR - 1) = k
  BY <1>2 DEF EndOf, Msgs
<1>4. ASSUME NEW b \in Nat, HeaderStart[k] <= b, b < HeaderStart[k] + HDR - 1
      PROVE  EndOf(b) = 0
  <2>1. SUFFICES ASSUME NEW l \in 1..Len(stream), HeaderStart[l] + HDR - 1 = b
                 PROVE  FALSE
    BY DEF EndOf, Msgs
  <2>2. /\ HeaderStart[k] \in Nat \ {0} /\ HeaderStart[l] \in Nat \ {0} /\ HDR \in Nat \ {0}
        /\ k \in Nat /\ l \in Nat
        /\ k < l => HeaderStart[k] + HDR <= HeaderStart[l]
        /\ l < k => HeaderStart[l] + HDR <= HeaderStart[k]
    BY <1>1, HApart
  <2>3. CASE k = l
    BY <1>4, <2>1, <2>2, <2>3
  <2>4. CASE k < l
    BY <1>4, <2>1, <2>2, <2>4
  <2>5. CASE l < k
    BY <1>4, <2>1, <2>2, <2>5
  <2> QED BY <2>2, <2>3, <2>4, <2>5
<1> QED BY <1>3, <1>4

(* The stream does not change. *)
LEMMA HSame ==
  ASSUME dir' = dir, stream' = stream
  PROVE  /\ HeaderStart' = HeaderStart /\ StreamLen' = StreamLen /\ Msgs' = Msgs
         /\ \A b : InHeader(b)' = InHeader(b)
         /\ \A m : Blinds(m)' = Blinds(m)
<1>1. HeaderStart' = HeaderStart
  BY DEF HeaderStart, HttpLen
<1>2. Msgs' = Msgs
  BY DEF Msgs
<1>3. StreamLen' = StreamLen
  BY <1>1 DEF StreamLen
<1>4. \A b : InHeader(b)' = InHeader(b)
  BY <1>1, <1>2 DEF InHeader
<1>5. \A m : Blinds(m)' = Blinds(m)
  BY DEF Blinds
<1> QED BY <1>1, <1>2, <1>3, <1>4, <1>5

-----------------------------------------------------------------------------
(* What the processor finds *)

(* The numbers in the state. *)
LEMMA Counts ==
  ASSUME HttpConstants, HTypes
  PROVE  /\ buflen \in Nat /\ bufofs \in Nat /\ bufofs <= buflen /\ given \in Nat
         /\ buflen <= given /\ buflen <= VBUFSIZE /\ VBUFSIZE \in Nat /\ HDR \in Nat \ {0}
         /\ Seen \in Nat /\ Seen + (buflen - bufofs) = given
         /\ Len(stream) \in Nat /\ Len(heard) \in Nat /\ Len(heard) <= Len(stream)
         /\ Len(heard) + 1 \in 1..Len(stream) + 1
         /\ StreamLen = HeaderStart[Len(stream) + 1] - 1 /\ StreamLen \in Nat /\ given <= StreamLen
         /\ st.toread \in Nat
<1>1. Len(stream) \in Nat /\ Len(heard) \in Nat /\ Len(heard) <= Len(stream)
  BY HMessages DEF HTypes
<1>2. HeaderStart[Len(stream) + 1] \in Nat \ {0}
  BY <1>1, HStarts DEF HTypes
<1>3. StreamLen = HeaderStart[Len(stream) + 1] - 1 /\ StreamLen \in Nat
  BY <1>2 DEF StreamLen
<1>4. Len(heard) + 1 \in 1..Len(stream) + 1
  BY <1>1
<1>5. given \in 0..StreamLen /\ buflen \in 0..VBUFSIZE /\ buflen <= given /\ bufofs \in 0..buflen
      /\ VBUFSIZE \in Nat /\ HDR \in Nat \ {0} /\ st.toread \in Nat
  BY DEF HTypes, HttpConstants
<1>6. /\ buflen \in Nat /\ bufofs \in Nat /\ bufofs <= buflen /\ given \in Nat
      /\ buflen <= VBUFSIZE /\ given <= StreamLen
  BY <1>3, <1>5
<1>7. Seen \in Nat /\ Seen + (buflen - bufofs) = given
  BY <1>5, <1>6 DEF Seen
<1> QED BY <1>1, <1>3, <1>4, <1>5, <1>6, <1>7

(* The header that the processor waits for is there, and is what strstr()  *)
(* finds.                                                                  *)
LEMMA HeaderFound ==
  ASSUME HttpConstants, HInv, Follows, st.toread = 0, bufofs < buflen
  PROVE  LET k == Len(heard) + 1
         IN  /\ k \in 1..Len(stream) /\ HeaderStart[k] = Seen + 1
             /\ HDR <= buflen - bufofs
             /\ strstr = bufofs + HDR - 1 /\ TakenTo(strstr) = HDR
             /\ EndOf(buf[strstr]) = k
             /\ Version(buflen - bufofs) = {stream[k].ver}
             /\ stream[k].kind # "none" => Parsed(strstr) = {stream[k]}
<1> DEFINE k == Len(heard) + 1
           n == Len(stream)
<1>1. HTypes /\ Numbered /\ Uncut /\ Place /\ stream \in Seq(Messages(dir))
  BY DEF HInv, HTypes
<1>2. /\ buflen \in Nat /\ bufofs \in Nat /\ bufofs <= buflen /\ given \in Nat
      /\ buflen <= VBUFSIZE /\ VBUFSIZE \in Nat /\ HDR \in Nat \ {0}
      /\ Seen \in Nat /\ Seen + (buflen - bufofs) = given /\ buflen <= given
  BY <1>1, Counts
<1>3. /\ n \in Nat /\ k \in 1..n + 1
      /\ StreamLen = HeaderStart[n + 1] - 1 /\ StreamLen \in Nat /\ given <= StreamLen
  BY <1>1, Counts
<1> HIDE DEF k, n
<1>4. HeaderStart[k] = Seen + 1
  BY <1>1, <1>2 DEF Place, k
<1>5. k \in 1..n
  <2>1. HeaderStart[n + 1] \in Nat
    BY <1>1, <1>3, HStarts DEF n
  <2>2. k # n + 1
    BY <1>2, <1>3, <1>4, <2>1
  <2> QED BY <1>3, <2>2
<1>6. HDR <= buflen - bufofs
  <2>1. ~(HeaderStart[k] < given + 1 /\ given + 1 < HeaderStart[k] + HDR)
    BY <1>1, <1>5 DEF Uncut, InHeader, Msgs, n
  <2>2. HeaderStart[k] < given + 1
    BY <1>2, <1>4
  <2>3. given + 1 >= Seen + 1 + HDR
    BY <1>2, <1>4, <2>1, <2>2
  <2> QED BY <1>2, <2>3
<1>7. \A x \in bufofs..bufofs + HDR - 1 :
        x \in Cells /\ buf[x] = Seen + 1 + (x - bufofs) /\ buf[x] \in Nat \ {0}
  <2>1. SUFFICES ASSUME NEW x \in bufofs..bufofs + HDR - 1
                 PROVE  x \in Cells /\ buf[x] = Seen + 1 + (x - bufofs) /\ buf[x] \in Nat \ {0}
    OBVIOUS
  <2>2. x \in 0..buflen - 1 /\ x \in 0..VBUFSIZE - 1 /\ x \in Nat /\ x >= bufofs
    BY <1>2, <1>6, <2>1
  <2>3. buf[x] = given - buflen + 1 + x
    BY <1>1, <2>2 DEF Numbered
  <2>4. buf[x] = Seen + 1 + (x - bufofs)
    BY <1>2, <2>2, <2>3
  <2> QED BY <1>2, <2>2, <2>4 DEF Cells
<1> DEFINE e == bufofs + HDR - 1
<1>8. /\ EndOf(HeaderStart[k] + HDR - 1) = k
      /\ \A b \in Nat : HeaderStart[k] <= b /\ b < HeaderStart[k] + HDR - 1 => EndOf(b) = 0
  BY <1>1, <1>5, HeaderBytes DEF n
<1>9. e \in bufofs..bufofs + HDR - 1 /\ e \in Nat
  BY <1>2
<1>10. buf[e] = HeaderStart[k] + HDR - 1 /\ e \in Cells
  <2>1. buf[e] = Seen + 1 + (e - bufofs) /\ e \in Cells
    BY <1>7, <1>9
  <2> QED BY <1>2, <1>4, <2>1
<1>11. EndOf(buf[e]) = k /\ k # 0
  BY <1>3, <1>5, <1>8, <1>10
<1>12. \A x \in bufofs..bufofs + HDR - 1 : x < e => EndOf(buf[x]) = 0
  <2>1. SUFFICES ASSUME NEW x \in bufofs..bufofs + HDR - 1, x < e PROVE EndOf(buf[x]) = 0
    OBVIOUS
  <2>2. buf[x] = Seen + 1 + (x - bufofs) /\ buf[x] \in Nat
    BY <1>7
  <2>3. x \in Nat /\ x >= bufofs
    BY <1>2
  <2>4. HeaderStart[k] <= buf[x] /\ buf[x] < HeaderStart[k] + HDR - 1
    BY <1>2, <1>4, <2>1, <2>2, <2>3
  <2> QED BY <1>8, <2>2, <2>4
<1> DEFINE ends == {x \in Cells : /\ x >= bufofs /\ EndOf(buf[x]) # 0
                                  /\ \A y \in bufofs..x : buf[y] # 0}
<1>13. e \in ends
  <2>1. \A y \in bufofs..e : buf[y] # 0
    BY <1>7
  <2> QED BY <1>9, <1>10, <1>11, <2>1
<1>14. \A x \in ends : e <= x
  <2>1. SUFFICES ASSUME NEW x \in Cells, x >= bufofs, EndOf(buf[x]) # 0, ~(e <= x) PROVE FALSE
    OBVIOUS
  <2>2. x \in Int
    BY <1>2 DEF Cells
  <2>3. x \in bufofs..bufofs + HDR - 1 /\ x < e
    BY <1>2, <1>9, <2>1, <2>2
  <2> QED BY <1>12, <2>1, <2>3
<1>15. strstr = IF ends = {} THEN -1 ELSE CHOOSE x \in ends : \A y \in ends : x <= y
  BY DEF strstr
<1>16. \A x \in ends : x \in Int
  BY <1>2 DEF Cells
<1> HIDE DEF ends
<1>17. strstr = e
  <2> DEFINE c == CHOOSE x \in ends : \A y \in ends : x <= y
  <2>1. strstr = c
    BY <1>13, <1>15
  <2>2. c \in ends /\ \A y \in ends : c <= y
    BY <1>13, <1>14
  <2> HIDE DEF c
  <2>3. c <= e /\ e <= c /\ c \in Int /\ e \in Int
    BY <1>13, <1>14, <1>16, <2>2
  <2>4. c = e
    BY <2>3
  <2> QED BY <2>1, <2>4
<1>18. TakenTo(strstr) = HDR
  BY <1>2, <1>17 DEF TakenTo
<1>19. InOnePiece(e)
  <2>a. buf[bufofs] <= HeaderStart[EndOf(buf[e])]
    <3>1. bufofs \in bufofs..bufofs + HDR - 1
      BY <1>2
    <3>2. buf[bufofs] = Seen + 1
      BY <1>2, <1>7, <3>1
    <3> QED BY <1>2, <1>4, <1>11, <3>2
  <2>1. SUFFICES ASSUME NEW x \in bufofs..e PROVE buf[x] = buf[e] - (e - x)
    BY <2>a DEF InOnePiece
  <2>2. buf[x] = Seen + 1 + (x - bufofs) /\ x \in Nat
    BY <1>2, <1>7
  <2>3. buf[e] = Seen + 1 + (e - bufofs)
    BY <1>7, <1>9
  <2> QED BY <1>2, <1>9, <2>2, <2>3
<1>20. stream[k].kind # "none" => Parsed(e) = {stream[k]}
  BY <1>11, <1>19 DEF Parsed
<1>21. LineThere(k, buflen - bufofs)
  <2>1. SUFFICES ASSUME NEW x \in 0..HDR - 2
                 PROVE  x < buflen - bufofs /\ buf[bufofs + x] = HeaderStart[k] + x
    BY DEF LineThere
  <2>2. x \in Nat /\ x < HDR /\ bufofs + x \in bufofs..bufofs + HDR - 1
    BY <1>2
  <2>3. buf[bufofs + x] = Seen + 1 + ((bufofs + x) - bufofs)
    BY <1>7, <2>2
  <2> QED BY <1>2, <1>4, <1>6, <2>2, <2>3
<1>22. ASSUME NEW l \in Msgs, LineThere(l, buflen - bufofs) PROVE l = k
  <2>1. HDR > 1 /\ l \in 1..n /\ l \in 1..n + 1
    BY <1>3 DEF HttpConstants, Msgs, n
  <2>2. 0 \in 0..HDR - 2
    BY <1>2, <2>1
  <2>3. buf[bufofs + 0] = HeaderStart[l] + 0
    BY <1>22, <2>2 DEF LineThere
  <2>4. /\ HeaderStart[k] \in Nat \ {0} /\ HeaderStart[l] \in Nat \ {0} /\ HDR \in Nat \ {0}
        /\ k \in Nat /\ l \in Nat
        /\ k < l => HeaderStart[k] + HDR <= HeaderStart[l]
        /\ l < k => HeaderStart[l] + HDR <= HeaderStart[k]
    BY <1>1, <1>3, <2>1, HApart DEF n
  <2>5. bufofs \in bufofs..bufofs + HDR - 1
    BY <1>2
  <2>6. buf[bufofs] = Seen + 1 + (bufofs - bufofs)
    BY <1>7, <2>5
  <2>7. bufofs + 0 = bufofs /\ bufofs - bufofs = 0
    BY <1>2
  <2>8. HeaderStart[l] = HeaderStart[k]
    BY <1>2, <1>4, <2>3, <2>4, <2>6, <2>7
  <2>9. ~(k < l) /\ ~(l < k)
    BY <2>4, <2>8
  <2> QED BY <2>4, <2>9
<1>23. Version(buflen - bufofs) = {stream[k].ver}
  <2>1. k \in Msgs
    BY <1>5 DEF Msgs, n
  <2>2. {l \in Msgs : LineThere(l, buflen - bufofs)} = {k}
    BY <1>21, <1>22, <2>1
  <2> QED BY <2>2 DEF Version
<1> QED BY <1>4, <1>5, <1>6, <1>11, <1>17, <1>18, <1>20, <1>23 DEF k, n

-----------------------------------------------------------------------------
(* The steps *)

HStates == [done : BOOLEAN, await : BOOLEAN, toread : Nat]

(* The processor is not called. *)
LEMMA SamePlace ==
  ASSUME UNCHANGED <<dir, stream, st, heard>>, Seen' = Seen, InOrder, Place
  PROVE  InOrder' /\ Place'
<1>1. HeaderStart' = HeaderStart /\ \A m : Blinds(m)' = Blinds(m)
  BY HSame
<1>2. InOrder'
  BY <1>1 DEF InOrder
<1>3. Follows' = Follows
  BY DEF Follows
<1> QED BY <1>1, <1>2, <1>3 DEF Place

(* The processor takes r bytes of what it was shown. *)
LEMMA BytesTaken ==
  ASSUME HttpConstants, HTypes, Numbered, Uncut,
         UNCHANGED <<dir, stream, given, buf, buflen, inloop>>,
         NEW r \in 0..buflen - bufofs, bufofs' = bufofs + r, st' \in HStates,
         heard' \in Seq(Nat), Len(heard') <= Len(stream)
  PROVE  HTypes' /\ Numbered' /\ Uncut' /\ Seen' = Seen + r
<1>1. StreamLen' = StreamLen /\ \A b : InHeader(b)' = InHeader(b)
  BY HSame
<1>2. bufofs' \in 0..buflen /\ Seen' = Seen + r
  <2>1. buflen \in Nat /\ bufofs \in Nat /\ bufofs <= buflen /\ given \in Nat
    BY Counts
  <2> QED BY <2>1 DEF Seen
<1>3. Messages(dir') = Messages(dir) /\ Cells' = Cells
  BY DEF Cells
<1> QED BY <1>1, <1>2, <1>3 DEF HTypes, Numbered, Uncut, HStates

(* The processor takes the header it waited for. *)
LEMMA HeaderTaken ==
  ASSUME HttpConstants, HInv, Follows, st.toread = 0, bufofs < buflen,
         UNCHANGED <<dir, stream, given, buf, buflen, inloop>>,
         bufofs' = bufofs + HDR, heard' = Append(heard, Len(heard) + 1),
         st' \in HStates, Modes',
         LET m == stream[Len(heard) + 1]
         IN  /\ Blinds(m) => ~Follows'
             /\ ~Blinds(m) => Follows' /\ st'.toread = m.body /\ (st'.await <=> st'.toread = 0)
  PROVE  HInv' /\ Seen' = HeaderStart[Len(heard) + 1] + HDR - 1
<1> DEFINE k == Len(heard) + 1
<1>1. /\ HTypes /\ Numbered /\ Uncut /\ InOrder
      /\ stream \in Seq(Messages(dir)) /\ heard \in Seq(Nat)
  BY DEF HInv, HTypes
<1>2. k \in 1..Len(stream) /\ HeaderStart[k] = Seen + 1 /\ HDR <= buflen - bufofs
  BY HeaderFound
<1>3. /\ Len(heard) \in Nat /\ Len(stream) \in Nat /\ HDR \in Nat \ {0} /\ Seen \in Nat
      /\ buflen \in Nat /\ bufofs \in Nat
  BY <1>1, Counts
<1>4. /\ heard' \in Seq(Nat) /\ Len(heard') = k /\ heard'[k] = k
      /\ \A x \in 1..Len(heard) : heard'[x] = heard[x]
  <2>1. k \in Nat
    BY <1>3
  <2> QED BY <1>1, <1>3, <2>1
<1>5. HTypes' /\ Numbered' /\ Uncut' /\ Seen' = Seen + HDR
  <2>1. HDR \in 0..buflen - bufofs
    BY <1>2, <1>3
  <2>2. Len(heard') <= Len(stream)
    BY <1>2, <1>3, <1>4
  <2> QED BY <1>1, <1>4, <2>1, <2>2, BytesTaken
<1>6. HeaderStart' = HeaderStart /\ \A m : Blinds(m)' = Blinds(m)
  BY HSame
<1>7. Seen' = HeaderStart[k] + HDR - 1
  BY <1>2, <1>3, <1>5
<1>8. k \in Nat /\ k - 1 = Len(heard) /\ k > 0 /\ k # 0
  BY <1>3
<1>9. \A x \in 1..Len(heard) : ~Blinds(stream[x])
  <2>1. SUFFICES ASSUME NEW x \in 1..Len(heard) PROVE ~Blinds(stream[x])
    OBVIOUS
  <2>2. CASE x = Len(heard)
    <3>1. Len(heard) > 0
      BY <1>3, <2>2
    <3> QED BY <2>2, <3>1 DEF HInv, Place
  <2>3. CASE x # Len(heard)
    <3>1. x \in 1..Len(heard) - 1
      BY <1>3, <2>3
    <3> QED BY <1>1, <3>1 DEF InOrder
  <2> QED BY <2>2, <2>3
<1>10. InOrder'
  <2>1. \A x \in 1..k : heard'[x] = x
    <3>1. SUFFICES ASSUME NEW x \in 1..k, x # k PROVE heard'[x] = x
      BY <1>4
    <3>2. x \in 1..Len(heard)
      BY <1>3, <3>1
    <3> QED BY <1>1, <1>4, <3>2 DEF InOrder
  <2>2. \A x \in 1..k - 1 : ~Blinds(stream[x])
    BY <1>8, <1>9
  <2>3. HeaderStart[k] + HDR - 1 <= Seen'
    <3>1. HeaderStart[k] + HDR - 1 \in Int
      BY <1>2, <1>3
    <3> QED BY <1>7, <3>1
  <2> QED BY <1>4, <1>6, <2>1, <2>2, <2>3 DEF InOrder
<1>11. Place'
  <2>1. CASE Blinds(stream[k])
    BY <1>4, <1>6, <1>8, <2>1 DEF Place
  <2>2. CASE ~Blinds(stream[k])
    <3>1. Follows' /\ st'.toread = stream[k].body /\ (st'.await <=> st'.toread = 0)
      BY <2>2
    <3>2. HeaderStart[k + 1] = HeaderStart[k] + (HDR + stream[k].body) /\ stream[k].body \in Nat
      BY <1>1, <1>2, HStarts, HMessages
    <3>3. Seen' + 1 + stream[k].body = HeaderStart[k + 1]
      <4>1. HeaderStart[k + 1] = (Seen + 1) + (HDR + stream[k].body)
        BY <1>2, <3>2
      <4> HIDE DEF k
      <4>2. (Seen + HDR) + 1 + stream[k].body = (Seen + 1) + (HDR + stream[k].body)
        <5>1. Seen \in Nat /\ HDR \in Nat /\ stream[k].body \in Nat
          BY <1>3, <3>2
        <5> QED BY <5>1, Shuffle
      <4> QED BY <1>5, <4>1, <4>2
    <3> QED BY <1>4, <1>6, <2>2, <3>1, <3>3 DEF Place
  <2> QED BY <2>1, <2>2
<1> QED BY <1>5, <1>7, <1>10, <1>11 DEF HInv

(* It takes a piece of a body, or what it does not look at. *)
LEMMA OtherTaken ==
  ASSUME HttpConstants, HInv,
         UNCHANGED <<dir, stream, given, buf, buflen, inloop, heard>>,
         NEW r \in 0..buflen - bufofs, bufofs' = bufofs + r,
         st' \in HStates, Modes',
         Follows => /\ Follows' /\ r <= st.toread /\ st'.toread = st.toread - r
                    /\ st'.await <=> st'.toread = 0,
         ~Follows => ~Follows'
  PROVE  HInv'
<1>1. /\ HTypes /\ Numbered /\ Uncut /\ InOrder /\ Place
      /\ heard \in Seq(Nat) /\ Len(heard) <= Len(stream) /\ stream \in Seq(Messages(dir))
  BY DEF HInv, HTypes
<1>2. HTypes' /\ Numbered' /\ Uncut' /\ Seen' = Seen + r
  BY <1>1, BytesTaken
<1>3. HeaderStart' = HeaderStart /\ \A m : Blinds(m)' = Blinds(m)
  BY HSame
<1>4. /\ Seen \in Nat /\ st.toread \in Nat /\ HDR \in Nat /\ Len(heard) \in Nat /\ r \in Nat
      /\ Len(stream) \in Nat
  <2>1. buflen \in Nat /\ bufofs \in Nat /\ bufofs <= buflen
    BY <1>1, Counts
  <2> QED BY <1>1, <2>1, Counts
<1>5. InOrder'
  <2>1. Len(heard) > 0 => HeaderStart[Len(heard)] + HDR - 1 <= Seen'
    <3>1. SUFFICES ASSUME Len(heard) > 0 PROVE HeaderStart[Len(heard)] + HDR - 1 <= Seen'
      OBVIOUS
    <3>2. Len(heard) \in 1..Len(stream) + 1
      BY <1>1, <1>4, <3>1
    <3>3. HeaderStart[Len(heard)] \in Nat
      BY <1>1, <3>2, HStarts
    <3>4. HeaderStart[Len(heard)] + HDR - 1 <= Seen
      BY <1>1, <3>1 DEF InOrder
    <3> QED BY <1>2, <1>4, <3>3, <3>4
  <2> QED BY <1>1, <1>3, <2>1 DEF InOrder
<1>6. Place'
  <2>1. CASE Follows
    <3>1. /\ Seen + 1 + st.toread = HeaderStart[Len(heard) + 1]
          /\ Len(heard) > 0 => ~Blinds(stream[Len(heard)])
      BY <1>1, <2>1 DEF Place
    <3>2. Seen' + 1 + st'.toread = HeaderStart[Len(heard) + 1]
      BY <1>2, <1>4, <2>1, <3>1
    <3> QED BY <1>3, <2>1, <3>1, <3>2 DEF Place
  <2>2. CASE ~Follows
    BY <1>1, <1>3, <2>2 DEF Place
  <2> QED BY <2>1, <2>2
<1> QED BY <1>2, <1>5, <1>6 DEF HInv

(* A message whose header ends the processor's interest in the stream, and *)
(* one that it can go on behind.                                           *)
LEMMA ReadHeaderState ==
  ASSUME HttpConstants, CanFollow, dir = "read", st \in HStates, st.toread = 0,
         NEW m \in Messages(dir)
  PROVE  LET s == ReadHeader(st, m.ver)
         IN  /\ Ending(m.ver) = "runs"
             /\ s \in HStates /\ s.toread = 0 /\ m.body = 0 /\ (s.done \/ s.await)
             /\ (s.done <=> Blinds(m)) /\ (s.await <=> ~Blinds(m))
<1>1. m.ver \in {0, 1} /\ m.body = 0
  BY DEF Messages, CanFollow
<1>2. ReadHeader(st, m.ver) \in HStates
  <2>1. (m.ver = 0) \in BOOLEAN /\ (m.ver = 1) \in BOOLEAN
    OBVIOUS
  <2> QED BY <2>1 DEF ReadHeader, HStates
<1>3. ReadHeader(st, m.ver).toread = 0
  BY DEF ReadHeader, HStates
<1>4. ReadHeader(st, m.ver).done = (m.ver = 0)
  BY DEF ReadHeader, HStates
<1>5. ReadHeader(st, m.ver).await = (m.ver = 1)
  BY DEF ReadHeader, HStates
<1>6. Blinds(m) <=> m.ver = 0
  BY DEF Blinds
<1>7. m.ver = 1 <=> m.ver # 0
  BY <1>1
<1>8. Ending(m.ver) = "runs"
  BY <1>1 DEF Ending
<1> QED BY <1>1, <1>2, <1>3, <1>4, <1>5, <1>6, <1>7, <1>8

LEMMA WriteHeaderState ==
  ASSUME HttpConstants, dir = "write", st \in HStates, NEW m \in Messages(dir)
  PROVE  LET s == WriteHeader(st, m)
         IN  /\ s \in HStates
             /\ Blinds(m) => ~(~s.done /\ (s.await \/ s.toread > 0))
             /\ ~Blinds(m) => /\ ~s.done /\ s.toread > 0 /\ s.toread = m.body
                              /\ s.await <=> s.toread = 0
<1>1. m.kind \in {"length", "close", "none"} /\ m.body \in Nat
  <2>1. m.kind \in Kinds /\ m.body \in Bodies
    BY DEF Messages
  <2> QED BY <2>1 DEF HttpConstants
<1> DEFINE t == IF m.kind = "length" THEN m.body ELSE 0
<1>2. t \in Nat /\ (m.kind = "close") \in BOOLEAN
  BY <1>1
<1>3. WriteHeader(st, m) \in HStates
  BY <1>2 DEF WriteHeader, HStates
<1>4. WriteHeader(st, m).toread = t
  BY DEF WriteHeader, HStates
<1>5. WriteHeader(st, m).done = (m.kind = "close")
  BY DEF WriteHeader, HStates
<1>6. WriteHeader(st, m).await = FALSE
  BY DEF WriteHeader, HStates
<1>7. Blinds(m) <=> m.kind # "length" \/ m.body = 0
  BY DEF Blinds
<1>8. Blinds(m) => m.kind = "close" \/ t = 0
  BY <1>7
<1>9. ~Blinds(m) => m.kind # "close" /\ t = m.body /\ t > 0
  BY <1>1, <1>7
<1> HIDE DEF t
<1> DEFINE s == WriteHeader(st, m)
<1>10. (s.done <=> m.kind = "close") /\ ~s.await /\ s.toread = t
  BY <1>4, <1>5, <1>6
<1> HIDE DEF s
<1>11. Blinds(m) => ~(~s.done /\ (s.await \/ s.toread > 0))
  <2>1. t = 0 => ~(t > 0)
    BY <1>2
  <2> QED BY <1>8, <1>10, <2>1
<1>12. ~Blinds(m) => ~s.done /\ s.toread > 0 /\ s.toread = m.body /\ (s.await <=> s.toread = 0)
  <2>1. t > 0 => t # 0
    BY <1>2
  <2> QED BY <1>9, <1>10, <2>1
<1> QED BY <1>3, <1>11, <1>12 DEF s

(* The end of a body is where the next header is awaited. *)
LEMMA WriteBodyState ==
  ASSUME st \in HStates, NEW n \in Nat, n <= st.toread, ~st.await
  PROVE  LET s == WriteBody(st, n)
         IN  /\ s \in HStates /\ s.toread = st.toread - n /\ s.done = st.done
             /\ s.await <=> s.toread = 0
<1>1. st.toread \in Nat /\ st.toread - n \in Nat /\ st.await = FALSE
  BY DEF HStates
<1>2. (st.await \/ st.toread = n) \in BOOLEAN
  OBVIOUS
<1>3. WriteBody(st, n) \in HStates
  BY <1>1, <1>2 DEF WriteBody, HStates
<1>4. WriteBody(st, n).toread = st.toread - n
  BY DEF WriteBody, HStates
<1>5. WriteBody(st, n).done = st.done
  BY DEF WriteBody, HStates
<1>6. WriteBody(st, n).await = (st.await \/ st.toread = n)
  BY DEF WriteBody, HStates
<1>7. st.toread = n <=> st.toread - n = 0
  BY <1>1
<1> QED BY <1>1, <1>3, <1>4, <1>5, <1>6, <1>7

LEMMA HttpReadBuffered ==
  ASSUME HttpConstants, CanFollow, HInv, ReadBuffered
  PROVE  /\ HInv' /\ Survives'
         /\ ~st.done /\ heard' # heard =>
              given' - (buflen' - lastlen') = HeaderStart[heard'[Len(heard')]] + HDR - 1
<1>1. /\ HTypes /\ Modes /\ stream \in Seq(Messages(dir)) /\ heard \in Seq(Nat) /\ st \in HStates
      /\ dir = "read"
  BY DEF HInv, HTypes, HStates, ReadBuffered
<1>2. /\ lastlen = bufofs /\ ppwantmore = FALSE /\ st.toread = 0 /\ (st.done \/ st.await)
  BY <1>1 DEF Modes
<1>3. /\ UNCHANGED <<dir, stream, given, buf, buflen, inloop>> /\ bufofs < buflen
      /\ present_pp
  BY DEF ReadBuffered, Shown, fixed
<1>4. /\ buflen \in Nat /\ bufofs \in Nat /\ given \in Nat
      /\ Len(heard) \in Nat /\ HDR \in Nat \ {0}
  BY <1>1, Counts
<1> DEFINE len == buflen - bufofs
<1>5. PICK a \in pp_https_read(len) :
        /\ st' = a.st /\ heard' = IF a.tell = 0 THEN heard ELSE Append(heard, a.tell)
        /\ fate' = IF a.fate = "runs" /\ a.ret > len THEN "past" ELSE a.fate
        /\ IF a.ret < 0
           THEN /\ lastlen' = buflen /\ ppwantmore' = TRUE
                /\ UNCHANGED bufofs
           ELSE /\ bufofs' = bufofs + a.ret
                /\ lastlen' = bufofs + a.ret /\ ppwantmore' = FALSE
  BY <1>3 DEF present_pp, Answers
<1>6. CASE st.done
  <2>1. a = Takes(len, st)
    BY <1>6 DEF pp_https_read
  <2>2. a.ret = len /\ a.st = st /\ a.tell = 0 /\ len \in Nat /\ a.fate = "runs"
    BY <1>3, <1>4, <2>1 DEF Takes
  <2>3. /\ st' = st /\ heard' = heard /\ bufofs' = bufofs + len /\ lastlen' = bufofs'
        /\ ppwantmore' = FALSE
    BY <1>5, <2>2
  <2>l. Survives'
    <3>1. ~(len > len)
      BY <2>2
    <3> QED BY <1>5, <2>2, <3>1 DEF Survives
  <2>4. Modes'
    BY <1>1, <1>2, <1>3, <2>3 DEF Modes
  <2>5. ~Follows /\ ~Follows' /\ len \in 0..buflen - bufofs
    BY <1>6, <2>2, <2>3 DEF Follows
  <2> HIDE DEF len
  <2>6. HInv'
    BY <1>1, <1>3, <2>3, <2>4, <2>5, OtherTaken
  <2> QED BY <1>6, <2>6, <2>l
<1>7. CASE ~st.done
  <2> DEFINE k == Len(heard) + 1
             m == stream[k]
  <2>1. Follows
    BY <1>2, <1>7 DEF Follows
  <2>2. /\ k \in 1..Len(stream)
        /\ strstr = bufofs + HDR - 1 /\ TakenTo(strstr) = HDR
        /\ EndOf(buf[strstr]) = k /\ Version(len) = {m.ver} /\ HDR <= len
    BY <1>2, <1>3, <2>1, HeaderFound
  <2>3. strstr >= 0
    BY <1>4, <2>2
  <2>4. a = [ret |-> TakenTo(strstr), st |-> ReadHeader(st, m.ver), tell |-> EndOf(buf[strstr]),
             fate |-> Ending(m.ver)]
    BY <1>2, <1>7, <2>2, <2>3 DEF pp_https_read
  <2>5. a.ret = HDR /\ a.st = ReadHeader(st, m.ver) /\ a.tell = k /\ ~(a.ret < 0) /\ k # 0
        /\ a.fate = Ending(m.ver)
    BY <1>4, <2>2, <2>4
  <2>6. /\ st' = ReadHeader(st, m.ver) /\ heard' = Append(heard, k) /\ bufofs' = bufofs + HDR
        /\ lastlen' = bufofs' /\ ppwantmore' = FALSE
    BY <1>5, <2>5
  <2>7. m \in Messages(dir)
    BY <1>1, <2>2, HMessages
  <2> HIDE DEF m
  <2>8. /\ Ending(m.ver) = "runs"
        /\ st' \in HStates /\ st'.toread = 0 /\ m.body = 0 /\ (st'.done \/ st'.await)
        /\ (st'.done <=> Blinds(m)) /\ (st'.await <=> ~Blinds(m))
    BY <1>1, <1>2, <2>6, <2>7, ReadHeaderState
  <2>l. Survives'
    <3>1. ~(HDR > len)
      BY <1>4, <2>2
    <3> QED BY <1>5, <2>5, <2>8, <3>1 DEF Survives
  <2>9. Modes'
    BY <1>1, <1>3, <2>6, <2>8 DEF Modes
  <2>10. /\ Blinds(m) => ~Follows'
         /\ ~Blinds(m) => Follows' /\ st'.toread = m.body /\ (st'.await <=> st'.toread = 0)
    BY <2>8 DEF Follows
  <2>11. HInv' /\ Seen' = HeaderStart[k] + HDR - 1
    BY <1>2, <1>3, <2>1, <2>6, <2>8, <2>9, <2>10, HeaderTaken DEF m
  <2>12. Len(heard') = k /\ heard'[k] = k
    BY <1>1, <1>4, <2>6
  <2>13. given' - (buflen' - lastlen') = Seen'
    BY <2>6 DEF Seen
  <2> QED BY <2>11, <2>12, <2>13, <2>l
<1> QED BY <1>6, <1>7

LEMMA HttpReadRefill ==
  ASSUME HttpConstants, CanFollow, HInv, ReadRefill
  PROVE  HInv' /\ Survives'
<1>1. /\ HTypes /\ Modes /\ InOrder /\ Place
      /\ stream \in Seq(Messages(dir)) /\ heard \in Seq(Nat)
      /\ dir = "read"
  BY DEF HInv, HTypes, ReadRefill
<1>2. UNCHANGED <<dir, stream, inloop, st, heard>> /\ ~Shown /\ Survives'
  BY DEF ReadRefill, fixed, Survives
<1>3. lastlen = bufofs /\ ppwantmore = FALSE
  BY <1>1 DEF Modes
<1>4. /\ buflen \in Nat /\ bufofs \in Nat /\ given \in Nat /\ StreamLen \in Nat /\ VBUFSIZE \in Nat
      /\ bufofs <= buflen
  BY <1>1, Counts
<1>5. bufofs = buflen /\ Min(bufofs, lastlen) = buflen /\ buflen - buflen = 0
  BY <1>2, <1>3, <1>4 DEF Shown, Min
<1>6. PICK r \in 1..Min(VBUFSIZE - 0, StreamLen - given) :
         /\ MayStop(given + r)
         /\ buf' = [x \in Cells |->
                      IF x < 0 THEN buf[x + buflen]
                      ELSE IF x < 0 + r THEN given + 1 + x - 0 ELSE buf[x]]
         /\ bufofs' = bufofs - buflen /\ lastlen' = lastlen - buflen
         /\ buflen' = 0 + r /\ given' = given + r
         /\ ppwantmore' = FALSE
  BY <1>5 DEF ReadRefill
<1>7. r \in Nat \ {0} /\ r <= VBUFSIZE /\ given + r <= StreamLen
  <2>1. /\ StreamLen - given \in Int /\ Min(VBUFSIZE, StreamLen - given) <= VBUFSIZE
        /\ Min(VBUFSIZE, StreamLen - given) <= StreamLen - given
        /\ Min(VBUFSIZE, StreamLen - given) \in Int /\ VBUFSIZE - 0 = VBUFSIZE
    BY <1>4 DEF Min
  <2>2. r \in 1..Min(VBUFSIZE, StreamLen - given)
    BY <2>1
  <2> QED BY <1>4, <2>1, <2>2
<1>8. bufofs' = 0 /\ lastlen' = 0 /\ buflen' = r /\ given' = given + r
  BY <1>3, <1>4, <1>5, <1>6, <1>7
<1>9. \A x \in 0..r-1 : x \in Cells /\ buf'[x] = given + 1 + x
  <2>1. SUFFICES ASSUME NEW x \in 0..r-1 PROVE x \in Cells /\ buf'[x] = given + 1 + x
    OBVIOUS
  <2>2. x \in Nat /\ x < r /\ ~(x < 0) /\ x \in Cells /\ x < 0 + r
    BY <1>4, <1>7 DEF Cells
  <2>3. buf'[x] = given + 1 + x - 0
    BY <1>6, <2>2
  <2> QED BY <1>4, <2>2, <2>3
<1>10. buf' \in [Cells -> Nat]
  <2>1. ASSUME NEW x \in Cells
        PROVE  (IF x < 0 THEN buf[x + buflen]
                ELSE IF x < 0 + r THEN given + 1 + x - 0 ELSE buf[x]) \in Nat
    <3>1. x \in Nat /\ ~(x < 0) /\ buf[x] \in Nat
      BY <1>1, <1>4 DEF Cells, HTypes
    <3> QED BY <1>4, <3>1
  <2> QED BY <1>6, <2>1
<1>11. StreamLen' = StreamLen /\ (\A b : InHeader(b)' = InHeader(b))
  BY <1>2, HSame
<1>12. Uncut'
  <2>1. ~InHeader(given + r + 1)
    BY <1>6 DEF MayStop, CanFollow
  <2> QED BY <1>8, <1>11, <2>1 DEF Uncut
<1>13. HTypes'
  <2>1. /\ given' \in 0..StreamLen /\ buflen' \in 0..VBUFSIZE /\ buflen' <= given'
        /\ bufofs' \in 0..buflen'
    BY <1>4, <1>7, <1>8
  <2>2. Messages(dir') = Messages(dir) /\ Cells' = Cells
    BY <1>2 DEF Cells
  <2> QED BY <1>1, <1>2, <1>10, <1>11, <2>1, <2>2 DEF HTypes
<1>14. Numbered'
  <2>1. \A x \in 0..r-1 : buf'[x] = (given + r) - r + 1 + x
    <3>1. SUFFICES ASSUME NEW x \in 0..r-1 PROVE buf'[x] = (given + r) - r + 1 + x
      OBVIOUS
    <3>2. buf'[x] = given + 1 + x
      BY <1>9
    <3> QED BY <1>4, <1>7, <3>2
  <2> QED BY <1>8, <2>1 DEF Numbered
<1>15. Modes'
  BY <1>1, <1>2, <1>6, <1>8 DEF Modes
<1>16. Seen' = Seen
  BY <1>4, <1>5, <1>7, <1>8 DEF Seen
<1>17. InOrder' /\ Place'
  BY <1>1, <1>2, <1>16, SamePlace
<1> QED BY <1>2, <1>12, <1>13, <1>14, <1>15, <1>17 DEF HInv

LEMMA HttpWrite ==
  ASSUME HttpConstants, CanFollow, HInv, Write
  PROVE  HInv' /\ Survives'
<1>1. /\ HTypes /\ Modes /\ InOrder /\ Place
      /\ stream \in Seq(Messages(dir)) /\ heard \in Seq(Nat)
      /\ dir = "write" /\ ~inloop
  BY DEF HInv, HTypes, Write
<1>2. /\ UNCHANGED <<dir, stream, bufofs, lastlen, ppwantmore, st, heard>> /\ inloop' = TRUE
  BY DEF Write, fixed
<1>3. bufofs = 0 /\ buflen = 0
  BY <1>1 DEF Modes
<1>4. /\ given \in Nat /\ StreamLen \in Nat /\ VBUFSIZE \in Nat
      /\ LargestWrite \in Nat /\ LargestWrite <= VBUFSIZE
  BY <1>1, Counts DEF HttpConstants, CanFollow
<1>6. PICK r \in 1..Min(LargestWrite, StreamLen - given) :
         /\ MayStop(given + r)
         /\ buf' = [x \in Cells |->
                      IF 0 <= x /\ x < 0 + r THEN given + 1 + x - 0 ELSE buf[x]]
         /\ buflen' = 0 + r /\ given' = given + r
         /\ fate' = IF 0 + r > VBUFSIZE THEN "overrun" ELSE "runs"
  BY <1>3 DEF Write
<1>7. r \in Nat \ {0} /\ r <= VBUFSIZE /\ given + r <= StreamLen
  <2>1. /\ StreamLen - given \in Int /\ Min(LargestWrite, StreamLen - given) <= LargestWrite
        /\ Min(LargestWrite, StreamLen - given) <= StreamLen - given
        /\ Min(LargestWrite, StreamLen - given) \in Int
    BY <1>4 DEF Min
  <2>2. r \in 1..Min(LargestWrite, StreamLen - given)
    OBVIOUS
  <2> QED BY <1>4, <2>1, <2>2
<1>l. Survives'
  <2>1. ~(0 + r > VBUFSIZE)
    BY <1>4, <1>7
  <2> QED BY <1>6, <2>1 DEF Survives
<1>8. bufofs' = 0 /\ buflen' = r /\ given' = given + r
  BY <1>2, <1>3, <1>6, <1>7
<1>9. \A x \in 0..r-1 : x \in Cells /\ buf'[x] = given + 1 + x
  <2>1. SUFFICES ASSUME NEW x \in 0..r-1 PROVE x \in Cells /\ buf'[x] = given + 1 + x
    OBVIOUS
  <2>2. x \in Nat /\ x < r /\ 0 <= x /\ x \in Cells /\ x < 0 + r
    BY <1>4, <1>7 DEF Cells
  <2>3. buf'[x] = given + 1 + x - 0
    BY <1>6, <2>2
  <2> QED BY <1>4, <2>2, <2>3
<1>10. buf' \in [Cells -> Nat]
  <2>1. ASSUME NEW x \in Cells
        PROVE  (IF 0 <= x /\ x < 0 + r THEN given + 1 + x - 0 ELSE buf[x]) \in Nat
    <3>1. x \in Nat /\ buf[x] \in Nat
      BY <1>1, <1>4 DEF Cells, HTypes
    <3> QED BY <1>4, <3>1
  <2> QED BY <1>6, <2>1
<1>11. StreamLen' = StreamLen /\ (\A b : InHeader(b)' = InHeader(b))
  BY <1>2, HSame
<1>12. Uncut'
  <2>1. ~InHeader(given + r + 1)
    BY <1>6 DEF MayStop, CanFollow
  <2> QED BY <1>8, <1>11, <2>1 DEF Uncut
<1>13. HTypes'
  <2>1. /\ given' \in 0..StreamLen /\ buflen' \in 0..VBUFSIZE /\ buflen' <= given'
        /\ bufofs' \in 0..buflen'
    BY <1>4, <1>7, <1>8
  <2>2. Messages(dir') = Messages(dir) /\ Cells' = Cells /\ inloop' \in BOOLEAN
    BY <1>2 DEF Cells
  <2> QED BY <1>1, <1>2, <1>10, <1>11, <2>1, <2>2 DEF HTypes
<1>14. Numbered'
  <2>1. \A x \in 0..r-1 : buf'[x] = (given + r) - r + 1 + x
    <3>1. SUFFICES ASSUME NEW x \in 0..r-1 PROVE buf'[x] = (given + r) - r + 1 + x
      OBVIOUS
    <3>2. buf'[x] = given + 1 + x
      BY <1>9
    <3> QED BY <1>4, <1>7, <3>2
  <2> QED BY <1>8, <2>1 DEF Numbered
<1>15. Modes'
  BY <1>1, <1>2 DEF Modes
<1>16. Seen' = Seen
  BY <1>3, <1>4, <1>7, <1>8 DEF Seen
<1>17. InOrder' /\ Place'
  BY <1>1, <1>2, <1>16, SamePlace
<1> QED BY <1>l, <1>12, <1>13, <1>14, <1>15, <1>17 DEF HInv

(* The loop ends with an empty buffer. *)
LEMMA HttpEmptied ==
  ASSUME HttpConstants, HInv, dir = "write", buflen - bufofs = 0, KeepRest(0),
         UNCHANGED <<dir, stream, given, st, heard>>
  PROVE  HInv'
<1>1. HTypes /\ Uncut /\ InOrder /\ Place
  BY DEF HInv
<1>2. /\ inloop' = FALSE /\ bufofs' = 0 /\ buflen' = 0
      /\ buf' = [x \in Cells |-> IF x < 0 THEN buf[x + bufofs] ELSE buf[x]]
  BY DEF KeepRest
<1>3. buflen \in Nat /\ bufofs \in Nat /\ given \in Nat /\ VBUFSIZE \in Nat
  BY <1>1, Counts
<1>4. buf' \in [Cells -> Nat]
  <2>1. \A x \in Cells : ~(x < 0) /\ buf[x] \in Nat
    BY <1>1, <1>3 DEF Cells, HTypes
  <2> QED BY <1>2, <2>1
<1>5. StreamLen' = StreamLen /\ (\A b : InHeader(b)' = InHeader(b))
  BY HSame
<1>6. HTypes'
  <2>1. /\ buflen' \in 0..VBUFSIZE /\ buflen' <= given' /\ bufofs' \in 0..buflen'
        /\ inloop' \in BOOLEAN
    <3>1. buflen' = 0 /\ bufofs' = 0 /\ given' \in Nat
      BY <1>2, <1>3
    <3>2. inloop' \in BOOLEAN
      BY <1>2
    <3>3. buflen' \in 0..VBUFSIZE /\ buflen' <= given' /\ bufofs' \in 0..buflen'
      BY <1>3, <3>1
    <3> QED BY <3>2, <3>3
  <2>2. Messages(dir') = Messages(dir) /\ Cells' = Cells
    BY DEF Cells
  <2> QED BY <1>1, <1>4, <1>5, <2>1, <2>2 DEF HTypes
<1>7. Uncut' /\ Numbered' /\ Modes'
  BY <1>1, <1>2, <1>5 DEF Uncut, Numbered, Modes
<1>8. Seen' = Seen
  BY <1>2, <1>3 DEF Seen
<1>9. InOrder' /\ Place'
  BY <1>1, <1>8, SamePlace
<1> QED BY <1>6, <1>7, <1>9 DEF HInv

LEMMA HttpLoop ==
  ASSUME HttpConstants, CanFollow, HInv, vwrite_req
  PROVE  HInv' /\ Survives'
<1> DEFINE len == buflen - bufofs
<1>1. /\ HTypes /\ Modes /\ Place /\ stream \in Seq(Messages(dir)) /\ heard \in Seq(Nat)
      /\ st \in HStates /\ dir = "write" /\ inloop
  BY DEF HInv, HTypes, HStates, vwrite_req
<1>2. /\ UNCHANGED <<dir, stream, given, lastlen, ppwantmore>>
      /\ \/ len = 0 /\ KeepRest(0) /\ UNCHANGED <<fate, st, heard>> /\ Survives'
         \/ len # 0 /\ \E a \in pp_https_write(len) :
              /\ Answers(a, len)
              /\ IF a.ret > 0
                 THEN bufofs' = bufofs + a.ret /\ UNCHANGED <<buf, buflen, inloop>>
                 ELSE KeepRest(len)
  BY DEF vwrite_req, fixed, Survives
<1>3. CASE len = 0 /\ KeepRest(0) /\ UNCHANGED <<fate, st, heard>> /\ Survives'
  BY <1>1, <1>2, <1>3, HttpEmptied
<1>4. ASSUME NEW a \in pp_https_write(len), len # 0, Answers(a, len),
             IF a.ret > 0
             THEN bufofs' = bufofs + a.ret /\ UNCHANGED <<buf, buflen, inloop>>
             ELSE KeepRest(len)
      PROVE  HInv' /\ Survives'
  <2>1. /\ buflen \in Nat /\ bufofs \in Nat /\ Len(heard) \in Nat /\ HDR \in Nat \ {0}
        /\ bufofs < buflen /\ len \in Nat \ {0} /\ st.toread \in Nat
    <3>1. buflen \in Nat /\ bufofs \in Nat /\ Len(heard) \in Nat /\ HDR \in Nat \ {0}
          /\ bufofs <= buflen /\ st.toread \in Nat
      BY <1>1, Counts
    <3> QED BY <1>4, <3>1
  <2>2. st' = a.st /\ heard' = IF a.tell = 0 THEN heard ELSE Append(heard, a.tell)
    BY <1>4 DEF Answers
  <2>l. ASSUME a.fate = "runs", a.ret \in 0..len PROVE Survives'
    <3>1. ~(a.ret > len)
      BY <2>1, <2>l
    <3> QED BY <1>4, <2>l, <3>1 DEF Answers, Survives
  <2>3. ASSUME a.ret \in Nat \ {0}
        PROVE  /\ bufofs' = bufofs + a.ret /\ UNCHANGED <<buf, buflen, inloop>> /\ Modes'
    <3>1. a.ret > 0
      BY <2>3
    <3>2. bufofs' = bufofs + a.ret /\ UNCHANGED <<buf, buflen, inloop>>
      BY <1>4, <3>1
    <3> QED BY <1>1, <1>2, <3>2 DEF Modes
  <2>4. CASE ~Follows
    <3>1. st.done \/ (~st.done /\ ~(st.toread # 0) /\ ~st.await /\ st.toread = 0)
      BY <2>1, <2>4 DEF Follows
    <3>2. a = Takes(len, st)
      <4>1. CASE st.done
        BY <4>1 DEF pp_https_write
      <4>2. CASE ~st.done /\ st.toread = 0 /\ ~st.await
        BY <4>2 DEF pp_https_write
      <4> QED BY <3>1, <4>1, <4>2
    <3>3. a.ret = len /\ a.st = st /\ a.tell = 0 /\ a.fate = "runs"
      BY <3>2 DEF Takes
    <3>l. Survives'
      BY <2>1, <2>l, <3>3
    <3>4. st' = st /\ heard' = heard /\ bufofs' = bufofs + len
          /\ UNCHANGED <<buf, buflen, inloop>> /\ Modes'
      BY <2>1, <2>2, <2>3, <3>3
    <3>5. ~Follows' /\ len \in 0..buflen - bufofs
      BY <2>1, <2>4, <3>4 DEF Follows
    <3> HIDE DEF len
    <3> QED BY <1>1, <1>2, <2>4, <3>4, <3>5, <3>l, OtherTaken
  <2>5. CASE Follows /\ st.toread # 0
    <3>1. ~st.done /\ ~st.await
      BY <1>1, <2>5 DEF Follows, Place
    <3>2. a = Takes(Used(len), WriteBody(st, Used(len)))
      BY <2>5, <3>1 DEF pp_https_write
    <3> DEFINE u == Used(len)
    <3>3. u \in Nat \ {0} /\ u <= st.toread /\ u \in 0..buflen - bufofs /\ u \in Nat
      BY <2>1, <2>5 DEF Used, Min
    <3> HIDE DEF u
    <3>4. a.ret = u /\ a.st = WriteBody(st, u) /\ a.tell = 0 /\ a.fate = "runs"
      BY <3>2 DEF Takes, u
    <3>l. Survives'
      BY <2>l, <3>3, <3>4
    <3>5. /\ st' = WriteBody(st, u) /\ heard' = heard /\ bufofs' = bufofs + u
          /\ UNCHANGED <<buf, buflen, inloop>> /\ Modes'
      BY <2>2, <2>3, <3>3, <3>4
    <3>6. /\ st' \in HStates /\ st'.toread = st.toread - u /\ st'.done = st.done
          /\ (st'.await <=> st'.toread = 0)
      BY <1>1, <3>1, <3>3, <3>5, WriteBodyState
    <3>7. Follows'
      <4>1. st'.toread \in Nat
        BY <3>6 DEF HStates
      <4>2. st'.toread = 0 \/ st'.toread > 0
        BY <4>1
      <4>3. ~st'.done
        BY <3>1, <3>6
      <4> QED BY <3>6, <4>2, <4>3 DEF Follows
    <3> QED BY <1>1, <1>2, <2>5, <3>3, <3>5, <3>6, <3>7, <3>l, OtherTaken
  <2>6. CASE Follows /\ st.toread = 0
    <3> DEFINE k == Len(heard) + 1
               m == stream[k]
    <3>1. ~st.done /\ st.await
      BY <1>1, <2>6 DEF Follows, Place
    <3>2. /\ k \in 1..Len(stream) /\ HDR <= len
          /\ strstr = bufofs + HDR - 1 /\ TakenTo(strstr) = HDR
          /\ EndOf(buf[strstr]) = k /\ Parsed(strstr) = {m}
      <4>1. k \in 1..Len(stream) => m.kind # "none"
        <5>1. SUFFICES ASSUME k \in 1..Len(stream) PROVE m.kind # "none"
          OBVIOUS
        <5>2. m \in Messages("write")
          BY <1>1, <5>1, HMessages
        <5> QED BY <5>2 DEF Messages, CanFollow
      <4> QED BY <2>1, <2>6, <4>1, HeaderFound
    <3>3. ~(strstr < 0)
      BY <2>1, <3>2
    <3>4. a = [ret |-> TakenTo(strstr), st |-> WriteHeader(st, m),
               tell |-> EndOf(buf[strstr]), fate |-> "runs"]
      BY <2>6, <3>1, <3>2, <3>3 DEF pp_https_write
    <3>5. a.ret = HDR /\ a.st = WriteHeader(st, m) /\ a.tell = k /\ k # 0 /\ a.fate = "runs"
      BY <2>1, <3>2, <3>4
    <3>l. Survives'
      <4>1. HDR \in 0..len
        BY <2>1, <3>2
      <4> QED BY <2>l, <3>5, <4>1
    <3>6. /\ st' = WriteHeader(st, m) /\ heard' = Append(heard, k) /\ bufofs' = bufofs + HDR
          /\ UNCHANGED <<buf, buflen, inloop>> /\ Modes'
      BY <2>1, <2>2, <2>3, <3>5
    <3>7. m \in Messages(dir)
      BY <1>1, <3>2, HMessages
    <3> HIDE DEF m
    <3>8. /\ st' \in HStates
          /\ Blinds(m) => ~(~st'.done /\ (st'.await \/ st'.toread > 0))
          /\ ~Blinds(m) => /\ ~st'.done /\ st'.toread > 0 /\ st'.toread = m.body
                           /\ st'.await <=> st'.toread = 0
      BY <1>1, <3>6, <3>7, WriteHeaderState
    <3>9. /\ Blinds(m) => ~Follows'
          /\ ~Blinds(m) => Follows' /\ st'.toread = m.body /\ (st'.await <=> st'.toread = 0)
      BY <3>8 DEF Follows
    <3> QED BY <1>2, <2>1, <2>6, <3>6, <3>8, <3>9, <3>l, HeaderTaken DEF m
  <2> QED BY <2>4, <2>5, <2>6
<1> QED BY <1>2, <1>3, <1>4

LEMMA HInitially ==
  ASSUME HttpConstants, HttpInit
  PROVE  HInv
<1>1. /\ dir \in {"read", "write"} /\ stream \in Seq(Messages(dir))
      /\ given = 0 /\ buflen = 0 /\ bufofs = 0 /\ lastlen = 0
      /\ ppwantmore = FALSE /\ inloop = FALSE /\ heard = << >>
  BY DEF HttpInit
<1>2. st \in HStates /\ st.done = FALSE /\ st.await = TRUE /\ st.toread = 0
  BY DEF HttpInit, HStates
<1>3. buf \in [Cells -> Nat] /\ VBUFSIZE \in Nat /\ HDR \in Nat
  BY DEF HttpInit, HttpConstants
<1>4. Len(heard) = 0 /\ heard \in Seq(Nat)
  BY <1>1
<1>5. /\ Len(stream) \in Nat /\ HeaderStart[1] = 1
      /\ \A k \in 1..Len(stream) + 1 : HeaderStart[k] \in Nat \ {0}
  BY <1>1, HMessages, HStarts
<1>6. StreamLen \in Nat
  <2>1. HeaderStart[Len(stream) + 1] \in Nat \ {0}
    BY <1>5
  <2> QED BY <2>1 DEF StreamLen
<1>7. HTypes
  <2>1. given \in 0..StreamLen /\ buflen \in 0..VBUFSIZE /\ buflen <= given /\ bufofs \in 0..buflen
    BY <1>1, <1>3, <1>6
  <2>2. Len(heard) <= Len(stream) /\ inloop \in BOOLEAN
    <3>1. inloop \in BOOLEAN
      BY <1>1
    <3> QED BY <1>4, <1>5, <3>1
  <2> QED BY <1>1, <1>2, <1>3, <1>4, <2>1, <2>2 DEF HTypes, HStates
<1>8. Numbered /\ Modes
  BY <1>1, <1>2 DEF Numbered, Modes
<1>9. Uncut
  <2>1. SUFFICES ASSUME NEW k \in 1..Len(stream), HeaderStart[k] < 1 PROVE FALSE
    BY <1>1 DEF Uncut, InHeader, Msgs
  <2>2. k \in 1..Len(stream) + 1
    BY <1>5
  <2>3. HeaderStart[k] \in Nat \ {0}
    BY <1>5, <2>2
  <2> QED BY <2>1, <2>3
<1>10. InOrder
  BY <1>4 DEF InOrder
<1>11. Place
  <2>1. Follows
    BY <1>2 DEF Follows
  <2>2. Seen = 0
    BY <1>1 DEF Seen
  <2> QED BY <1>2, <1>4, <1>5, <2>1, <2>2 DEF Place
<1> QED BY <1>7, <1>8, <1>9, <1>10, <1>11 DEF HInv

LEMMA HStep ==
  ASSUME HttpConstants, CanFollow, HInv, Survives, [HttpNext]_http_vars
  PROVE  HInv' /\ Survives'
<1>1. CASE UNCHANGED http_vars
  <2>1. UNCHANGED <<dir, stream, given, buf, buflen, bufofs, lastlen, ppwantmore,
                    fate, inloop, st, heard>>
    BY <1>1 DEF http_vars
  <2>2. Seen' = Seen
    BY <2>1 DEF Seen
  <2>3. HTypes /\ Numbered /\ Uncut /\ Modes /\ InOrder /\ Place
    BY DEF HInv
  <2>4. InOrder' /\ Place'
    BY <2>1, <2>2, <2>3, SamePlace
  <2>5. /\ StreamLen' = StreamLen /\ (\A b : InHeader(b)' = InHeader(b))
        /\ Messages(dir') = Messages(dir) /\ Cells' = Cells
    BY <2>1, HSame DEF Cells
  <2>6. HTypes'
    BY <2>1, <2>3, <2>5 DEF HTypes
  <2>7. Numbered' /\ Uncut' /\ Modes'
    BY <2>1, <2>3, <2>5 DEF Numbered, Uncut, Modes
  <2> QED BY <2>1, <2>4, <2>6, <2>7 DEF HInv, Survives
<1> QED BY <1>1, HttpReadBuffered, HttpReadRefill, HttpWrite, HttpLoop DEF HttpNext

-----------------------------------------------------------------------------
(* What follows *)

(* The messages whose header the processor has taken. *)
LEMMA Logged ==
  ASSUME HttpConstants, HInv, NEW k \in 1..Len(stream)
  PROVE  /\ Followed(k) /\ HeaderStart[k] + HDR - 1 <= Seen => k <= Len(heard)
         /\ k <= Len(heard) => Followed(k) /\ HeaderStart[k] + HDR - 1 <= Seen
<1>1. HTypes /\ InOrder /\ Place /\ stream \in Seq(Messages(dir))
  BY DEF HInv, HTypes
<1> DEFINE L == Len(heard)
<1>2. /\ Len(stream) \in Nat /\ L \in Nat /\ L <= Len(stream) /\ Seen \in Nat /\ HDR \in Nat \ {0}
      /\ L + 1 \in 1..Len(stream) + 1 /\ st.toread \in Nat
  BY <1>1, Counts
<1>3. k \in 1..Len(stream) + 1 /\ k \in Nat
  BY <1>2
<1> HIDE DEF L
<1>4. ASSUME Followed(k), HeaderStart[k] + HDR - 1 <= Seen, ~(k <= L) PROVE FALSE
  <2>1. CASE Follows
    <3>1. Seen + 1 + st.toread = HeaderStart[L + 1]
      BY <1>1, <2>1 DEF Place, L
    <3>2. /\ HeaderStart[k] \in Nat /\ HeaderStart[L + 1] \in Nat
          /\ L + 1 < k => HeaderStart[L + 1] + HDR <= HeaderStart[k]
      BY <1>1, <1>2, <1>3, HApart
    <3>3. L + 1 = k \/ L + 1 < k
      BY <1>2, <1>3, <1>4
    <3>4. CASE L + 1 = k
      <4>1. HeaderStart[k] = Seen + 1 + st.toread
        BY <3>1, <3>4
      <4>2. HeaderStart[k] + HDR - 1 <= Seen
        BY <1>4
      <4> QED BY <1>2, <3>2, <4>1, <4>2, TooFar
    <3>5. CASE L + 1 < k
      BY <1>2, <1>4, <3>1, <3>2, <3>5
    <3> QED BY <3>3, <3>4, <3>5
  <2>2. CASE ~Follows
    <3>1. L > 0 /\ Blinds(stream[L])
      BY <1>1, <2>2 DEF Place, L
    <3>2. L \in 1..k-1
      BY <1>2, <1>3, <1>4, <3>1
    <3> QED BY <1>4, <3>1, <3>2 DEF Followed
  <2> QED BY <2>1, <2>2
<1>5. ASSUME k <= L PROVE Followed(k) /\ HeaderStart[k] + HDR - 1 <= Seen
  <2>1. L > 0 /\ L \in 1..Len(stream) + 1
    BY <1>2, <1>3, <1>5
  <2>2. HeaderStart[L] + HDR - 1 <= Seen
    BY <1>1, <2>1 DEF InOrder, L
  <2>3. /\ HeaderStart[k] \in Nat /\ HeaderStart[L] \in Nat
        /\ k < L => HeaderStart[k] + HDR <= HeaderStart[L]
    BY <1>1, <1>3, <2>1, HApart
  <2>4. HeaderStart[k] + HDR - 1 <= Seen
    <3>1. CASE k = L
      BY <2>2, <3>1
    <3>2. CASE k < L
      BY <1>2, <2>2, <2>3, <3>2
    <3> QED BY <1>2, <1>3, <1>5, <3>1, <3>2
  <2>5. \A x \in 1..k-1 : x \in 1..L - 1
    BY <1>2, <1>3, <1>5
  <2>6. Followed(k)
    BY <1>1, <2>5 DEF InOrder, Followed, L
  <2> QED BY <2>4, <2>6
<1> QED BY <1>4, <1>5 DEF L

LEMMA RequestsInLog ==
  ASSUME HttpConstants, HInv
  PROVE  HeardBeforeServed
<1>1. SUFFICES ASSUME dir = "read"
               PROVE  /\ \A x \in 1..Len(heard) : heard[x] = x
                      /\ \A k \in Msgs :
                           Followed(k) /\ HeaderStart[k] + HDR - 1 <= given - (buflen - lastlen)
                             => k <= Len(heard)
  BY DEF HeardBeforeServed
<1>2. given - (buflen - lastlen) = Seen
  BY <1>1 DEF HInv, Modes, Seen
<1>3. \A x \in 1..Len(heard) : heard[x] = x
  BY DEF HInv, InOrder
<1> QED BY <1>2, <1>3, Logged DEF Msgs

LEMMA ResponsesInLog ==
  ASSUME HttpConstants, HInv
  PROVE  HeardResponses
<1>1. SUFFICES ASSUME dir = "write", ~inloop
               PROVE  /\ \A x \in 1..Len(heard) : heard[x] = x
                      /\ {k \in Msgs : Followed(k) /\ HeaderStart[k] + HDR - 1 <= given}
                           = 1..Len(heard)
                      /\ buflen = 0
  BY DEF HeardResponses
<1>2. buflen = 0 /\ bufofs = 0
  BY <1>1 DEF HInv, Modes
<1>3. Len(heard) \in Nat /\ Len(stream) \in Nat /\ Len(heard) <= Len(stream) /\ given \in Nat
  BY Counts DEF HInv
<1>4. Seen = given
  BY <1>2, <1>3 DEF Seen
<1>5. \A k \in 1..Len(heard) : k \in 1..Len(stream) /\ k <= Len(heard)
  BY <1>3
<1>6. \A k \in 1..Len(stream) : k <= Len(heard) => k \in 1..Len(heard)
  BY <1>3
<1>7. {k \in Msgs : Followed(k) /\ HeaderStart[k] + HDR - 1 <= given} = 1..Len(heard)
  BY <1>4, <1>5, <1>6, Logged DEF Msgs
<1>8. \A x \in 1..Len(heard) : heard[x] = x
  BY DEF HInv, InOrder
<1> QED BY <1>2, <1>7, <1>8

(* What pp_https knows of the stream, for streams of any length, responses *)
(* with bodies of any sizes and any size of the buffer that holds the      *)
(* largest write().                                                        *)
THEOREM HttpInvariant ==
  ASSUME CanFollow
  PROVE  HttpSpec => [](HInv /\ Survives)
<1>1. HttpInit => HInv /\ Survives
  BY HttpAssumption, HInitially DEF HttpInit, Survives
<1>2. HInv /\ Survives /\ [HttpNext]_http_vars => HInv' /\ Survives'
  BY HttpAssumption, HStep
<1> QED BY <1>1, <1>2, PTL DEF HttpSpec

(* The processor does not bring the program down: strstr() never runs into *)
(* what earlier messages left behind the end of the buffer, the VERSION is *)
(* always there, and no copy leaves wbuf.  For requests without a body,    *)
(* headers that no call cuts and writes that fit into wbuf.                *)
THEOREM ProcessorSurvives ==
  ASSUME CanFollow
  PROVE  HttpSpec => []Survives
<1> QED BY HttpInvariant, PTL

(* When read() has given the application the end of a request's header,    *)
(* the request is in the log, once and in order.                           *)
THEOREM RequestsHeardFirst ==
  ASSUME CanFollow
  PROVE  HttpSpec => []HeardBeforeServed
<1>1. HInv => HeardBeforeServed
  BY HttpAssumption, RequestsInLog
<1> QED BY <1>1, HttpInvariant, PTL

(* When write() returns, the responses up to the one that blinds the       *)
(* processor are logged, once and in order, and wbuf is empty.  For writes *)
(* that fit into an empty wbuf: a larger one is copied beyond it.          *)
THEOREM ResponsesHeard ==
  ASSUME CanFollow
  PROVE  HttpSpec => []HeardResponses
<1>1. HInv => HeardResponses
  BY HttpAssumption, ResponsesInLog
<1> QED BY <1>1, HttpInvariant, PTL

(* The read() that logs a request ends with that request's header.         *)
THEOREM RequestsIsolated ==
  ASSUME CanFollow
  PROVE  HttpSpec => IsolatedRequests
<1> DEFINE A == dir = "read" /\ ~st.done /\ heard' # heard /\ fate' = "runs" =>
                  given' - (buflen' - lastlen') = HeaderStart[heard'[Len(heard')]] + HDR - 1
<1>1. HInv /\ [HttpNext]_http_vars => [A]_http_vars
  <2>1. ASSUME HInv, HttpNext, dir = "read", ~st.done, heard' # heard PROVE A
    <3>1. ReadBuffered
      BY <2>1 DEF HttpNext, ReadRefill, Write, vwrite_req
    <3> QED BY <2>1, <3>1, HttpAssumption, HttpReadBuffered
  <2> QED BY <2>1
<1>2. HttpSpec => [][A]_http_vars
  BY <1>1, HttpInvariant, PTL DEF HttpSpec
<1> QED BY <1>2 DEF IsolatedRequests
=============================================================================
