----------------------------- MODULE LogDProofs -----------------------------
(***************************************************************************)
(* Proofs about LogD, for every number of descriptors, connections and     *)
(* records, every size of header, record and buffer, and however read()    *)
(* cuts the streams.                                                       *)
(*                                                                         *)
(* Types hold whatever connections break (AInv).  That a buffer always has *)
(* room, and that the log is the one RecordLog describes, hold as long as  *)
(* nobody connects after a connection has broken (LastBreaks): accept()    *)
(* may give its descriptor to a new client, whose buffer then starts with  *)
(* what b_end still counts of the old one.  BInv says that what is on its  *)
(* way through a buffer and a socket is what comes next in the log.        *)
(***************************************************************************)
EXTENDS LogD, FiniteSetTheorems, SequenceTheorems, WellFoundedInduction, TLAPS

(* The descriptors the daemon has data of. *)
InUse(f) == f \in active \/ (pc = "last" /\ f = infd)

(* What select() found is still there, and the two callers of              *)
(* transfer_out().                                                         *)
Rounds ==
  /\ pc \in {"out", "last"} => infd \in Fds /\ infd \in ready
  /\ pc = "out" => infd \in active
  /\ pc = "last" => infd \notin active
  /\ pc \in {"serve", "out", "last"} => \A f \in ready : f = sock \/ InUse(f)
  /\ sock \in ready => \E c \in Conns : phase[c] = "pending"

(* A connection has one descriptor. *)
Peers ==
  \A f \in Fds : InUse(f) =>
    /\ peer[f] \in Conns /\ phase[peer[f]] \in {"up", "closed", "broken"}
    /\ Len(relay[f]) = b_end[f]
    /\ \A g \in Fds \ {f} : InUse(g) => peer[g] # peer[f]

(* The room in a buffer; between calls of transfer_out(), no record waits  *)
(* in it.                                                                  *)
Room(f) ==
  /\ b_end[f] + avail[f] = RELAY_BUF
  /\ pc # "exit" /\ ~(pc \in {"out", "last"} /\ f = infd) /\ f \in active /\ b_end[f] > HDR
       => ~(Framed(relay[f]) /\ b_end[f] >= relay[f][1][4])

(* There is a descriptor for each connection that waits for one. *)
Places == Cardinality(Live) <= NFds

AInv == TypeOK /\ Rounds /\ Peers /\ Places /\ \A f \in Fds : Room(f)

-----------------------------------------------------------------------------
LastBreaks == \A c \in Breakers : c = NConns

(* Byte b comes after byte a in the stream of a connection. *)
Follows(a, b) ==
  /\ b[1] = a[1]
  /\ IF a[3] < a[4] THEN b = <<a[1], a[2], a[3] + 1, a[4]>>
     ELSE b[2] = a[2] + 1 /\ b[3] = 1

(* q is what is still to be logged of connection c, in phase ph, after     *)
(* done records: whole records from the next one on to the last that was   *)
(* sent, but for a broken connection.                                      *)
Stream(c, q, sent, done, ph) ==
  /\ \A k \in 1..Len(q) : q[k] \in DataBytes /\ q[k][1] = c /\ q[k][2] <= sent
  /\ \A k \in 1..Len(q)-1 : Follows(q[k], q[k+1])
  /\ Len(q) > 0 => q[1][2] = done + 1 /\ q[1][3] = 1
  /\ ph # "broken" =>
       /\ Len(q) = 0 => done = sent
       /\ Len(q) > 0 => q[Len(q)][2] = sent /\ q[Len(q)][3] = q[Len(q)][4]

(* It is in the socket, or in the buffer of a descriptor and the socket.   *)
OnWire(c) == Stream(c, chan[c], nsent[c], Logged(c), phase[c])

Through(f, c) ==
  Stream(c, relay[f] \o chan[c], nsent[c], Logged(c), phase[c])

Has(f, c) == InUse(f) /\ peer[f] = c

(* What comes next of a connection, from the time it is made to the time   *)
(* it is let go of.                                                        *)
Carried(c) ==
  /\ phase[c] \in {"new", "pending"} => OnWire(c)
  /\ \A f \in Fds : Has(f, c) => Through(f, c)
  /\ phase[c] = "up" => \E f \in Fds : Has(f, c)
  /\ phase[c] = "closed" => Logged(c) = nsent[c] \/ \E f \in Fds : Has(f, c)

(* transfer_out() is called a last time when nothing more can come. *)
LastCall ==
  pc = "last" => phase[peer[infd]] \in {"closed", "broken"} /\ chan[peer[infd]] = << >>

(* Connections are made and accepted in the order of their numbers; a      *)
(* descriptor on which bytes were left behind is not used again.           *)
Order ==
  /\ \A c, d \in Conns : c < d =>
       /\ phase[c] = "new" => phase[d] = "new"
       /\ phase[c] = "pending" => phase[d] \in {"new", "pending"}
  /\ \A c \in Conns : phase[c] = "broken" => c \in Breakers
  /\ \A f \in Fds : InUse(f) \/ b_end[f] = 0
                    \/ \A c \in Conns : phase[c] \notin {"new", "pending"}

AllWhole == \A k \in 1..Len(log) : Whole(log[k].rec) /\ log[k].rec[1][1] \in Conns

Flow == (\A c \in Conns : Carried(c)) /\ LastCall /\ Order

BInv == AllWhole /\ (pc # "exit" => Flow)

-----------------------------------------------------------------------------
(* Numbers, bytes and sequences *)

LEMMA Sizes ==
  /\ HDR \in Nat /\ HDR >= 1 /\ MaxRec \in Nat /\ RELAY_BUF \in Nat
  /\ MaxRec >= HDR /\ RELAY_BUF >= MaxRec /\ RELAY_BUF > HDR
  /\ NFds \in Nat /\ NConns \in Nat /\ MaxRecs \in Nat
BY HdrAssumption, SizesAssumption, LogDBounds

(* The lowest descriptor, or the oldest connection, of a set. *)
LEMMA MinOfLeast ==
  ASSUME NEW S \in SUBSET Nat, S # {}
  PROVE  MinOf(S) \in S /\ \A l \in S : MinOf(S) <= l
<1> DEFINE R == OpToRel(<, Nat)
<1>1. IsWellFoundedOn(R, Nat)
  BY NatLessThanWellFounded
<1>2. \A x, y \in Nat : <<y, x>> \in R <=> y < x
  BY DEF OpToRel
<1> HIDE DEF R
<1>3. PICK x \in S : \A y \in S : ~(<<y, x>> \in R)
  BY <1>1, WFMin
<1>4. ASSUME NEW y \in S PROVE x <= y
  <2>1. x \in Nat /\ y \in Nat
    OBVIOUS
  <2>2. ~(y < x)
    BY <1>2, <1>3, <2>1
  <2> QED BY <2>1, <2>2
<1> QED BY <1>4 DEF MinOf

LEMMA ByteFields ==
  /\ \A b \in DataBytes : /\ b[1] \in Conns /\ b[2] \in 1..MaxRecs /\ b[3] \in 1..MaxRec
                          /\ b[4] \in HDR..MaxRec /\ b[3] <= b[4]
                          /\ b[2] \in Nat /\ b[3] \in Nat /\ b[4] \in Nat /\ b[4] >= HDR
                          /\ b = <<b[1], b[2], b[3], b[4]>>
  /\ \A b \in Bytes : b = Zero \/ b \in DataBytes
  /\ Zero \in Bytes /\ Zero \notin DataBytes /\ DataBytes \subseteq Bytes
BY Sizes DEF DataBytes, Bytes, Zero, Conns

LEMMA RecordType ==
  ASSUME NEW c \in Conns, NEW n \in 1..MaxRecs, NEW s \in HDR..MaxRec
  PROVE  /\ Record(c, n, s) \in Seq(DataBytes) /\ Len(Record(c, n, s)) = s
         /\ \A k \in 1..s : Record(c, n, s)[k] = <<c, n, k, s>>
<1>1. s \in Nat
  BY Sizes
<1>2. ASSUME NEW k \in 1..s PROVE <<c, n, k, s>> \in DataBytes
  <2>1. k \in 1..MaxRec /\ k <= s
    BY Sizes
  <2> QED BY <2>1 DEF DataBytes
<1> QED BY <1>1, <1>2 DEF Record

(* The size transfer_out() finds at the front of a buffer. *)
LEMMA FrontSize ==
  ASSUME NEW q \in Seq(Bytes), Len(q) >= HDR
  PROVE  /\ frozen_sizes(q) \subseteq Nat
         /\ Framed(q) => q[1] \in DataBytes /\ q[1][4] \in Nat
<1>1. q[1] \in Bytes
  BY Sizes
<1>2. Framed(q) => q[1] \in DataBytes
  BY <1>1, ByteFields DEF Framed
<1> QED BY <1>2, ByteFields, Sizes DEF frozen_sizes

LEMMA LiveFinite == IsFiniteSet(Live) /\ Cardinality(Live) \in Nat
<1>1. IsFiniteSet(Conns)
  BY Sizes, FS_Interval DEF Conns
<1>2. Live \in SUBSET Conns
  BY DEF Live
<1> QED BY <1>1, <1>2, FS_Subset, FS_CardinalityType

-----------------------------------------------------------------------------
(* Types and room: the clients *)

Idler == UNCHANGED <<peer, active, relay, b_end, avail, timediff, infd, ready, pc, log>>

LEMMA ClientA ==
  ASSUME AInv, Idler, TypeOK',
         \A c \in Conns : phase[c] = "pending" => phase'[c] = "pending",
         \A c \in Conns : phase[c] \in {"up", "closed", "broken"} =>
                            phase'[c] \in {"up", "closed", "broken"},
         Cardinality(Live') <= NFds
  PROVE  AInv'
<1>1. Rounds'
  BY DEF AInv, Rounds, Idler, InUse
<1>2. Peers'
  <2>1. \A f \in Fds : InUse(f)' <=> InUse(f)
    BY DEF Idler, InUse
  <2> QED BY <2>1 DEF AInv, Peers, Idler
<1>3. \A f \in Fds : Room(f)'
  BY DEF AInv, Room, Idler, Framed
<1>4. Places'
  BY DEF Places
<1> QED BY <1>1, <1>2, <1>3, <1>4 DEF AInv

LEMMA ConnectA ==
  ASSUME AInv, NEW h \in Hosts, Connect(h)
  PROVE  AInv'
<1> DEFINE N == {d \in Conns : phase[d] = "new"}
           c == MinOf(N)
<1>1. c \in Conns /\ phase[c] = "new"
  <2>1. N \in SUBSET Nat /\ N # {}
    BY DEF Connect, Conns
  <2>2. c \in N
    BY <2>1, MinOfLeast
  <2> QED BY <2>2
<1>2. /\ phase' = [phase EXCEPT ![c] = "pending"] /\ host' = [host EXCEPT ![c] = h]
      /\ UNCHANGED <<nsent, chan>> /\ Idler /\ Cardinality(Live) < NFds
  BY DEF Connect, Idler
<1> HIDE DEF c
<1>3. TypeOK'
  BY <1>1, <1>2 DEF AInv, TypeOK, Idler
<1>4. phase'[c] = "pending" /\ \A d \in Conns \ {c} : phase'[d] = phase[d]
  BY <1>1, <1>2 DEF AInv, TypeOK
<1>5. Cardinality(Live') <= NFds
  <2>1. Live' \in SUBSET (Live \cup {c})
    BY <1>2, <1>4 DEF Live, Idler
  <2>2. IsFiniteSet(Live \cup {c}) /\ Cardinality(Live \cup {c}) <= Cardinality(Live) + 1
        /\ Cardinality(Live) \in Nat /\ Cardinality(Live \cup {c}) \in Nat
    BY LiveFinite, FS_AddElement, FS_CardinalityType, SMTT(40)
  <2>3. Cardinality(Live') <= Cardinality(Live \cup {c}) /\ Cardinality(Live') \in Nat
    BY <2>1, <2>2, FS_Subset, FS_CardinalityType
  <2> QED BY <1>2, <2>2, <2>3, Sizes
<1> QED BY <1>1, <1>2, <1>3, <1>4, <1>5, ClientA

LEMMA EmitA ==
  ASSUME AInv, NEW c \in Conns, NEW s \in HDR..MaxRec, Emit(c, s)
  PROVE  AInv'
<1> DEFINE rec == Record(c, nsent[c] + 1, s)
<1>1. /\ nsent' = [nsent EXCEPT ![c] = @ + 1] /\ chan' = [chan EXCEPT ![c] = @ \o rec]
      /\ UNCHANGED <<phase, host>> /\ Idler /\ nsent[c] < MaxRecs
  BY DEF Emit, Idler
<1>2. nsent[c] + 1 \in 1..MaxRecs
  BY <1>1, Sizes, SMTT(40) DEF AInv, TypeOK
<1>3. rec \in Seq(DataBytes)
  BY <1>2, RecordType
<1> HIDE DEF rec
<1>4. chan[c] \o rec \in Seq(DataBytes)
  BY <1>3, ConcatProperties DEF AInv, TypeOK
<1>5. nsent' \in [Conns -> 0..MaxRecs] /\ chan' \in [Conns -> Seq(DataBytes)]
  BY <1>1, <1>2, <1>4, Sizes, SMTT(40) DEF AInv, TypeOK
<1>6. TypeOK'
  BY <1>1, <1>5 DEF AInv, TypeOK, Idler
<1>7. Live' = Live
  BY <1>1 DEF Live, Idler
<1> QED BY <1>1, <1>6, <1>7, ClientA DEF AInv, Places

LEMMA DisconnectA ==
  ASSUME AInv, NEW c \in Conns, Disconnect(c)
  PROVE  AInv'
<1>1. /\ phase[c] = "up" /\ phase' = [phase EXCEPT ![c] = "closed"]
      /\ UNCHANGED <<host, nsent, chan>> /\ Idler
  BY DEF Disconnect, Idler
<1>2. TypeOK'
  BY <1>1 DEF AInv, TypeOK, Idler
<1>3. phase'[c] = "closed" /\ \A d \in Conns \ {c} : phase'[d] = phase[d]
  BY <1>1 DEF AInv, TypeOK
<1>4. Live' = Live
  BY <1>1, <1>3 DEF Live, Idler
<1> QED BY <1>1, <1>2, <1>3, <1>4, ClientA DEF AInv, Places

LEMMA BreakA ==
  ASSUME AInv, NEW c \in Conns, Break(c)
  PROVE  AInv'
<1>1. /\ phase[c] = "up" /\ phase' = [phase EXCEPT ![c] = "broken"]
      /\ UNCHANGED <<host, nsent>> /\ Idler
  BY DEF Break, Idler
<1>2. PICK k \in 0..Len(chan[c])-1 : chan' = [chan EXCEPT ![c] = SubSeq(@, 1, k)]
  BY DEF Break
<1>3. SubSeq(chan[c], 1, k) \in Seq(DataBytes)
  <2>1. chan[c] \in Seq(DataBytes) /\ Len(chan[c]) \in Nat
    BY DEF AInv, TypeOK
  <2>2. \A j \in 1..k : chan[c][j] \in DataBytes
    BY <2>1
  <2> QED BY <2>1, <2>2, SubSeqProperties
<1>4. chan' \in [Conns -> Seq(DataBytes)]
  BY <1>2, <1>3 DEF AInv, TypeOK
<1>5. TypeOK'
  BY <1>1, <1>4 DEF AInv, TypeOK, Idler
<1>6. phase'[c] = "broken" /\ \A d \in Conns \ {c} : phase'[d] = phase[d]
  BY <1>1 DEF AInv, TypeOK
<1>7. Live' = Live
  BY <1>1, <1>6 DEF Live, Idler
<1> QED BY <1>1, <1>5, <1>6, <1>7, ClientA DEF AInv, Places

-----------------------------------------------------------------------------
(* Types and room: the daemon *)

LEMMA SelectA ==
  ASSUME AInv, Select \/ SelectAgain
  PROVE  AInv'
<1>1. /\ pc \in {"select", "serve"} /\ pc' \in {"select", "serve"}
      /\ \A f \in ready' : f = sock \/ f \in active
      /\ sock \in ready' => \E c \in Conns : phase[c] = "pending"
      /\ UNCHANGED <<client, peer, active, relay, b_end, avail, timediff, infd, log>>
  <2>1. CASE Select
    BY <2>1 DEF Select, sock, Fds, AInv, TypeOK
  <2>2. CASE SelectAgain
    BY <2>2 DEF SelectAgain
  <2> QED BY <2>1, <2>2
<1>2. UNCHANGED <<phase, host, nsent, chan>>
  BY <1>1 DEF client
<1>3. \A f \in Fds : InUse(f)' <=> InUse(f)
  BY <1>1 DEF InUse
<1>4. ready' \subseteq Fds \cup {sock}
  BY <1>1 DEF AInv, TypeOK
<1>5. TypeOK'
  BY <1>1, <1>2, <1>4 DEF AInv, TypeOK
<1>6. Rounds'
  BY <1>1, <1>2 DEF Rounds, InUse
<1>7. Peers'
  BY <1>1, <1>2, <1>3 DEF AInv, Peers
<1>8. Places'
  BY <1>1, <1>2 DEF AInv, Places, Live
<1>9. \A f \in Fds : Room(f)'
  BY <1>1 DEF AInv, Room, Framed
<1> QED BY <1>5, <1>6, <1>7, <1>8, <1>9 DEF AInv

(* accept() finds a connection and a descriptor. *)
LEMMA AcceptFinds ==
  ASSUME AInv, Accept
  PROVE  LET c == MinOf({d \in Conns : phase[d] = "pending"})
             f == MinOf(Fds \ active)
         IN  /\ c \in Conns /\ phase[c] = "pending" /\ f \in Fds /\ f \notin active
             /\ \A d \in Conns : phase[d] = "pending" => c <= d
<1> DEFINE P == {d \in Conns : phase[d] = "pending"}
           F == Fds \ active
<1>1. P \in SUBSET Nat /\ P # {}
  BY DEF AInv, Rounds, Accept, Conns
<1>2. MinOf(P) \in P /\ \A d \in P : MinOf(P) <= d
  BY <1>1, MinOfLeast
<1>3. F \in SUBSET Nat /\ F # {}
  <2> SUFFICES ASSUME Fds \subseteq active PROVE FALSE
    BY DEF Fds
  <2> DEFINE g == [f \in Fds |-> peer[f]]
             L == Live \ {MinOf(P)}
  <2>1. pc = "serve" /\ \A f \in Fds : f \in active /\ InUse(f)
    BY DEF Accept, InUse
  <2>2. \A f \in Fds : peer[f] \in L
    BY <1>2, <2>1 DEF AInv, Peers, Live
  <2>3. \A f, h \in Fds : f # h => peer[f] # peer[h]
    BY <2>1 DEF AInv, Peers
  <2>4. MinOf(P) \in Live
    BY <1>2 DEF Live
  <2>5. IsFiniteSet(L) /\ Cardinality(L) = Cardinality(Live) - 1 /\ Cardinality(Live) \in Nat
    BY <2>4, LiveFinite, FS_RemoveElement
  <2>6. IsFiniteSet(Fds) /\ Cardinality(Fds) = NFds
    BY Sizes, FS_Interval DEF Fds
  <2>7. Cardinality(L) < Cardinality(Fds)
    BY <2>5, <2>6, Sizes DEF AInv, Places
  <2>8. g \in [Fds -> L] /\ \A f \in Fds : g[f] = peer[f]
    BY <2>2
  <2> HIDE DEF g, L
  <2>9. \E f, h \in Fds : f # h /\ g[f] = g[h]
    BY <2>5, <2>6, <2>7, <2>8, FS_PigeonHole
  <2> QED BY <2>3, <2>8, <2>9
<1>4. MinOf(F) \in F
  BY <1>3, MinOfLeast
<1> QED BY <1>2, <1>4

LEMMA AcceptA ==
  ASSUME AInv, Accept
  PROVE  AInv'
<1>0. TypeOK /\ Rounds /\ Peers /\ Places
  BY DEF AInv
<1> DEFINE c == MinOf({d \in Conns : phase[d] = "pending"})
           f == MinOf(Fds \ active)
<1>1. c \in Conns /\ phase[c] = "pending" /\ f \in Fds /\ f \notin active
  BY AcceptFinds
<1>2. /\ pc = "serve" /\ phase' = [phase EXCEPT ![c] = "up"]
      /\ peer' = [peer EXCEPT ![f] = c] /\ active' = active \cup {f}
      /\ relay' = [relay EXCEPT ![f] = fresh_relay(f)] /\ ready' = ready \ {sock}
      /\ UNCHANGED <<host, nsent, chan, b_end, avail, timediff, infd, pc, log>>
  BY DEF Accept
<1> HIDE DEF c, f
<1>3. /\ fresh_relay(f) \in Seq(Bytes) /\ Len(fresh_relay(f)) = b_end[f]
      /\ b_end[f] > 0 => fresh_relay(f)[1] = Zero
  <2>1. b_end[f] \in Nat
    BY <1>0, <1>1, Sizes DEF TypeOK
  <2> QED BY <2>1, ByteFields DEF fresh_relay
<1>4. TypeOK'
  <2>1. relay' \in [Fds -> Seq(Bytes)] /\ peer' \in [Fds -> Conns \cup {NoConn}]
    BY <1>0, <1>1, <1>2, <1>3 DEF TypeOK
  <2>2. phase' \in [Conns -> {"new", "pending", "up", "closed", "broken"}]
    BY <1>0, <1>2 DEF TypeOK
  <2>3. active' \subseteq Fds /\ ready' \subseteq Fds \cup {sock}
    BY <1>0, <1>1, <1>2 DEF TypeOK
  <2>4. \A g \in active' : Len(relay'[g]) = b_end'[g]
    BY <1>0, <1>1, <1>2, <1>3 DEF TypeOK
  <2> QED BY <1>0, <1>2, <2>1, <2>2, <2>3, <2>4 DEF TypeOK
<1>5. /\ phase'[c] = "up" /\ \A d \in Conns \ {c} : phase'[d] = phase[d]
      /\ peer'[f] = c /\ \A g \in Fds \ {f} : peer'[g] = peer[g]
      /\ relay'[f] = fresh_relay(f) /\ \A g \in Fds \ {f} : relay'[g] = relay[g]
  BY <1>0, <1>1, <1>2 DEF TypeOK
<1>6. \A g \in Fds : /\ InUse(g) <=> g \in active
                     /\ InUse(g)' <=> g \in active \/ g = f
  BY <1>2 DEF InUse
<1>7. Rounds'
  BY <1>0, <1>2 DEF Rounds, InUse
<1>8. Peers'
  <2>1. \A g \in Fds \ {f} : InUse(g) => peer[g] # c
    BY <1>0, <1>1 DEF Peers
  <2> QED BY <1>0, <1>1, <1>2, <1>3, <1>5, <1>6, <2>1 DEF Peers
<1>9. Places'
  <2>1. Live' \in SUBSET Live
    BY <1>0, <1>1, <1>2, <1>5 DEF Live, TypeOK
  <2>2. Cardinality(Live') <= Cardinality(Live) /\ Cardinality(Live') \in Nat
    BY <2>1, LiveFinite, FS_Subset, FS_CardinalityType
  <2> QED BY <1>0, <2>2, LiveFinite, Sizes DEF Places
<1>10. ASSUME NEW g \in Fds PROVE Room(g)'
  <2>1. Room(g)
    BY DEF AInv
  <2>2. CASE g = f
    <3>1. b_end[f] > HDR => ~Framed(relay'[f])
      <4>1. b_end[f] > HDR => b_end[f] > 0
        BY <1>0, <1>1, Sizes, SMTT(40) DEF TypeOK
      <4> QED BY <1>3, <1>5, <4>1 DEF Framed
    <3> QED BY <1>2, <2>1, <2>2, <3>1 DEF Room, Framed
  <2>3. CASE g # f
    BY <1>2, <1>5, <2>1, <2>3 DEF Room, Framed
  <2> QED BY <2>2, <2>3
<1> QED BY <1>4, <1>7, <1>8, <1>9, <1>10 DEF AInv

(* The descriptor that is served is open. *)
LEMMA ServedFd ==
  ASSUME AInv, pc = "serve", sock \notin ready, ready # {}
  PROVE  /\ MinOf(ready) \in ready /\ MinOf(ready) \in Fds /\ MinOf(ready) \in active
         /\ peer[MinOf(ready)] \in Conns
<1>1. ready \in SUBSET Nat /\ ready \subseteq Fds
  BY DEF AInv, TypeOK, Fds
<1>2. MinOf(ready) \in ready
  BY <1>1, MinOfLeast
<1> QED BY <1>1, <1>2 DEF AInv, Rounds, InUse, Peers

LEMMA transfer_inA ==
  ASSUME AInv, transfer_in
  PROVE  AInv'
<1>0. TypeOK /\ Rounds /\ Peers /\ Places
  BY DEF AInv
<1> DEFINE f == MinOf(ready)
           c == peer[f]
<1>1. f \in ready /\ f \in Fds /\ f \in active /\ c \in Conns /\ pc = "serve"
  BY ServedFd DEF transfer_in
<1>2. PICK r \in 1..Len(chan[c]) :
        /\ r <= avail[f]
        /\ relay' = [relay EXCEPT ![f] = @ \o SubSeq(chan[c], 1, r)]
        /\ chan'  = [chan EXCEPT ![c] = SubSeq(@, r + 1, Len(@))]
        /\ avail' = [avail EXCEPT ![f] = @ - r]
        /\ b_end' = [b_end EXCEPT ![f] = @ + r]
  BY DEF transfer_in
<1>3. /\ IF Enough(b_end'[f]) THEN pc' = "out" /\ infd' = f /\ ready' = ready
         ELSE pc' = "serve" /\ infd' = NoFd /\ ready' = ready \ {f}
      /\ UNCHANGED <<phase, host, nsent, peer, active, timediff, log>>
  BY DEF transfer_in
<1> HIDE DEF f, c
<1>4. /\ SubSeq(chan[c], 1, r) \in Seq(DataBytes) /\ Len(SubSeq(chan[c], 1, r)) = r
      /\ SubSeq(chan[c], r + 1, Len(chan[c])) \in Seq(DataBytes) /\ r \in Nat
  <2>1. chan[c] \in Seq(DataBytes) /\ Len(chan[c]) \in Nat
    BY <1>0, <1>1 DEF TypeOK
  <2>2. /\ \A j \in 1..r : chan[c][j] \in DataBytes
        /\ \A j \in r+1..Len(chan[c]) : chan[c][j] \in DataBytes
    BY <2>1
  <2> QED BY <2>1, <2>2, SubSeqProperties
<1>5. /\ relay[f] \o SubSeq(chan[c], 1, r) \in Seq(Bytes)
      /\ Len(relay[f] \o SubSeq(chan[c], 1, r)) = b_end[f] + r
  <2>1. relay[f] \in Seq(Bytes) /\ Len(relay[f]) = b_end[f]
    BY <1>0, <1>1 DEF TypeOK
  <2>2. SubSeq(chan[c], 1, r) \in Seq(Bytes)
    BY <1>4, ByteFields, SeqMonotonic
  <2> QED BY <1>4, <2>1, <2>2, ConcatProperties
<1>6. /\ b_end[f] \in Nat /\ avail[f] \in Nat /\ b_end[f] + avail[f] = RELAY_BUF
      /\ b_end[f] + r \in 0..RELAY_BUF /\ avail[f] - r \in 0..RELAY_BUF
  BY <1>0, <1>1, <1>2, <1>4, Sizes, SMTT(40) DEF AInv, Room, TypeOK
<1>7. /\ relay'[f] = relay[f] \o SubSeq(chan[c], 1, r) /\ \A g \in Fds \ {f} : relay'[g] = relay[g]
      /\ avail'[f] = avail[f] - r /\ \A g \in Fds \ {f} : avail'[g] = avail[g]
      /\ b_end'[f] = b_end[f] + r /\ \A g \in Fds \ {f} : b_end'[g] = b_end[g]
  BY <1>0, <1>1, <1>2 DEF TypeOK
<1>8. \A g \in Fds : (InUse(g) <=> g \in active) /\ (InUse(g)' <=> g \in active)
  BY <1>1, <1>3 DEF InUse
<1>9. TypeOK'
  <2>1. /\ relay' \in [Fds -> Seq(Bytes)] /\ chan' \in [Conns -> Seq(DataBytes)]
        /\ avail' \in [Fds -> 0..RELAY_BUF] /\ b_end' \in [Fds -> 0..RELAY_BUF]
    BY <1>0, <1>2, <1>4, <1>5, <1>6 DEF TypeOK
  <2>2. \A g \in active' : Len(relay'[g]) = b_end'[g]
    BY <1>0, <1>3, <1>5, <1>7 DEF TypeOK
  <2>3. ready' \subseteq Fds \cup {sock} /\ infd' \in Fds \cup {NoFd} /\ pc' \in {"serve", "out"}
    BY <1>0, <1>1, <1>3 DEF TypeOK
  <2> QED BY <1>0, <1>3, <2>1, <2>2, <2>3 DEF TypeOK
<1>10. Rounds'
  BY <1>0, <1>1, <1>3 DEF Rounds, InUse
<1>11. Peers'
  BY <1>0, <1>3, <1>5, <1>7, <1>8 DEF Peers
<1>12. Places'
  <2>1. Live' = Live
    BY <1>3 DEF Live
  <2> QED BY <1>0, <2>1 DEF Places
<1>13. ASSUME NEW g \in Fds PROVE Room(g)'
  <2>1. Room(g)
    BY DEF AInv
  <2>2. CASE g = f
    <3>1. b_end'[f] + avail'[f] = RELAY_BUF
      BY <1>4, <1>6, <1>7, SMTT(40)
    <3>2. ~Enough(b_end'[f]) => ~(b_end'[f] > HDR)
      BY DEF Enough
    <3> QED BY <1>3, <2>2, <3>1, <3>2 DEF Room
  <2>3. CASE g # f
    BY <1>1, <1>3, <1>7, <2>1, <2>3 DEF Room, Framed
  <2> QED BY <2>2, <2>3
<1> QED BY <1>9, <1>10, <1>11, <1>12, <1>13 DEF AInv

LEMMA transfer_in_endsA ==
  ASSUME AInv, transfer_in_ends
  PROVE  AInv'
<1>0. TypeOK /\ Rounds /\ Peers /\ Places
  BY DEF AInv
<1> DEFINE f == MinOf(ready)
<1>1. f \in ready /\ f \in Fds /\ f \in active /\ pc = "serve" /\ sock \notin ready
  BY ServedFd DEF transfer_in_ends
<1>2. /\ active' = active \ {f} /\ infd' = f /\ pc' = "last"
      /\ UNCHANGED <<client, peer, relay, b_end, avail, timediff, ready, log>>
  BY DEF transfer_in_ends
<1> HIDE DEF f
<1>3. UNCHANGED <<phase, host, nsent, chan>>
  BY <1>2 DEF client
<1>4. \A g \in Fds : (InUse(g) <=> g \in active) /\ (InUse(g)' <=> g \in active)
  BY <1>1, <1>2 DEF InUse
<1>5. TypeOK'
  BY <1>0, <1>1, <1>2, <1>3 DEF TypeOK
<1>6. Rounds'
  BY <1>0, <1>1, <1>2, <1>3 DEF Rounds, InUse
<1>7. Peers'
  BY <1>0, <1>2, <1>3, <1>4 DEF Peers
<1>8. Places'
  <2>1. Live' \in SUBSET Live
    BY <1>2, <1>3 DEF Live
  <2>2. Cardinality(Live') <= Cardinality(Live) /\ Cardinality(Live') \in Nat
    BY <2>1, LiveFinite, FS_Subset, FS_CardinalityType
  <2> QED BY <1>0, <2>2, LiveFinite, Sizes DEF Places
<1>9. ASSUME NEW g \in Fds PROVE Room(g)'
  BY <1>1, <1>2 DEF AInv, Room, Framed
<1> QED BY <1>5, <1>6, <1>7, <1>8, <1>9 DEF AInv

(* The descriptor of transfer_out(). *)
LEMMA OutFd ==
  ASSUME AInv, pc \in {"out", "last"}
  PROVE  /\ infd \in Fds /\ InUse(infd) /\ infd \in ready /\ peer[infd] \in Conns
         /\ relay[infd] \in Seq(Bytes) /\ Len(relay[infd]) = b_end[infd]
         /\ b_end[infd] \in Nat /\ avail[infd] \in Nat
         /\ b_end[infd] + avail[infd] = RELAY_BUF
<1>1. infd \in Fds /\ InUse(infd) /\ infd \in ready
  BY DEF AInv, Rounds, InUse
<1>2. b_end[infd] + avail[infd] = RELAY_BUF
  BY <1>1 DEF AInv, Room
<1> QED BY <1>1, <1>2, Sizes DEF AInv, TypeOK, Peers

LEMMA diffType ==
  ASSUME AInv, pc \in {"out", "last"}, b_end[infd] >= HDR
  PROVE  diff(infd) \in Hosts \cup {NoDiff, Garbage}
<1>1. relay[infd] \in Seq(Bytes) /\ Len(relay[infd]) >= HDR /\ infd \in Fds
  BY OutFd
<1>2. Framed(relay[infd]) => relay[infd][1][1] \in Conns
  BY <1>1, FrontSize, ByteFields
<1>3. record_timediff(relay[infd]) \in Hosts \cup {Garbage}
  BY <1>2 DEF record_timediff, AInv, TypeOK
<1> QED BY <1>1, <1>3 DEF diff, AInv, TypeOK

LEMMA transfer_out_recordA ==
  ASSUME AInv, transfer_out_record
  PROVE  AInv'
<1>0. TypeOK /\ Rounds /\ Peers /\ Places
  BY DEF AInv
<1>1. pc \in {"out", "last"} /\ b_end[infd] >= HDR
  BY DEF transfer_out_record
<1>2. PICK f \in Fds : f = infd
  BY <1>1, OutFd
<1>3. /\ InUse(f) /\ relay[f] \in Seq(Bytes) /\ Len(relay[f]) = b_end[f]
      /\ b_end[f] \in Nat /\ avail[f] \in Nat /\ b_end[f] + avail[f] = RELAY_BUF
  BY <1>1, <1>2, OutFd
<1>4. PICK size \in frozen_sizes(relay[f]) :
       /\ HDR <= size /\ size <= b_end[f]
       /\ timediff' = [timediff EXCEPT ![f] = diff(f)]
       /\ log' = Append(log, [rec |-> SubSeq(relay[f], 1, size), diff |-> diff(f)])
       /\ relay' = [relay EXCEPT ![f] = SubSeq(@, size + 1, Len(@))]
       /\ b_end' = [b_end EXCEPT ![f] = @ - size]
       /\ avail' = [avail EXCEPT ![f] = @ + size]
  BY <1>2 DEF transfer_out_record
<1>5. UNCHANGED <<client, peer, active, infd, ready, pc>>
  BY DEF transfer_out_record
<1>6. size \in Nat /\ size >= HDR
  BY <1>1, <1>2, <1>3, <1>4, FrontSize, Sizes, SMTT(40)
<1>7. /\ SubSeq(relay[f], 1, size) \in Seq(Bytes)
      /\ SubSeq(relay[f], size + 1, Len(relay[f])) \in Seq(Bytes)
      /\ Len(SubSeq(relay[f], size + 1, Len(relay[f]))) = b_end[f] - size
  <2>1. \A j \in 1..b_end[f] : relay[f][j] \in Bytes
    BY <1>3
  <2>2. /\ \A j \in 1..size : relay[f][j] \in Bytes
        /\ \A j \in size+1..b_end[f] : relay[f][j] \in Bytes
    BY <1>3, <1>4, <1>6, <2>1, SMTT(40)
  <2>3. SubSeq(relay[f], 1, size) \in Seq(Bytes)
    BY <1>6, <2>2, SubSeqProperties
  <2>4. /\ SubSeq(relay[f], size + 1, b_end[f]) \in Seq(Bytes)
        /\ Len(SubSeq(relay[f], size + 1, b_end[f])) =
             IF size + 1 <= b_end[f] THEN b_end[f] - (size + 1) + 1 ELSE 0
    BY <1>3, <1>6, <2>2, SubSeqProperties
  <2> QED BY <1>3, <1>4, <1>6, <2>3, <2>4, SMTT(40)
<1>8. diff(f) \in Hosts \cup {NoDiff, Garbage}
  BY <1>1, <1>2, diffType
<1>9. b_end[f] - size \in 0..RELAY_BUF /\ avail[f] + size \in 0..RELAY_BUF
  BY <1>3, <1>4, <1>6, Sizes, SMTT(40)
<1>10. UNCHANGED <<phase, host, nsent, chan>>
  BY <1>5 DEF client
<1>11. /\ relay'[f] = SubSeq(relay[f], size + 1, Len(relay[f]))
       /\ b_end'[f] = b_end[f] - size /\ avail'[f] = avail[f] + size
       /\ \A g \in Fds \ {f} : /\ relay'[g] = relay[g] /\ b_end'[g] = b_end[g]
                               /\ avail'[g] = avail[g]
  BY <1>0, <1>4 DEF TypeOK
<1>12. TypeOK'
  <2>1. /\ relay' \in [Fds -> Seq(Bytes)] /\ b_end' \in [Fds -> 0..RELAY_BUF]
        /\ avail' \in [Fds -> 0..RELAY_BUF]
    BY <1>0, <1>4, <1>7, <1>9 DEF TypeOK
  <2>2. timediff' \in [Fds -> Hosts \cup {NoDiff, Garbage}]
    BY <1>0, <1>4, <1>8 DEF TypeOK
  <2>3. log' \in Seq([rec : Seq(Bytes), diff : Hosts \cup {NoDiff, Garbage}])
    <3> DEFINE e == [rec |-> SubSeq(relay[f], 1, size), diff |-> diff(f)]
               T == [rec : Seq(Bytes), diff : Hosts \cup {NoDiff, Garbage}]
    <3>1. e \in T
      BY <1>7, <1>8
    <3>2. log \in Seq(T) /\ log' = Append(log, e)
      BY <1>0, <1>4 DEF TypeOK
    <3> HIDE DEF e, T
    <3>3. log' \in Seq(T)
      BY <3>1, <3>2
    <3> QED BY <3>3 DEF T
  <2>4. \A g \in active' : Len(relay'[g]) = b_end'[g]
    BY <1>0, <1>5, <1>7, <1>11 DEF TypeOK
  <2> QED BY <1>0, <1>5, <1>10, <2>1, <2>2, <2>3, <2>4 DEF TypeOK
<1>13. \A g \in Fds : InUse(g)' <=> InUse(g)
  BY <1>5 DEF InUse
<1>14. Rounds'
  BY <1>0, <1>5, <1>10 DEF Rounds, InUse
<1>15. Peers'
  BY <1>0, <1>5, <1>7, <1>10, <1>11, <1>13 DEF Peers
<1>16. Places'
  <2>1. Live' = Live
    BY <1>5, <1>10 DEF Live
  <2> QED BY <1>0, <2>1 DEF Places
<1>17. ASSUME NEW g \in Fds PROVE Room(g)'
  <2>1. Room(g)
    BY DEF AInv
  <2>2. CASE g = f
    <3>1. b_end'[f] + avail'[f] = RELAY_BUF
      BY <1>3, <1>6, <1>11
    <3> QED BY <1>1, <1>2, <1>5, <2>2, <3>1 DEF Room
  <2>3. CASE g # f
    BY <1>2, <1>5, <1>11, <2>1, <2>3 DEF Room, Framed
  <2> QED BY <2>2, <2>3
<1> QED BY <1>12, <1>14, <1>15, <1>16, <1>17 DEF AInv

LEMMA transfer_out_doneA ==
  ASSUME AInv, transfer_out_done
  PROVE  AInv'
<1>0. TypeOK /\ Rounds /\ Peers /\ Places
  BY DEF AInv
<1>1. pc \in {"out", "last"}
  BY DEF transfer_out_done
<1>2. PICK f \in Fds : f = infd
  BY <1>1, OutFd
<1>3. /\ InUse(f) /\ relay[f] \in Seq(Bytes) /\ Len(relay[f]) = b_end[f]
      /\ b_end[f] \in Nat /\ avail[f] \in Nat /\ b_end[f] + avail[f] = RELAY_BUF
  BY <1>1, <1>2, OutFd
<1>4. /\ relay' = IF pc = "last" THEN [relay EXCEPT ![f] = << >>] ELSE relay
      /\ pc' = "serve" /\ infd' = NoFd /\ ready' = ready \ {f}
      /\ UNCHANGED <<client, peer, active, b_end, avail, log>>
  BY <1>2 DEF transfer_out_done
<1>5. UNCHANGED <<phase, host, nsent, chan>>
  BY <1>4 DEF client
<1>6. timediff' \in [Fds -> Hosts \cup {NoDiff, Garbage}]
  <2>1. CASE UNCHANGED timediff
    BY <1>0, <2>1 DEF TypeOK
  <2>2. CASE b_end[infd] >= HDR /\ timediff' = [timediff EXCEPT ![infd] = diff(infd)]
    BY <1>0, <1>1, <2>2, diffType DEF TypeOK
  <2> QED BY <2>1, <2>2 DEF transfer_out_done
<1>7. b_end[f] > HDR => ~(Framed(relay[f]) /\ b_end[f] >= relay[f][1][4])
  <2>1. CASE b_end[f] < HDR
    BY <1>3, <2>1, Sizes
  <2>2. ASSUME b_end[f] >= HDR, NEW size \in frozen_sizes(relay[f]), b_end[f] < size
        PROVE  ~(Framed(relay[f]) /\ b_end[f] >= relay[f][1][4])
    <3>1. size \in Nat
      BY <1>3, <2>2, FrontSize
    <3>2. Framed(relay[f]) => size = relay[f][1][4]
      BY DEF frozen_sizes
    <3>3. ~(b_end[f] >= size)
      BY <1>3, <2>2, <3>1
    <3> QED BY <3>2, <3>3
  <2> QED BY <1>2, <2>1, <2>2 DEF transfer_out_done
<1>8. \A g \in Fds : (InUse(g)' <=> g \in active) /\ (g \in active => InUse(g))
                     /\ (InUse(g) /\ g # f => g \in active)
  BY <1>2, <1>4 DEF InUse
<1>9. pc = "last" => f \notin active
  BY <1>0, <1>2 DEF Rounds
<1>10. \A g \in active : relay'[g] = relay[g]
  BY <1>0, <1>4, <1>9 DEF TypeOK
<1>11. TypeOK'
  <2>1. relay' \in [Fds -> Seq(Bytes)]
    BY <1>0, <1>4, EmptySeq DEF TypeOK
  <2>2. \A g \in active' : Len(relay'[g]) = b_end'[g]
    BY <1>0, <1>4, <1>10 DEF TypeOK
  <2> QED BY <1>0, <1>4, <1>5, <1>6, <2>1, <2>2 DEF TypeOK
<1>12. Rounds'
  BY <1>0, <1>1, <1>2, <1>4, <1>5 DEF Rounds, InUse
<1>13. Peers'
  BY <1>0, <1>4, <1>5, <1>8, <1>10 DEF Peers
<1>14. Places'
  <2>1. Live' = Live
    BY <1>4, <1>5 DEF Live
  <2> QED BY <1>0, <2>1 DEF Places
<1>15. ASSUME NEW g \in Fds PROVE Room(g)'
  <2>1. Room(g)
    BY DEF AInv
  <2>2. CASE g = f
    BY <1>3, <1>4, <1>7, <1>10, <2>2 DEF Room, Framed
  <2>3. CASE g # f
    BY <1>1, <1>2, <1>4, <1>10, <2>1, <2>3 DEF Room, Framed
  <2> QED BY <2>2, <2>3
<1> QED BY <1>11, <1>12, <1>13, <1>14, <1>15 DEF AInv

(* SIGINT, and the exits of transfer_out(). *)
LEMMA ExitA ==
  ASSUME AInv, sig \/ transfer_out_exits
  PROVE  AInv'
<1>0. TypeOK /\ Rounds /\ Peers /\ Places
  BY DEF AInv
<1>1. /\ pc' = "exit" /\ active' = {}
      /\ UNCHANGED <<client, peer, relay, b_end, avail, infd, ready, log>>
      /\ timediff' \in [Fds -> Hosts \cup {NoDiff, Garbage}]
  <2>1. CASE sig
    BY <1>0, <2>1 DEF sig, TypeOK
  <2>2. CASE transfer_out_exits
    <3>1. diff(infd) \in Hosts \cup {NoDiff, Garbage}
      BY <2>2, diffType DEF transfer_out_exits
    <3>2. timediff' = [timediff EXCEPT ![infd] = diff(infd)]
      BY <2>2 DEF transfer_out_exits
    <3>3. timediff' \in [Fds -> Hosts \cup {NoDiff, Garbage}]
      BY <1>0, <3>1, <3>2 DEF TypeOK
    <3> QED BY <2>2, <3>3 DEF transfer_out_exits
  <2> QED BY <2>1, <2>2
<1>2. UNCHANGED <<phase, host, nsent, chan>>
  BY <1>1 DEF client
<1>3. \A f \in Fds : ~InUse(f)'
  BY <1>1 DEF InUse
<1>4. TypeOK'
  BY <1>0, <1>1, <1>2 DEF TypeOK
<1>5. Rounds'
  BY <1>0, <1>1, <1>2 DEF Rounds
<1>6. Peers'
  BY <1>3 DEF Peers
<1>7. Places'
  <2>1. Live' \in SUBSET Live
    BY <1>1, <1>2 DEF Live
  <2>2. Cardinality(Live') <= Cardinality(Live) /\ Cardinality(Live') \in Nat
    BY <2>1, LiveFinite, FS_Subset, FS_CardinalityType
  <2> QED BY <1>0, <2>2, LiveFinite, Sizes DEF Places
<1>8. \A f \in Fds : Room(f)'
  BY <1>1 DEF AInv, Room
<1> QED BY <1>4, <1>5, <1>6, <1>7, <1>8 DEF AInv

LEMMA InitA == Init => AInv
<1> SUFFICES ASSUME Init PROVE AInv
  OBVIOUS
<1>1. TypeOK
  <2>1. /\ phase \in [Conns -> {"new", "pending", "up", "closed", "broken"}]
        /\ host \in [Conns -> Hosts]
    BY HostsAssumption DEF Init
  <2>2. /\ nsent \in [Conns -> 0..MaxRecs] /\ b_end \in [Fds -> 0..RELAY_BUF]
        /\ avail \in [Fds -> 0..RELAY_BUF]
    BY Sizes DEF Init
  <2>3. /\ chan \in [Conns -> Seq(DataBytes)] /\ relay \in [Fds -> Seq(Bytes)]
        /\ log \in Seq([rec : Seq(Bytes), diff : Hosts \cup {NoDiff, Garbage}])
    BY EmptySeq DEF Init
  <2> QED BY <2>1, <2>2, <2>3 DEF Init, TypeOK
<1>2. Rounds /\ Peers
  BY DEF Init, Rounds, Peers, InUse
<1>3. Places
  <2>1. Live = {}
    BY DEF Init, Live
  <2> QED BY <2>1, FS_EmptySet, Sizes DEF Places
<1>4. \A f \in Fds : Room(f)
  BY Sizes DEF Init, Room
<1> QED BY <1>1, <1>2, <1>3, <1>4 DEF AInv

LEMMA InvarianceA == Spec => []AInv
<1>1. ASSUME AInv, [Next]_vars PROVE AInv'
  <2>1. CASE UNCHANGED vars
    BY <1>1, <2>1, SMTT(40) DEF vars, AInv, TypeOK, Rounds, Peers, Places, Live, InUse, Room, Framed
  <2>2. CASE Daemon
    BY <1>1, <2>2, SelectA, AcceptA, transfer_inA, transfer_in_endsA, transfer_out_recordA,
       ExitA, transfer_out_doneA DEF Daemon
  <2>3. CASE \E c \in Conns, s \in HDR..MaxRec : Emit(c, s)
    BY <1>1, <2>3, EmitA
  <2> QED BY <1>1, <2>1, <2>2, <2>3, ConnectA, DisconnectA, BreakA, ExitA DEF Next
<1> QED BY <1>1, InitA, PTL DEF Spec

(* Type correctness of the log daemon, whatever connections break.  In     *)
(* particular b_end and avail stay within the buffer.                      *)
THEOREM TypeCorrect == Spec => []TypeOK
<1>1. AInv => TypeOK
  BY DEF AInv
<1> QED BY <1>1, InvarianceA, PTL

-----------------------------------------------------------------------------
(* Streams *)

LEMMA LoggedNat ==
  ASSUME TypeOK, NEW c
  PROVE  Logged(c) \in Nat
<1>1. Len(log) \in Nat
  BY DEF TypeOK
<1>2. IsFiniteSet(1..Len(log))
  BY <1>1, FS_Interval
<1>3. {k \in 1..Len(log) : log[k].rec[1][1] = c} \in SUBSET (1..Len(log))
  OBVIOUS
<1> QED BY <1>2, <1>3, FS_Subset, FS_CardinalityType DEF Logged

(* A record that is written counts for its connection. *)
LEMMA LoggedAppend ==
  ASSUME TypeOK, NEW e, log' = Append(log, e), NEW c
  PROVE  Logged(c)' = IF e.rec[1][1] = c THEN Logged(c) + 1 ELSE Logged(c)
<1> DEFINE n == Len(log)
           S == {k \in 1..n : log[k].rec[1][1] = c}
           T == {k \in 1..Len(log') : log'[k].rec[1][1] = c}
<1>1. n \in Nat /\ Len(log') = n + 1 /\ log'[n+1] = e /\ \A k \in 1..n : log'[k] = log[k]
  BY DEF TypeOK
<1>2. IsFiniteSet(S) /\ n + 1 \notin S
  <2>1. IsFiniteSet(1..n)
    BY <1>1, FS_Interval
  <2>2. S \in SUBSET (1..n) /\ n + 1 \notin 1..n
    BY <1>1
  <2> QED BY <2>1, <2>2, FS_Subset
<1>3. T = IF e.rec[1][1] = c THEN S \cup {n + 1} ELSE S
  <2>1. 1..Len(log') = 1..n \cup {n + 1}
    BY <1>1
  <2>2. \A k \in 1..n : k \in T <=> k \in S
    BY <1>1, <2>1
  <2>3. n + 1 \in T <=> e.rec[1][1] = c
    BY <1>1, <2>1
  <2>4. T \subseteq 1..n \cup {n + 1} /\ S \subseteq 1..n
    BY <2>1
  <2> HIDE DEF T, S, n
  <2>5. CASE e.rec[1][1] = c
    <3>1. T = S \cup {n + 1}
      BY <2>2, <2>3, <2>4, <2>5
    <3> QED BY <2>5, <3>1
  <2>6. CASE e.rec[1][1] # c
    <3>1. T = S
      BY <2>2, <2>3, <2>4, <2>6
    <3> QED BY <2>6, <3>1
  <2> QED BY <2>5, <2>6
<1> HIDE DEF S, T
<1>4. Cardinality(S \cup {n + 1}) = Cardinality(S) + 1
  BY <1>2, FS_AddElement
<1> QED BY <1>3, <1>4 DEF Logged, S, T, n

(* From the first byte of a record on, its bytes follow each other. *)
LEMMA FrontRecord ==
  ASSUME NEW q \in Seq(Bytes), Len(q) > 0, \A k \in 1..Len(q) : q[k] \in DataBytes,
         \A k \in 1..Len(q)-1 : Follows(q[k], q[k+1]), q[1][3] = 1,
         NEW j \in 1..Len(q), j <= q[1][4]
  PROVE  q[j] = <<q[1][1], q[1][2], j, q[1][4]>>
<1>0. Len(q) \in Nat /\ 1 \in 1..Len(q)
  OBVIOUS
<1> DEFINE Is(k) == q[k] = <<q[1][1], q[1][2], k, q[1][4]>>
           s == q[1][4]
           Bad == {k \in 1..Len(q) : k <= s /\ ~Is(k)}
<1> SUFFICES ASSUME Bad # {} PROVE FALSE
  OBVIOUS
<1>1. s \in Nat /\ Is(1)
  BY <1>0, ByteFields
<1>2. Bad \in SUBSET Nat
  OBVIOUS
<1>3. PICK m \in Bad : \A l \in Bad : m <= l
  BY <1>2, MinOfLeast
<1>4. m \in 2..Len(q) /\ m <= s /\ ~Is(m)
  <2>1. m \in 1..Len(q) /\ m <= s /\ ~Is(m)
    OBVIOUS
  <2>2. m # 1
    BY <1>1, <2>1
  <2> HIDE DEF Is, s, Bad
  <2> QED BY <1>0, <2>1, <2>2
<1>5. m - 1 \in 1..Len(q)-1 /\ m - 1 \in 1..Len(q) /\ m - 1 < s /\ m - 1 <= s /\ ~(m <= m - 1)
      /\ (m - 1) + 1 = m
  BY <1>0, <1>1, <1>4, SMTT(40)
<1>6. Is(m - 1)
  BY <1>3, <1>5
<1>7. Follows(q[m - 1], q[m])
  BY <1>5
<1>8. q[m - 1][3] = m - 1 /\ q[m - 1][4] = s /\ q[m-1][1] = q[1][1] /\ q[m-1][2] = q[1][2]
  BY <1>6
<1>9. Is(m)
  BY <1>5, <1>7, <1>8 DEF Follows
<1> QED BY <1>4, <1>9

(* The client writes one more record. *)
LEMMA StreamEmit ==
  ASSUME NEW c \in Conns, NEW q \in Seq(Bytes), NEW sent \in Nat, NEW done \in Nat, NEW ph,
         ph # "broken", Stream(c, q, sent, done, ph), sent + 1 \in 1..MaxRecs,
         NEW s \in HDR..MaxRec
  PROVE  Stream(c, q \o Record(c, sent + 1, s), sent + 1, done, ph)
<1> DEFINE rec == Record(c, sent + 1, s)
           p == q \o rec
           n == Len(q)
<1>1. /\ rec \in Seq(DataBytes) /\ Len(rec) = s /\ s \in Nat /\ s >= 1
      /\ \A k \in 1..s : rec[k] = <<c, sent + 1, k, s>>
  <2>1. s \in Nat /\ s >= 1
    BY Sizes
  <2>2. PICK m \in 1..MaxRecs : m = sent + 1
    OBVIOUS
  <2>3. /\ Record(c, m, s) \in Seq(DataBytes) /\ Len(Record(c, m, s)) = s
        /\ \A k \in 1..s : Record(c, m, s)[k] = <<c, m, k, s>>
    BY RecordType
  <2> QED BY <2>1, <2>2, <2>3
<1> HIDE DEF rec
<1>2. /\ n \in Nat /\ Len(p) = n + s /\ \A k \in 1..n : p[k] = q[k]
      /\ \A k \in n+1..n+s : p[k] = <<c, sent + 1, k - n, s>>
  <2>1. rec \in Seq(Bytes)
    BY <1>1, ByteFields, SeqMonotonic
  <2>2. /\ Len(p) = n + s /\ n \in Nat
        /\ \A k \in 1..n+s : p[k] = IF k <= n THEN q[k] ELSE rec[k - n]
    <3>1. /\ Len(q \o rec) = Len(q) + Len(rec)
          /\ \A k \in 1..Len(q) + Len(rec) :
               (q \o rec)[k] = IF k <= Len(q) THEN q[k] ELSE rec[k - Len(q)]
      BY <2>1, ConcatProperties
    <3> QED BY <1>1, <3>1, SMTT(40)
  <2>3. \A k \in n+1..n+s : k \in 1..n+s /\ ~(k <= n) /\ k - n \in 1..s
    BY <1>1, <2>2, SMTT(40)
  <2>4. \A k \in 1..n : k \in 1..n+s /\ k <= n
    BY <1>1, <2>2
  <2> HIDE DEF p
  <2> QED BY <1>1, <2>2, <2>3, <2>4
<1> HIDE DEF p, n
<1>3. ASSUME NEW k \in 1..n+s
      PROVE  p[k] \in DataBytes /\ p[k][1] = c /\ p[k][2] <= sent + 1
  <2>1. CASE k \in 1..n
    <3>1. q[k] \in DataBytes /\ q[k][1] = c /\ q[k][2] <= sent
      BY <2>1 DEF Stream, n
    <3>2. q[k][2] \in Nat
      BY <3>1, ByteFields
    <3> QED BY <1>2, <2>1, <3>1, <3>2, SMTT(40)
  <2>2. CASE k \in n+1..n+s
    <3>1. p[k] = <<c, sent + 1, k - n, s>> /\ k - n \in 1..s
      BY <1>1, <1>2, <2>2
    <3>2. k - n \in 1..MaxRec /\ k - n <= s
      BY <1>1, <3>1, Sizes
    <3> QED BY <3>1, <3>2 DEF DataBytes
  <2> QED BY <1>1, <1>2, <2>1, <2>2
<1>4. ASSUME NEW k \in 1..n+s-1 PROVE Follows(p[k], p[k+1])
  <2>1. CASE k \in 1..n-1
    <3>1. k \in 1..Len(q)-1 /\ Follows(q[k], q[k+1])
      BY <2>1 DEF Stream, n
    <3>2. k \in 1..n /\ k + 1 \in 1..n
      BY <1>2, <2>1, SMTT(40)
    <3> QED BY <1>2, <3>1, <3>2
  <2>2. CASE k = n
    <3>1. n > 0 /\ n \in 1..n /\ n + 1 \in n+1..n+s /\ n + 1 - n = 1
      BY <1>1, <1>2, <2>2, SMTT(40)
    <3>2. q[n][2] = sent /\ q[n][3] = q[n][4] /\ q[n] \in DataBytes /\ q[n][1] = c
      BY <3>1 DEF Stream, n
    <3>3. p[n] = q[n] /\ p[n+1] = <<c, sent + 1, 1, s>>
      <4>1. p[n] = q[n]
        BY <1>2, <3>1
      <4>2. PICK j \in n+1..n+s : j = n + 1
        BY <3>1
      <4>3. p[j] = <<c, sent + 1, j - n, s>>
        BY <1>2
      <4>4. j - n = 1
        BY <3>1, <4>2
      <4> QED BY <4>1, <4>2, <4>3, <4>4, Zenon
    <3>4. ~(q[n][3] < q[n][4])
      BY <3>2, ByteFields, SMTT(40)
    <3> QED BY <2>2, <3>2, <3>3, <3>4, SMTT(40) DEF Follows
  <2>3. CASE k \in n+1..n+s-1
    <3>1. /\ k \in n+1..n+s /\ k + 1 \in n+1..n+s /\ k - n < s
          /\ k + 1 - n = (k - n) + 1
      BY <1>1, <1>2, <2>3
    <3>2. p[k] = <<c, sent + 1, k - n, s>>
      BY <1>2, <3>1
    <3>3. p[k+1] = <<c, sent + 1, (k - n) + 1, s>>
      <4>1. PICK j \in n+1..n+s : j = k + 1
        BY <3>1
      <4>2. p[j] = <<c, sent + 1, j - n, s>>
        BY <1>2
      <4>3. j - n = (k - n) + 1
        BY <1>2, <4>1
      <4> QED BY <4>1, <4>2, <4>3, Zenon
    <3> QED BY <3>1, <3>2, <3>3 DEF Follows
  <2> QED BY <1>1, <1>2, <2>1, <2>2, <2>3
<1>5. p[1][2] = done + 1 /\ p[1][3] = 1
  <2>1. CASE n = 0
    <3>1. done = sent
      BY <2>1 DEF Stream, n
    <3>2. p[1] = <<c, sent + 1, 1, s>>
      BY <1>1, <1>2, <2>1
    <3> QED BY <3>1, <3>2
  <2>2. CASE n > 0
    <3>1. p[1] = q[1]
      BY <1>2, <2>2
    <3> QED BY <2>2, <3>1 DEF Stream, n
  <2> QED BY <1>2, <2>1, <2>2
<1>6. Len(p) > 0 /\ p[Len(p)][2] = sent + 1 /\ p[Len(p)][3] = p[Len(p)][4]
  <2>1. n + s \in n+1..n+s /\ n + s - n = s /\ n + s > 0
    BY <1>1, <1>2
  <2>2. p[n+s] = <<c, sent + 1, s, s>>
    BY <1>2, <2>1, SMTT(40)
  <2> QED BY <1>2, <2>1, <2>2
<1>7. Len(p) # 0 /\ Len(p) = n + s /\ Len(p) - 1 = n + s - 1
  BY <1>1, <1>2, <1>6
<1>8. Stream(c, p, sent + 1, done, ph)
  BY <1>3, <1>4, <1>5, <1>6, <1>7 DEF Stream
<1> QED BY <1>8 DEF p, rec

(* The connection breaks: only the first bytes arrive. *)
LEMMA StreamCut ==
  ASSUME NEW c \in Conns, NEW q \in Seq(Bytes), NEW p \in Seq(Bytes), NEW sent, NEW done, NEW ph,
         Stream(c, q, sent, done, ph),
         Len(p) <= Len(q), \A k \in 1..Len(p) : p[k] = q[k]
  PROVE  Stream(c, p, sent, done, "broken")
<1>1. Len(p) \in Nat /\ Len(q) \in Nat
  OBVIOUS
<1>2. \A k \in 1..Len(p) : k \in 1..Len(q)
  BY <1>1
<1>3. \A k \in 1..Len(p)-1 : k \in 1..Len(q)-1 /\ k \in 1..Len(p) /\ k + 1 \in 1..Len(p)
  BY <1>1
<1>4. Len(p) > 0 => Len(q) > 0 /\ 1 \in 1..Len(p)
  BY <1>1
<1>5. \A k \in 1..Len(p)-1 : Follows(p[k], p[k+1])
  BY <1>3 DEF Stream
<1> QED BY <1>2, <1>4, <1>5 DEF Stream

(* A record at the front of the buffer is written to the log. *)
LEMMA StreamLog ==
  ASSUME NEW c \in Conns, NEW q \in Seq(Bytes), NEW sent, NEW done \in Nat, NEW ph,
         Stream(c, q, sent, done, ph),
         Len(q) > 0, NEW s \in 1..Len(q), q[1][4] = s, NEW p \in Seq(Bytes),
         Len(p) = Len(q) - s, \A k \in 1..Len(p) : p[k] = q[k + s]
  PROVE  Stream(c, p, sent, done + 1, ph)
<1>1. Len(p) \in Nat /\ Len(q) \in Nat /\ s \in Nat /\ s >= 1
  OBVIOUS
<1>2. /\ \A k \in 1..Len(q) : q[k] \in DataBytes /\ q[k][1] = c /\ q[k][2] <= sent
      /\ \A k \in 1..Len(q)-1 : Follows(q[k], q[k+1])
      /\ q[1][2] = done + 1 /\ q[1][3] = 1
  BY DEF Stream
<1>3. q[s] = <<q[1][1], done + 1, s, s>>
  <2>1. s <= q[1][4]
    BY <1>1
  <2> QED BY <1>2, <2>1, FrontRecord
<1>4. \A k \in 1..Len(p) : k + s \in 1..Len(q)
  BY <1>1
<1>5. ASSUME NEW k \in 1..Len(p)-1 PROVE Follows(p[k], p[k+1])
  <2>1. /\ k \in 1..Len(p) /\ k + 1 \in 1..Len(p) /\ k + s \in 1..Len(q)-1
        /\ (k + 1) + s = (k + s) + 1
    BY <1>1
  <2> QED BY <1>2, <2>1
<1>6. ASSUME Len(p) > 0 PROVE p[1][2] = done + 1 + 1 /\ p[1][3] = 1
  <2>1. 1 \in 1..Len(p) /\ s \in 1..Len(q)-1 /\ 1 + s = s + 1 /\ ~(s < s)
    BY <1>1, <1>6
  <2>2. Follows(q[s], q[s+1]) /\ p[1] = q[s+1]
    BY <1>2, <2>1
  <2>3. q[s][2] = done + 1 /\ q[s][3] = s /\ q[s][4] = s
    BY <1>3
  <2> QED BY <2>1, <2>2, <2>3 DEF Follows
<1>7. ASSUME ph # "broken", Len(p) = 0 PROVE done + 1 = sent
  <2>1. Len(q) = s
    BY <1>1, <1>7
  <2>2. q[Len(q)][2] = sent
    BY <1>7 DEF Stream
  <2> QED BY <1>3, <2>1, <2>2
<1>8. ASSUME ph # "broken", Len(p) > 0
      PROVE  p[Len(p)][2] = sent /\ p[Len(p)][3] = p[Len(p)][4]
  <2>1. Len(p) \in 1..Len(p) /\ Len(p) + s = Len(q)
    BY <1>1, <1>8
  <2>2. p[Len(p)] = q[Len(q)]
    BY <2>1
  <2> QED BY <1>8, <2>2 DEF Stream
<1> QED BY <1>2, <1>4, <1>5, <1>6, <1>7, <1>8, ZenonT(60) DEF Stream

-----------------------------------------------------------------------------
(* The steps that touch neither a connection's records nor its buffer. *)

Still(c) ==
  /\ phase'[c] = phase[c] /\ chan'[c] = chan[c] /\ nsent'[c] = nsent[c]
  /\ Logged(c)' = Logged(c)
  /\ \A f \in Fds : (Has(f, c)' <=> Has(f, c)) /\ (Has(f, c) => relay'[f] = relay[f])

LEMMA CarriedStill ==
  ASSUME NEW c \in Conns, Carried(c), Still(c)
  PROVE  Carried(c)'
<1>1. phase'[c] \in {"new", "pending"} => OnWire(c)'
  BY DEF Carried, Still, OnWire
<1>2. ASSUME NEW f \in Fds, Has(f, c)' PROVE Through(f, c)'
  BY <1>2 DEF Carried, Still, Through
<1> QED BY <1>1, <1>2 DEF Carried, Still

LEMMA LoggedSame ==
  ASSUME UNCHANGED log, NEW c
  PROVE  Logged(c)' = Logged(c)
BY DEF Logged

LEMMA InUseSame ==
  ASSUME UNCHANGED <<active, pc, infd, peer>>, NEW f, NEW c
  PROVE  Has(f, c)' <=> Has(f, c)
BY DEF Has, InUse

(* A stream does not depend on the phase, unless the connection breaks. *)
LEMMA StreamPhase ==
  ASSUME NEW c, NEW q, NEW sent, NEW done, NEW ph, NEW ph2, Stream(c, q, sent, done, ph),
         ph # "broken"
  PROVE  Stream(c, q, sent, done, ph2)
BY DEF Stream

LEMMA ConnectB ==
  ASSUME AInv, Flow, NEW h \in Hosts, Connect(h)
  PROVE  Flow'
<1>0. TypeOK
  BY DEF AInv
<1>1. PICK c \in Conns : /\ c = MinOf({d \in Conns : phase[d] = "new"}) /\ phase[c] = "new"
                        /\ \A d \in Conns : phase[d] = "new" => c <= d
  <2>1. {d \in Conns : phase[d] = "new"} \in SUBSET Nat /\ {d \in Conns : phase[d] = "new"} # {}
    BY Sizes DEF Connect, Conns
  <2> QED BY <2>1, MinOfLeast
<1>2. /\ phase' = [phase EXCEPT ![c] = "pending"]
      /\ UNCHANGED <<nsent, chan, peer, active, relay, b_end, infd, pc, log>>
  BY <1>1 DEF Connect
<1>3. phase'[c] = "pending" /\ \A d \in Conns : d # c => phase'[d] = phase[d]
  BY <1>0, <1>1, <1>2 DEF TypeOK
<1>4. ASSUME NEW d \in Conns PROVE Carried(d)'
  <2>0. Carried(d)
    BY DEF Flow
  <2>1. CASE d # c
    <3>1. Still(d)
      BY <1>2, <1>3, <2>1, LoggedSame, InUseSame DEF Still
    <3> QED BY <2>0, <3>1, CarriedStill
  <2>2. CASE d = c
    <3>1. OnWire(c)'
      <4>1. Stream(c, chan[c], nsent[c], Logged(c), phase[c])
        BY <1>1, <2>0, <2>2 DEF Carried, OnWire
      <4>2. Stream(c, chan[c], nsent[c], Logged(c), "pending")
        BY <1>1, <4>1, StreamPhase
      <4>3. Logged(c)' = Logged(c)
        BY <1>2, LoggedSame
      <4> QED BY <1>2, <1>3, <4>2, <4>3 DEF OnWire
    <3>2. ASSUME NEW f \in Fds PROVE ~Has(f, c)'
      <4>1. ~Has(f, c)
        BY <1>1 DEF AInv, Peers, Has
      <4> QED BY <1>2, <4>1, InUseSame
    <3> QED BY <1>3, <2>2, <3>1, <3>2 DEF Carried
  <2> QED BY <2>1, <2>2
<1>5. LastCall'
  <2>1. ASSUME pc = "last" PROVE peer[infd] \in Conns /\ peer[infd] # c
    BY <1>1, <2>1 DEF AInv, Rounds, Peers, InUse
  <2> QED BY <1>2, <1>3, <2>1 DEF Flow, LastCall
<1>6. Order'
  <2>0. Order
    BY DEF Flow
  <2>1. ASSUME NEW a \in Conns, NEW d \in Conns, a < d
        PROVE  /\ phase'[a] = "new" => phase'[d] = "new"
               /\ phase'[a] = "pending" => phase'[d] \in {"new", "pending"}
    <3>1. a \in Nat /\ d \in Nat /\ c \in Nat
      BY <1>1, Sizes DEF Conns
    <3>2. CASE a = c
      BY <1>1, <1>3, <2>0, <2>1, <3>2 DEF Order
    <3>3. CASE d = c
      <4>1. phase[a] # "new" /\ a # c
        BY <1>1, <2>1, <3>1, <3>3
      <4> QED BY <1>3, <3>3, <4>1
    <3>4. CASE a # c /\ d # c
      BY <1>3, <2>0, <2>1, <3>4 DEF Order
    <3> QED BY <3>2, <3>3, <3>4
  <2>2. \A d \in Conns : phase'[d] = "broken" => d \in Breakers
    BY <1>3, <2>0 DEF Order
  <2>3. ASSUME NEW f \in Fds, ~InUse(f)', b_end'[f] # 0
        PROVE  \A d \in Conns : phase'[d] \notin {"new", "pending"}
    <3>1. ~InUse(f) /\ b_end[f] # 0
      BY <1>2, <2>3 DEF InUse
    <3> QED BY <1>1, <2>0, <3>1 DEF Order
  <2> QED BY <2>1, <2>2, <2>3 DEF Order
<1> QED BY <1>4, <1>5, <1>6 DEF Flow

(* The order of the connections does not change when nobody connects or    *)
(* is accepted.                                                            *)
LEMMA OrderKept ==
  ASSUME Order,
         \A d \in Conns : /\ (phase'[d] = "new") <=> (phase[d] = "new")
                          /\ (phase'[d] = "pending") <=> (phase[d] = "pending")
                          /\ phase'[d] = "broken" => d \in Breakers,
         \A f \in Fds : (InUse(f) => InUse(f)') /\ (InUse(f)' \/ b_end'[f] = b_end[f])
  PROVE  Order'
<1>1. ASSUME NEW c \in Conns, NEW d \in Conns, c < d
      PROVE  /\ phase'[c] = "new" => phase'[d] = "new"
             /\ phase'[c] = "pending" => phase'[d] \in {"new", "pending"}
  BY <1>1 DEF Order
<1>2. ASSUME NEW f \in Fds, ~InUse(f)', b_end'[f] # 0
      PROVE  \A d \in Conns : phase'[d] \notin {"new", "pending"}
  <2>1. ~InUse(f) /\ b_end[f] # 0
    BY <1>2
  <2> QED BY <2>1 DEF Order
<1> QED BY <1>1, <1>2 DEF Order

LEMMA ConcatBytes ==
  ASSUME NEW a \in Seq(Bytes), NEW b \in Seq(DataBytes)
  PROVE  /\ b \in Seq(Bytes) /\ a \o b \in Seq(Bytes)
         /\ Len(a \o b) = Len(a) + Len(b) /\ Len(a) \in Nat /\ Len(b) \in Nat
         /\ \A k \in 1..Len(a) : (a \o b)[k] = a[k]
         /\ \A k \in 1..Len(b) : (a \o b)[Len(a) + k] = b[k]
<1>1. b \in Seq(Bytes)
  BY ByteFields, SeqMonotonic
<1>2. /\ a \o b \in Seq(Bytes) /\ Len(a \o b) = Len(a) + Len(b)
      /\ \A k \in 1..Len(a) + Len(b) :
           (a \o b)[k] = IF k <= Len(a) THEN a[k] ELSE b[k - Len(a)]
  BY <1>1, ConcatProperties
<1>3. Len(a) \in Nat /\ Len(b) \in Nat
  OBVIOUS
<1>4. ASSUME NEW k \in 1..Len(b) PROVE (a \o b)[Len(a) + k] = b[k]
  <2>1. PICK j \in 1..Len(a) + Len(b) : j = Len(a) + k
    BY <1>3
  <2>2. ~(j <= Len(a)) /\ j - Len(a) = k
    BY <1>3, <2>1
  <2>3. (a \o b)[j] = b[j - Len(a)]
    BY <1>2, <2>2
  <2> QED BY <2>1, <2>2, <2>3, Zenon
<1>5. ASSUME NEW k \in 1..Len(a) PROVE (a \o b)[k] = a[k]
  <2>1. k \in 1..Len(a) + Len(b) /\ k <= Len(a)
    BY <1>3
  <2> QED BY <1>2, <2>1
<1> QED BY <1>1, <1>2, <1>3, <1>4, <1>5

LEMMA EmitB ==
  ASSUME AInv, Flow, NEW c \in Conns, NEW s \in HDR..MaxRec, Emit(c, s)
  PROVE  Flow'
<1>0. TypeOK
  BY DEF AInv
<1>1. /\ phase[c] \in {"pending", "up"} /\ nsent[c] < MaxRecs
      /\ nsent' = [nsent EXCEPT ![c] = @ + 1]
      /\ chan' = [chan EXCEPT ![c] = @ \o Record(c, nsent[c] + 1, s)]
      /\ UNCHANGED <<phase, peer, active, relay, b_end, infd, pc, log>>
  BY DEF Emit
<1>2. /\ nsent'[c] = nsent[c] + 1 /\ chan'[c] = chan[c] \o Record(c, nsent[c] + 1, s)
      /\ \A d \in Conns : d # c => nsent'[d] = nsent[d] /\ chan'[d] = chan[d]
  BY <1>0, <1>1 DEF TypeOK
<1>3. nsent[c] \in Nat /\ nsent[c] + 1 \in 1..MaxRecs /\ Logged(c) \in Nat
  <2>1. nsent[c] \in 0..MaxRecs
    BY <1>0 DEF TypeOK
  <2> QED BY <1>0, <1>1, <2>1, LoggedNat, Sizes
<1>4. ASSUME NEW d \in Conns PROVE Carried(d)'
  <2>0. Carried(d)
    BY DEF Flow
  <2>1. CASE d # c
    <3>1. Still(d)
      BY <1>1, <1>2, <2>1, LoggedSame, InUseSame DEF Still
    <3> QED BY <2>0, <3>1, CarriedStill
  <2>2. CASE d = c
    <3>0. chan[c] \in Seq(DataBytes) /\ chan[c] \in Seq(Bytes)
      BY <1>0, ByteFields, SeqMonotonic DEF TypeOK
    <3>1. Logged(c)' = Logged(c) /\ phase'[c] = phase[c] /\ phase[c] # "broken"
          /\ phase[c] # "closed"
      BY <1>1, LoggedSame
    <3>2. phase[c] = "pending" => OnWire(c)'
      <4>1. ASSUME phase[c] = "pending" PROVE OnWire(c)'
        <5>1. Stream(c, chan[c], nsent[c], Logged(c), phase[c])
          BY <2>0, <2>2, <4>1 DEF Carried, OnWire
        <5>2. Stream(c, chan'[c], nsent'[c], Logged(c), phase[c])
          BY <1>2, <1>3, <3>0, <3>1, <5>1, StreamEmit
        <5> QED BY <3>1, <5>2 DEF OnWire
      <4> QED BY <4>1
    <3>3. ASSUME NEW f \in Fds, Has(f, c)' PROVE Through(f, c)'
      <4>0. Has(f, c)
        BY <1>1, <3>3, InUseSame
      <4>1. Stream(c, relay[f] \o chan[c], nsent[c], Logged(c), phase[c])
        BY <2>0, <2>2, <4>0 DEF Carried, Through
      <4>2. relay[f] \in Seq(Bytes) /\ relay[f] \o chan[c] \in Seq(Bytes)
        BY <1>0, <3>0, ConcatBytes DEF TypeOK
      <4>3. Stream(c, (relay[f] \o chan[c]) \o Record(c, nsent[c] + 1, s), nsent[c] + 1,
                   Logged(c), phase[c])
        BY <1>3, <3>1, <4>1, <4>2, StreamEmit
      <4>4. (relay[f] \o chan[c]) \o Record(c, nsent[c] + 1, s) = relay'[f] \o chan'[c]
        <5>1. Record(c, nsent[c] + 1, s) \in Seq(Bytes)
          BY <1>3, RecordType, ByteFields, SeqMonotonic
        <5>2. (relay[f] \o chan[c]) \o Record(c, nsent[c] + 1, s)
                = relay[f] \o (chan[c] \o Record(c, nsent[c] + 1, s))
          <6>1. \A x, y, z \in Seq(Bytes) : (x \o y) \o z = x \o (y \o z)
            BY ConcatAssociative, SMTT(40)
          <6> QED BY <3>0, <4>2, <5>1, <6>1, ZenonT(60)
        <5> QED BY <1>1, <1>2, <5>2
      <4> QED BY <1>2, <3>1, <4>3, <4>4 DEF Through
    <3>4. phase[c] = "up" => \E f \in Fds : Has(f, c)'
      BY <1>1, <2>0, <2>2, InUseSame DEF Carried
    <3> QED BY <1>1, <2>2, <3>1, <3>2, <3>3, <3>4 DEF Carried
  <2> QED BY <2>1, <2>2
<1>5. LastCall'
  <2>1. ASSUME pc = "last" PROVE peer[infd] \in Conns /\ peer[infd] # c
    BY <1>1, <2>1 DEF AInv, Rounds, Peers, InUse, Flow, LastCall
  <2> QED BY <1>1, <1>2, <2>1 DEF Flow, LastCall
<1>6. Order'
  BY <1>1, OrderKept DEF Flow, Order, InUse
<1> QED BY <1>4, <1>5, <1>6 DEF Flow

(* A connection that is up is closed or breaks. *)
LEMMA OverB ==
  ASSUME AInv, Flow, NEW c \in Conns, phase[c] = "up",
         NEW ph \in {"closed", "broken"}, phase' = [phase EXCEPT ![c] = ph],
         ph = "broken" => c \in Breakers,
         NEW n \in 0..Len(chan[c]), ph = "closed" => n = Len(chan[c]),
         chan' = [chan EXCEPT ![c] = SubSeq(chan[c], 1, n)],
         UNCHANGED <<nsent, peer, active, relay, b_end, infd, pc, log>>
  PROVE  Flow'
<1>0. TypeOK
  BY DEF AInv
<1>1. /\ phase'[c] = ph /\ chan'[c] = SubSeq(chan[c], 1, n)
      /\ \A d \in Conns : d # c => phase'[d] = phase[d] /\ chan'[d] = chan[d]
  BY <1>0 DEF TypeOK
<1>2. /\ chan[c] \in Seq(DataBytes) /\ SubSeq(chan[c], 1, n) \in Seq(DataBytes)
      /\ Len(chan[c]) \in Nat /\ n \in Nat
      /\ Len(SubSeq(chan[c], 1, n)) = n /\ n <= Len(chan[c])
      /\ \A k \in 1..n : SubSeq(chan[c], 1, n)[k] = chan[c][k]
  BY <1>0 DEF TypeOK
<1>4. ASSUME NEW d \in Conns PROVE Carried(d)'
  <2>0. Carried(d)
    BY DEF Flow
  <2>1. CASE d # c
    <3>1. Still(d)
      BY <1>1, <2>1, LoggedSame, InUseSame DEF Still
    <3> QED BY <2>0, <3>1, CarriedStill
  <2>2. CASE d = c
    <3>1. Logged(c)' = Logged(c)
      BY LoggedSame
    <3>2. ASSUME NEW f \in Fds, Has(f, c)' PROVE Through(f, c)'
      <4>0. Has(f, c)
        BY <3>2, InUseSame
      <4>1. Stream(c, relay[f] \o chan[c], nsent[c], Logged(c), "up")
        BY <2>0, <2>2, <4>0 DEF Carried, Through
      <4>2. CASE ph = "closed"
        <5>0. SubSeq(chan[c], 1, Len(chan[c])) = chan[c]
          BY <1>2
        <5>1. chan'[c] = chan[c]
          BY <1>1, <4>2, <5>0
        <5>2. Stream(c, relay[f] \o chan[c], nsent[c], Logged(c), ph)
          BY <4>1, StreamPhase
        <5> QED BY <1>1, <3>1, <5>1, <5>2 DEF Through
      <4>3. CASE ph = "broken"
        <5> DEFINE r == relay[f]
                   q == chan[c]
                   p == SubSeq(chan[c], 1, n)
        <5>1. r \in Seq(Bytes)
          BY <1>0 DEF TypeOK
        <5>2. q \in Seq(DataBytes) /\ p \in Seq(DataBytes) /\ Len(p) = n /\ n <= Len(q)
              /\ \A k \in 1..n : p[k] = q[k]
          BY <1>2
        <5> HIDE DEF r, q, p
        <5>3. /\ r \o q \in Seq(Bytes) /\ r \o p \in Seq(Bytes) /\ Len(r) \in Nat
              /\ Len(q) \in Nat /\ Len(r \o q) = Len(r) + Len(q) /\ Len(r \o p) = Len(r) + n
          BY <5>1, <5>2, ConcatBytes
        <5>4. ASSUME NEW k \in 1..Len(r \o p) PROVE (r \o p)[k] = (r \o q)[k]
          <6>1. CASE k \in 1..Len(r)
            BY <5>1, <5>2, <6>1, ConcatBytes
          <6>2. CASE k \notin 1..Len(r)
            <7>1. PICK j \in 1..n : k = Len(r) + j
              <8>1. k - Len(r) \in 1..n /\ k = Len(r) + (k - Len(r))
                BY <1>2, <5>3, <6>2
              <8> QED BY <8>1
            <7>2. j \in 1..Len(p) /\ j \in 1..Len(q)
              BY <1>2, <5>2, <5>3
            <7>3. (r \o p)[Len(r) + j] = p[j] /\ (r \o q)[Len(r) + j] = q[j]
              BY <5>1, <5>2, <7>2, ConcatBytes
            <7> QED BY <5>2, <7>1, <7>3
          <6> QED BY <6>1, <6>2
        <5>5. Stream(c, r \o q, nsent[c], Logged(c), "up")
          BY <4>1 DEF r, q
        <5>6. Len(r \o p) <= Len(r \o q)
          BY <1>2, <5>2, <5>3
        <5>7. Stream(c, r \o p, nsent[c], Logged(c), "broken")
          BY <5>3, <5>4, <5>5, <5>6, StreamCut
        <5> QED BY <1>1, <3>1, <4>3, <5>7 DEF Through, r, p
      <4> QED BY <4>2, <4>3
    <3>3. \E f \in Fds : Has(f, c)'
      BY <2>0, <2>2, InUseSame DEF Carried
    <3> QED BY <1>1, <2>2, <3>2, <3>3 DEF Carried
  <2> QED BY <2>1, <2>2
<1>5. LastCall'
  <2>1. ASSUME pc = "last" PROVE peer[infd] \in Conns /\ peer[infd] # c
    BY <2>1 DEF AInv, Rounds, Peers, InUse, Flow, LastCall
  <2> QED BY <1>1, <2>1 DEF Flow, LastCall
<1>6. Order'
  BY <1>1, OrderKept DEF Flow, Order, InUse
<1> QED BY <1>4, <1>5, <1>6 DEF Flow

LEMMA DisconnectB ==
  ASSUME AInv, Flow, NEW c \in Conns, Disconnect(c)
  PROVE  Flow'
<1>1. chan[c] \in Seq(DataBytes) /\ chan \in [Conns -> Seq(DataBytes)]
  BY DEF AInv, TypeOK
<1>2. PICK n \in 0..Len(chan[c]) : n = Len(chan[c])
  BY <1>1
<1>3. SubSeq(chan[c], 1, n) = chan[c]
  BY <1>1, <1>2
<1>4. chan' = [chan EXCEPT ![c] = SubSeq(chan[c], 1, n)]
  BY <1>1, <1>3 DEF Disconnect
<1>5. /\ phase[c] = "up" /\ phase' = [phase EXCEPT ![c] = "closed"]
      /\ UNCHANGED <<nsent, peer, active, relay, b_end, infd, pc, log>>
  BY DEF Disconnect
<1> QED BY <1>2, <1>4, <1>5, OverB

LEMMA BreakB ==
  ASSUME AInv, Flow, NEW c \in Conns, Break(c)
  PROVE  Flow'
<1>1. /\ phase[c] = "up" /\ phase' = [phase EXCEPT ![c] = "broken"] /\ c \in Breakers
      /\ UNCHANGED <<nsent, peer, active, relay, b_end, infd, pc, log>>
  BY DEF Break
<1>2. PICK n \in 0..Len(chan[c])-1 : chan' = [chan EXCEPT ![c] = SubSeq(chan[c], 1, n)]
  BY DEF Break
<1>3. n \in 0..Len(chan[c])
  <2>1. chan[c] \in Seq(DataBytes)
    BY DEF AInv, TypeOK
  <2> QED BY <2>1
<1> QED BY <1>1, <1>2, <1>3, OverB

LEMMA SelectB ==
  ASSUME AInv, Flow, Select \/ SelectAgain
  PROVE  Flow'
<1>1. /\ pc \in {"select", "serve"} /\ pc' \in {"select", "serve"}
      /\ UNCHANGED <<client, peer, active, relay, b_end, infd, log>>
  BY DEF Select, SelectAgain
<1>2. UNCHANGED <<phase, nsent, chan>>
  BY <1>1 DEF client
<1>3. \A f \in Fds : InUse(f)' <=> InUse(f)
  BY <1>1 DEF InUse
<1>4. ASSUME NEW d \in Conns PROVE Carried(d)'
  <2>1. Still(d)
    BY <1>1, <1>2, <1>3, LoggedSame DEF Still, Has
  <2> QED BY <2>1, CarriedStill DEF Flow
<1>5. LastCall'
  BY <1>1 DEF LastCall
<1>6. Order'
  BY <1>1, <1>2, <1>3, OrderKept DEF Flow, Order
<1> QED BY <1>4, <1>5, <1>6 DEF Flow

(* accept() takes the oldest connection; nothing is left in the buffer of  *)
(* the descriptor it gets, because nobody connects after a broken one.     *)
LEMMA AcceptB ==
  ASSUME AInv, Flow, Accept
  PROVE  Flow'
<1>0. TypeOK /\ Peers
  BY DEF AInv
<1>1. PICK c \in Conns, f \in Fds :
        /\ c = MinOf({d \in Conns : phase[d] = "pending"}) /\ f = MinOf(Fds \ active)
        /\ phase[c] = "pending" /\ f \notin active
  BY AcceptFinds
<1>2. /\ pc = "serve" /\ phase' = [phase EXCEPT ![c] = "up"]
      /\ peer' = [peer EXCEPT ![f] = c] /\ active' = active \cup {f}
      /\ relay' = [relay EXCEPT ![f] = fresh_relay(f)]
      /\ UNCHANGED <<nsent, chan, b_end, infd, pc, log>>
  BY <1>1 DEF Accept
<1>3. \A d \in Conns : phase[d] = "pending" => c <= d
  <2>1. {d \in Conns : phase[d] = "pending"} \in SUBSET Nat
    BY Sizes DEF Conns
  <2> QED BY <1>1, <2>1, MinOfLeast
<1>4. \A g \in Fds : /\ InUse(g) <=> g \in active
                     /\ InUse(g)' <=> (g \in active \/ g = f)
  BY <1>2 DEF InUse
<1>5. /\ phase'[c] = "up" /\ \A d \in Conns \ {c} : phase'[d] = phase[d]
      /\ peer'[f] = c /\ \A g \in Fds \ {f} : peer'[g] = peer[g]
      /\ relay'[f] = fresh_relay(f) /\ \A g \in Fds \ {f} : relay'[g] = relay[g]
  BY <1>0, <1>1, <1>2 DEF TypeOK
<1>6. fresh_relay(f) = << >>
  <2>1. b_end[f] = 0
    BY <1>1, <1>4 DEF Flow, Order
  <2> QED BY <2>1 DEF fresh_relay
<1>7. ASSUME NEW g \in Fds PROVE ~Has(g, c)
  BY <1>0, <1>1, <1>4 DEF Peers, Has
<1>8. ASSUME NEW d \in Conns PROVE Carried(d)'
  <2>0. Carried(d) /\ Logged(d)' = Logged(d)
    BY <1>2, LoggedSame DEF Flow
  <2>1. CASE d # c
    <3>1. \A g \in Fds : (Has(g, d)' <=> Has(g, d)) /\ (Has(g, d) => g # f)
      BY <1>1, <1>4, <1>5, <2>1 DEF Has
    <3>2. Still(d)
      BY <1>2, <1>5, <2>0, <2>1, <3>1 DEF Still
    <3> QED BY <2>0, <3>2, CarriedStill
  <2>2. CASE d = c
    <3>1. Stream(c, chan[c], nsent[c], Logged(c), "up")
      <4>1. Stream(c, chan[c], nsent[c], Logged(c), "pending")
        BY <1>1, <2>0, <2>2 DEF Carried, OnWire
      <4> QED BY <4>1, StreamPhase
    <3>2. << >> \o chan[c] = chan[c]
      <4>1. chan[c] \in Seq(DataBytes)
        BY <1>0 DEF TypeOK
      <4> QED BY <4>1, ConcatEmptySeq
    <3>3. Through(f, c)'
      BY <1>2, <1>5, <1>6, <2>0, <2>2, <3>1, <3>2 DEF Through
    <3>4. \A g \in Fds : Has(g, c)' <=> g = f
      BY <1>4, <1>5, <1>7 DEF Has
    <3> QED BY <1>5, <2>2, <3>3, <3>4 DEF Carried
  <2> QED BY <2>1, <2>2
<1>9. LastCall'
  BY <1>2 DEF LastCall
<1>10. Order'
  <2>0. Order
    BY DEF Flow
  <2>1. ASSUME NEW a \in Conns, NEW d \in Conns, a < d
        PROVE  /\ phase'[a] = "new" => phase'[d] = "new"
               /\ phase'[a] = "pending" => phase'[d] \in {"new", "pending"}
    <3>1. a \in Nat /\ d \in Nat /\ c \in Nat
      BY <1>1, Sizes DEF Conns
    <3>2. CASE a = c
      BY <1>5, <3>2
    <3>3. CASE d = c
      <4>1. phase[a] # "pending" /\ a # c
        BY <1>1, <1>3, <2>1, <3>1, <3>3
      <4>2. phase[a] # "new"
        BY <1>1, <2>0, <2>1, <3>3 DEF Order
      <4> QED BY <1>5, <4>1, <4>2
    <3>4. CASE a # c /\ d # c
      BY <1>5, <2>0, <2>1, <3>4 DEF Order
    <3> QED BY <3>2, <3>3, <3>4
  <2>2. \A d \in Conns : phase'[d] = "broken" => d \in Breakers
    BY <1>5, <2>0 DEF Order
  <2>3. ASSUME NEW g \in Fds, ~InUse(g)', b_end'[g] # 0
        PROVE  \A d \in Conns : phase'[d] \notin {"new", "pending"}
    BY <1>1, <1>2, <1>4, <2>0, <2>3 DEF Order
  <2> QED BY <2>1, <2>2, <2>3 DEF Order
<1> QED BY <1>8, <1>9, <1>10 DEF Flow

LEMMA transfer_inB ==
  ASSUME AInv, Flow, transfer_in
  PROVE  Flow'
<1>0. TypeOK /\ Peers
  BY DEF AInv
<1>1. PICK f \in Fds, c \in Conns :
        f = MinOf(ready) /\ c = peer[f] /\ f \in active /\ pc = "serve"
  BY ServedFd DEF transfer_in
<1>2. PICK r \in 1..Len(chan[c]) :
        /\ relay' = [relay EXCEPT ![f] = @ \o SubSeq(chan[c], 1, r)]
        /\ chan'  = [chan EXCEPT ![c] = SubSeq(@, r + 1, Len(@))]
        /\ b_end' = [b_end EXCEPT ![f] = @ + r]
  BY <1>1 DEF transfer_in
<1>3. pc' \in {"serve", "out"} /\ UNCHANGED <<phase, nsent, peer, active, log>>
  BY DEF transfer_in
<1>4. /\ relay'[f] = relay[f] \o SubSeq(chan[c], 1, r)
      /\ chan'[c] = SubSeq(chan[c], r + 1, Len(chan[c]))
      /\ \A g \in Fds \ {f} : relay'[g] = relay[g] /\ b_end'[g] = b_end[g]
      /\ \A d \in Conns \ {c} : chan'[d] = chan[d]
  BY <1>0, <1>1, <1>2 DEF TypeOK
<1>5. relay'[f] \o chan'[c] = relay[f] \o chan[c]
  <2>1. /\ chan[c] \in Seq(Bytes) /\ relay[f] \in Seq(Bytes) /\ Len(chan[c]) \in Nat
        /\ r \in Nat /\ r <= Len(chan[c]) /\ 1 <= r
    <3>1. chan[c] \in Seq(DataBytes)
      BY <1>0 DEF TypeOK
    <3>2. chan[c] \in Seq(Bytes)
      BY <3>1, ByteFields, SeqMonotonic
    <3> QED BY <1>0, <3>1, <3>2 DEF TypeOK
  <2> DEFINE a == SubSeq(chan[c], 1, r)
             b == SubSeq(chan[c], r + 1, Len(chan[c]))
  <2>2. a \in Seq(Bytes) /\ b \in Seq(Bytes)
    BY <2>1
  <2>3. a \o b = chan[c]
    <3>1. SubSeq(chan[c], 1, r) \o SubSeq(chan[c], r + 1, Len(chan[c]))
            = SubSeq(chan[c], 1, Len(chan[c]))
      BY <2>1, ConcatAdjacentSubSeq
    <3>2. SubSeq(chan[c], 1, Len(chan[c])) = chan[c]
      BY <2>1
    <3> QED BY <3>1, <3>2
  <2> HIDE DEF a, b
  <2>4. \A x, y, z \in Seq(Bytes) : (x \o y) \o z = x \o (y \o z)
    BY ConcatAssociative, SMTT(40)
  <2>5. (relay[f] \o a) \o b = relay[f] \o (a \o b)
    BY <2>1, <2>2, <2>4
  <2> QED BY <1>4, <2>3, <2>5 DEF a, b
<1>6. \A g \in Fds : (InUse(g) <=> g \in active) /\ (InUse(g)' <=> g \in active)
  BY <1>1, <1>3 DEF InUse
<1>7. \A g \in Fds, d \in Conns : Has(g, d)' <=> Has(g, d)
  BY <1>3, <1>6 DEF Has
<1>8. ASSUME NEW d \in Conns PROVE Carried(d)'
  <2>0. Carried(d) /\ Logged(d)' = Logged(d)
    BY <1>3, LoggedSame DEF Flow
  <2>1. CASE d # c
    <3>1. \A g \in Fds : Has(g, d) => g # f
      BY <1>1, <2>1 DEF Has
    <3>2. Still(d)
      BY <1>3, <1>4, <1>7, <2>0, <2>1, <3>1 DEF Still
    <3> QED BY <2>0, <3>2, CarriedStill
  <2>2. CASE d = c
    <3>1. phase[c] \notin {"new", "pending"} /\ Has(f, c)
      BY <1>0, <1>1, <1>6 DEF Peers, Has
    <3>2. \A g \in Fds : Has(g, c) => g = f
      BY <1>0, <1>1, <1>6 DEF Peers, Has
    <3>3. Through(f, c)'
      BY <1>3, <1>5, <2>0, <2>2, <3>1 DEF Carried, Through
    <3> QED BY <1>3, <1>7, <2>2, <3>1, <3>2, <3>3 DEF Carried
  <2> QED BY <2>1, <2>2
<1>9. LastCall'
  BY <1>3 DEF LastCall
<1>10. Order'
  <2>1. \A g \in Fds : (InUse(g) => InUse(g)') /\ (InUse(g)' \/ b_end'[g] = b_end[g])
    BY <1>1, <1>4, <1>6
  <2> QED BY <1>3, <2>1, OrderKept DEF Flow, Order
<1> QED BY <1>8, <1>9, <1>10 DEF Flow

-----------------------------------------------------------------------------
(* transfer_out() finds the next record at the front of the buffer. *)

LEMMA StreamFront ==
  ASSUME NEW c \in Conns, NEW r \in Seq(Bytes), NEW w \in Seq(DataBytes), Len(r) > 0,
         NEW sent, NEW done, NEW ph, Stream(c, r \o w, sent, done, ph)
  PROVE  /\ r[1] \in DataBytes /\ r[1][1] = c /\ r[1][2] = done + 1 /\ r[1][2] <= sent
         /\ \A j \in 1..Len(r) : j <= r[1][4] => r[j] = <<c, done + 1, j, r[1][4]>>
<1> DEFINE q == r \o w
<1>1. /\ q \in Seq(Bytes) /\ Len(q) = Len(r) + Len(w) /\ Len(r) \in Nat /\ Len(w) \in Nat
      /\ \A k \in 1..Len(r) : q[k] = r[k]
  BY ConcatBytes
<1>2. Stream(c, q, sent, done, ph)
  OBVIOUS
<1> HIDE DEF q
<1>3. Len(q) > 0 /\ 1 \in 1..Len(r) /\ 1 \in 1..Len(q) /\ \A j \in 1..Len(r) : j \in 1..Len(q)
  BY <1>1
<1>4. /\ \A k \in 1..Len(q) : q[k] \in DataBytes
      /\ \A k \in 1..Len(q)-1 : Follows(q[k], q[k+1])
      /\ q[1][1] = c /\ q[1][2] = done + 1 /\ q[1][3] = 1 /\ q[1][2] <= sent
  BY <1>2, <1>3 DEF Stream
<1>5. q[1] = r[1]
  BY <1>1, <1>3
<1>6. ASSUME NEW j \in 1..Len(r), j <= r[1][4] PROVE r[j] = <<c, done + 1, j, r[1][4]>>
  <2>1. j \in 1..Len(q) /\ j <= q[1][4]
    BY <1>3, <1>5, <1>6
  <2>2. q[j] = <<q[1][1], q[1][2], j, q[1][4]>>
    BY <1>1, <1>3, <1>4, <2>1, FrontRecord
  <2> QED BY <1>1, <1>4, <1>5, <2>2
<1> QED BY <1>3, <1>4, <1>5, <1>6

LEMMA StreamFramed ==
  ASSUME NEW c \in Conns, NEW r \in Seq(Bytes), NEW w \in Seq(DataBytes), Len(r) >= HDR,
         NEW sent, NEW done, NEW ph, Stream(c, r \o w, sent, done, ph)
  PROVE  Framed(r) /\ frozen_sizes(r) = {r[1][4]}
<1>1. Len(r) > 0
  BY Sizes
<1>2. /\ r[1] \in DataBytes /\ r[1][1] = c /\ r[1][2] = done + 1
      /\ \A j \in 1..Len(r) : j <= r[1][4] => r[j] = <<c, done + 1, j, r[1][4]>>
  BY <1>1, StreamFront
<1>3. r[1] # Zero /\ r[1][4] \in Nat /\ r[1][4] >= HDR
  BY <1>2, ByteFields
<1>4. \A j \in 1..HDR : j \in 1..Len(r) /\ j <= r[1][4]
  BY <1>3, Sizes
<1>5. Framed(r)
  BY <1>2, <1>3, <1>4 DEF Framed
<1> QED BY <1>5 DEF frozen_sizes

(* A full buffer would start with a complete record. *)
LEMMA RoomLeft ==
  ASSUME AInv, Flow, pc \in {"select", "serve"}, NEW f \in active
  PROVE  avail[f] > 0
<1>0. TypeOK /\ f \in Fds /\ InUse(f)
  BY DEF AInv, TypeOK, InUse
<1>1. /\ peer[f] \in Conns /\ Len(relay[f]) = b_end[f]
  BY <1>0 DEF AInv, Peers
<1>2. /\ relay[f] \in Seq(Bytes) /\ chan[peer[f]] \in Seq(DataBytes)
      /\ b_end[f] \in Nat /\ avail[f] \in Nat
  BY <1>0, <1>1, Sizes DEF TypeOK
<1>3. /\ b_end[f] + avail[f] = RELAY_BUF
      /\ b_end[f] > HDR => ~(Framed(relay[f]) /\ b_end[f] >= relay[f][1][4])
  BY <1>0 DEF AInv, Room
<1>4. Stream(peer[f], relay[f] \o chan[peer[f]], nsent[peer[f]], Logged(peer[f]), phase[peer[f]])
  BY <1>0, <1>1 DEF Flow, Carried, Has, Through
<1>5. ASSUME avail[f] = 0 PROVE FALSE
  <2>1. b_end[f] = RELAY_BUF /\ b_end[f] > HDR /\ Len(relay[f]) >= HDR
    BY <1>1, <1>2, <1>3, <1>5, Sizes
  <2>2. Framed(relay[f])
    BY <1>1, <1>2, <1>4, <2>1, StreamFramed
  <2>3. relay[f][1] \in DataBytes
    BY <1>2, <2>1, <2>2, FrontSize
  <2>4. relay[f][1][4] \in Nat /\ relay[f][1][4] <= MaxRec
    BY <2>3, ByteFields, Sizes
  <2>5. b_end[f] >= relay[f][1][4]
    BY <2>1, <2>4, Sizes
  <2> QED BY <1>3, <2>1, <2>2, <2>5
<1> QED BY <1>2, <1>5

(* transfer_in() fails only when the client is gone. *)
LEMMA transfer_in_endsB ==
  ASSUME AInv, Flow, transfer_in_ends
  PROVE  Flow'
<1>0. TypeOK /\ Peers
  BY DEF AInv
<1>1. PICK f \in Fds, c \in Conns :
        f = MinOf(ready) /\ c = peer[f] /\ f \in active /\ pc = "serve"
  BY ServedFd DEF transfer_in_ends
<1>2. /\ active' = active \ {f} /\ infd' = f /\ pc' = "last"
      /\ UNCHANGED <<client, peer, relay, b_end, log>>
  BY <1>1 DEF transfer_in_ends
<1>3. UNCHANGED <<phase, nsent, chan>>
  BY <1>2 DEF client
<1>4. \A g \in Fds : (InUse(g) <=> g \in active) /\ (InUse(g)' <=> g \in active)
  BY <1>1, <1>2 DEF InUse
<1>5. phase[c] \in {"closed", "broken"} /\ chan[c] = << >>
  <2>1. avail[f] # 0
    BY <1>1, RoomLeft
  <2> QED BY <1>1, <2>1 DEF transfer_in_ends, Ended
<1>6. ASSUME NEW d \in Conns PROVE Carried(d)'
  <2>1. Still(d)
    BY <1>2, <1>3, <1>4, LoggedSame DEF Still, Has
  <2> QED BY <2>1, CarriedStill DEF Flow
<1>7. LastCall'
  BY <1>1, <1>2, <1>3, <1>5 DEF LastCall
<1>8. Order'
  BY <1>2, <1>3, <1>4, OrderKept DEF Flow, Order
<1> QED BY <1>6, <1>7, <1>8 DEF Flow

(* What one iteration of transfer_out() writes. *)
Written(f, c) ==
  LET r == relay[f]
      s == relay[f][1][4]
      e == [rec |-> Record(c, Logged(c) + 1, s), diff |-> diff(f)]
  IN  /\ s \in HDR..MaxRec /\ s <= Len(r) /\ log' = Append(log, e)
      /\ relay' = [relay EXCEPT ![f] = SubSeq(r, s + 1, Len(r))]
      /\ Logged(c) + 1 \in 1..nsent[c]

LEMMA RecordWritten ==
  ASSUME AInv, Flow, transfer_out_record, NEW f \in Fds, NEW c \in Conns,
         f = infd, c = peer[f]
  PROVE  Has(f, c) /\ Written(f, c)
<1>0. TypeOK
  BY DEF AInv
<1>1. pc \in {"out", "last"} /\ b_end[f] >= HDR
  BY DEF transfer_out_record
<1>2. InUse(f) /\ relay[f] \in Seq(Bytes) /\ Len(relay[f]) = b_end[f]
  BY <1>1, OutFd
<1>3. chan[c] \in Seq(DataBytes) /\ Logged(c) \in Nat /\ nsent[c] \in Nat
  <2>1. nsent[c] \in 0..MaxRecs
    BY <1>0 DEF TypeOK
  <2> QED BY <1>0, <2>1, LoggedNat, Sizes, SMTT(40) DEF TypeOK
<1>4. Has(f, c) /\ Stream(c, relay[f] \o chan[c], nsent[c], Logged(c), phase[c])
  BY <1>2 DEF Flow, Carried, Has, Through
<1> DEFINE r == relay[f]
           s == relay[f][1][4]
<1>5. r \in Seq(Bytes) /\ Len(r) >= HDR /\ Len(r) > 0 /\ Len(r) \in Nat
  BY <1>1, <1>2, Sizes
<1>6. frozen_sizes(r) = {s}
  BY <1>3, <1>4, <1>5, StreamFramed
<1>7. /\ b_end[f] >= s
      /\ log' = Append(log, [rec |-> SubSeq(r, 1, s), diff |-> diff(f)])
      /\ relay' = [relay EXCEPT ![f] = SubSeq(r, s + 1, Len(r))]
  BY <1>6 DEF transfer_out_record
<1>8. /\ r[1] \in DataBytes /\ r[1][2] = Logged(c) + 1 /\ r[1][2] <= nsent[c]
      /\ \A j \in 1..Len(r) : j <= s => r[j] = <<c, Logged(c) + 1, j, s>>
  BY <1>3, <1>4, <1>5, StreamFront, SMTT(40)
<1>9. s \in HDR..MaxRec /\ s \in Nat /\ s <= Len(r)
  BY <1>2, <1>7, <1>8, ByteFields
<1> HIDE DEF r, s
<1>10. SubSeq(r, 1, s) = Record(c, Logged(c) + 1, s)
  <2>1. SubSeq(r, 1, s) = [j \in 1..s |-> r[j]]
    BY <1>5, <1>9
  <2>2. \A j \in 1..s : r[j] = <<c, Logged(c) + 1, j, s>>
    BY <1>5, <1>8, <1>9
  <2> QED BY <2>1, <2>2 DEF Record
<1>11. Logged(c) + 1 \in 1..nsent[c]
  BY <1>3, <1>8
<1> QED BY <1>4, <1>7, <1>9, <1>10, <1>11 DEF Written, r, s

(* A record counts for the connection it is of. *)
LEMMA WrittenCounts ==
  ASSUME TypeOK, NEW f \in Fds, NEW c \in Conns, Written(f, c)
  PROVE  /\ Logged(c)' = Logged(c) + 1
         /\ \A d \in Conns \ {c} : Logged(d)' = Logged(d)
<1>0. /\ relay[f][1][4] \in HDR..MaxRec
      /\ log' = Append(log, [rec |-> Record(c, Logged(c) + 1, relay[f][1][4]), diff |-> diff(f)])
  BY DEF Written
<1>0a. PICK s \in HDR..MaxRec : s = relay[f][1][4]
  BY <1>0
<1>0b. PICK n \in Nat : n = Logged(c) + 1
  BY LoggedNat
<1>0c. PICK x : x = diff(f)
  OBVIOUS
<1>1. log' = Append(log, [rec |-> Record(c, n, s), diff |-> x])
  BY <1>0, <1>0a, <1>0b, <1>0c
<1> DEFINE e == [rec |-> Record(c, n, s), diff |-> x]
<1>2. e.rec[1][1] = c
  <2>1. 1 \in 1..s
    BY Sizes
  <2> QED BY <2>1 DEF Record
<1>3. log' = Append(log, e)
  BY <1>1
<1> HIDE DEF e
<1>4. ASSUME NEW d
      PROVE  Logged(d)' = IF e.rec[1][1] = d THEN Logged(d) + 1 ELSE Logged(d)
  BY <1>3, LoggedAppend, SMTT(40)
<1> QED BY <1>2, <1>4

LEMMA DropBytes ==
  ASSUME NEW r \in Seq(Bytes), NEW s \in Nat, s <= Len(r)
  PROVE  /\ SubSeq(r, s + 1, Len(r)) \in Seq(Bytes)
         /\ Len(SubSeq(r, s + 1, Len(r))) = Len(r) - s
         /\ \A k \in 1..Len(r) - s : SubSeq(r, s + 1, Len(r))[k] = r[k + s]
<1>1. Len(r) \in Nat
  OBVIOUS
<1>2. \A j \in s+1..Len(r) : r[j] \in Bytes
  BY <1>1
<1>3. /\ SubSeq(r, s + 1, Len(r)) \in Seq(Bytes)
      /\ Len(SubSeq(r, s + 1, Len(r))) =
           IF s + 1 <= Len(r) THEN Len(r) - (s + 1) + 1 ELSE 0
      /\ \A k \in 1..Len(r) - (s + 1) + 1 : SubSeq(r, s + 1, Len(r))[k] = r[s + 1 + k - 1]
  BY <1>1, <1>2, SubSeqProperties, SMTT(40)
<1>4. Len(r) - (s + 1) + 1 = Len(r) - s /\ \A k \in 1..Len(r) - s : s + 1 + k - 1 = k + s
  BY <1>1, SMTT(60)
<1>5. Len(SubSeq(r, s + 1, Len(r))) = Len(r) - s
  <2>1. s + 1 <= Len(r) \/ Len(r) - s = 0
    BY <1>1
  <2> QED BY <1>3, <1>4, <2>1
<1>6. ASSUME NEW k \in 1..Len(r) - s PROVE SubSeq(r, s + 1, Len(r))[k] = r[k + s]
  <2>1. k \in 1..Len(r) - (s + 1) + 1 /\ s + 1 + k - 1 = k + s
    BY <1>4
  <2> QED BY <1>3, <2>1, Zenon
<1> QED BY <1>3, <1>5, <1>6, Zenon

LEMMA transfer_out_recordB ==
  ASSUME AInv, Flow, transfer_out_record
  PROVE  Flow'
<1>0. TypeOK /\ Peers
  BY DEF AInv
<1>1. PICK f \in Fds, c \in Conns : f = infd /\ c = peer[f]
  BY OutFd DEF transfer_out_record
<1>2. Has(f, c) /\ Written(f, c)
  BY <1>1, RecordWritten
<1>3. UNCHANGED <<client, peer, active, infd, pc>>
  BY DEF transfer_out_record
<1>4. UNCHANGED <<phase, nsent, chan>>
  BY <1>3 DEF client
<1>5. Logged(c)' = Logged(c) + 1 /\ \A d \in Conns \ {c} : Logged(d)' = Logged(d)
  BY <1>0, <1>2, WrittenCounts
<1>6. \A g \in Fds : InUse(g)' <=> InUse(g)
  BY <1>3 DEF InUse
<1>7. \A g \in Fds, d \in Conns : Has(g, d)' <=> Has(g, d)
  BY <1>3, <1>6 DEF Has
<1> DEFINE r == relay[f]
           s == r[1][4]
<1>8. /\ s \in HDR..MaxRec /\ s \in Nat /\ s >= 1 /\ s <= Len(r)
      /\ relay'[f] = SubSeq(r, s + 1, Len(r)) /\ \A g \in Fds \ {f} : relay'[g] = relay[g]
  <2>1. /\ s \in HDR..MaxRec /\ s <= Len(r)
        /\ relay' = [relay EXCEPT ![f] = SubSeq(r, s + 1, Len(r))]
    BY <1>2 DEF Written
  <2>2. relay \in [Fds -> Seq(Bytes)]
    BY <1>0 DEF TypeOK
  <2> HIDE DEF r, s
  <2>3. s \in Nat /\ s >= 1
    BY <2>1, Sizes
  <2>4. relay'[f] = SubSeq(r, s + 1, Len(r)) /\ \A g \in Fds \ {f} : relay'[g] = relay[g]
    BY <2>1, <2>2
  <2> QED BY <2>1, <2>3, <2>4
<1>9. Through(f, c)'
  <2> DEFINE w == chan[c]
             p == SubSeq(r, s + 1, Len(r))
  <2>1. r \in Seq(Bytes) /\ w \in Seq(DataBytes) /\ Len(r) \in Nat /\ Logged(c) \in Nat
    BY <1>0, LoggedNat DEF TypeOK
  <2>2. Stream(c, r \o w, nsent[c], Logged(c), phase[c])
    BY <1>2 DEF Flow, Carried, Through
  <2>3. /\ p \in Seq(Bytes) /\ Len(p) = Len(r) - s
        /\ \A k \in 1..Len(r) - s : p[k] = r[k + s]
    <3> HIDE DEF r, s
    <3> QED BY <1>8, <2>1, DropBytes
  <2>3a. s = r[1][4]
    OBVIOUS
  <2> HIDE DEF r, s, w, p
  <2>4. /\ r \o w \in Seq(Bytes) /\ Len(r \o w) = Len(r) + Len(w) /\ Len(w) \in Nat
        /\ \A k \in 1..Len(r) : (r \o w)[k] = r[k]
        /\ \A k \in 1..Len(w) : (r \o w)[Len(r) + k] = w[k]
    BY <2>1, ConcatBytes
  <2>5. /\ p \o w \in Seq(Bytes) /\ Len(p \o w) = Len(p) + Len(w)
        /\ \A k \in 1..Len(p) : (p \o w)[k] = p[k]
        /\ \A k \in 1..Len(w) : (p \o w)[Len(p) + k] = w[k]
    BY <2>1, <2>3, ConcatBytes
  <2>6. Len(r \o w) > 0 /\ s \in 1..Len(r \o w) /\ Len(p \o w) = Len(r \o w) - s
    BY <1>8, <2>1, <2>3, <2>4, <2>5
  <2>7. (r \o w)[1][4] = s
    <3>1. 1 \in 1..Len(r)
      BY <1>8, <2>1
    <3> QED BY <2>3a, <2>4, <3>1
  <2>8. ASSUME NEW k \in 1..Len(p \o w) PROVE (p \o w)[k] = (r \o w)[k + s]
    <3>1. CASE k \in 1..Len(p)
      <4>1. k + s \in 1..Len(r) /\ k \in 1..Len(r) - s
        BY <1>8, <2>1, <2>3, <3>1
      <4>2. (p \o w)[k] = p[k] /\ p[k] = r[k + s] /\ (r \o w)[k + s] = r[k + s]
        BY <2>3, <2>4, <2>5, <3>1, <4>1
      <4> QED BY <4>2
    <3>2. CASE k \notin 1..Len(p)
      <4>0. Len(p) \in Nat /\ k - Len(p) \in 1..Len(w)
        BY <1>8, <2>1, <2>3, <2>4, <2>5, <3>2
      <4>1. PICK j \in 1..Len(w) : j = k - Len(p)
        BY <4>0
      <4>2. k = Len(p) + j /\ k + s = Len(r) + j
        BY <1>8, <2>1, <2>3, <4>1
      <4>3. (p \o w)[Len(p) + j] = w[j] /\ (r \o w)[Len(r) + j] = w[j]
        BY <2>4, <2>5
      <4> QED BY <4>2, <4>3
    <3> QED BY <3>1, <3>2
  <2>9. Stream(c, p \o w, nsent[c], Logged(c) + 1, phase[c])
    BY <2>1, <2>2, <2>4, <2>5, <2>6, <2>7, <2>8, StreamLog, ZenonT(60)
  <2>10. relay'[f] = p /\ chan'[c] = w
    BY <1>4, <1>8 DEF p, w
  <2> QED BY <1>4, <1>5, <2>9, <2>10 DEF Through
<1>10. ASSUME NEW d \in Conns PROVE Carried(d)'
  <2>0. Carried(d)
    BY DEF Flow
  <2>1. CASE d # c
    <3>1. \A g \in Fds : Has(g, d) => g # f
      BY <1>1, <2>1 DEF Has
    <3>2. Still(d)
      BY <1>4, <1>5, <1>7, <1>8, <2>1, <3>1 DEF Still
    <3> QED BY <2>0, <3>2, CarriedStill
  <2>2. CASE d = c
    <3>1. phase[c] \notin {"new", "pending"}
      BY <1>0, <1>2 DEF Peers, Has
    <3>2. \A g \in Fds : Has(g, c) => g = f
      BY <1>0, <1>2 DEF Peers, Has
    <3> QED BY <1>2, <1>4, <1>7, <1>9, <2>2, <3>1, <3>2 DEF Carried
  <2> QED BY <2>1, <2>2
<1>11. LastCall'
  BY <1>3, <1>4 DEF Flow, LastCall
<1>12. Order'
  <2>1. \A g \in Fds : (InUse(g) => InUse(g)') /\ (InUse(g)' \/ b_end'[g] = b_end[g])
    <3>1. \A g \in Fds : g # f => b_end'[g] = b_end[g]
      BY <1>0, <1>1 DEF transfer_out_record, TypeOK
    <3> QED BY <1>2, <1>6, <3>1 DEF Has
  <2> QED BY <1>4, <2>1, OrderKept DEF Flow, Order
<1> QED BY <1>10, <1>11, <1>12 DEF Flow

(* When no complete record is left of a connection that was closed, then   *)
(* nothing is.                                                             *)
LEMMA NothingLeft ==
  ASSUME NEW c \in Conns, NEW r \in Seq(Bytes), NEW sent, NEW done, NEW ph, ph # "broken",
         Stream(c, r, sent, done, ph),
         Len(r) < HDR \/ (Len(r) >= HDR /\ \E s \in frozen_sizes(r) : Len(r) < s)
  PROVE  Len(r) = 0 /\ done = sent
<1>0. Len(r) \in Nat
  OBVIOUS
<1>1. ASSUME Len(r) > 0 PROVE FALSE
  <2>0. << >> \in Seq(DataBytes) /\ r \o << >> = r
    BY ConcatEmptySeq
  <2>1. PICK w \in Seq(DataBytes) : r \o w = r
    BY <2>0
  <2>1a. Stream(c, r \o w, sent, done, ph)
    BY <2>1
  <2>2. r[1] \in DataBytes
        /\ \A j \in 1..Len(r) : j <= r[1][4] => r[j] = <<c, done + 1, j, r[1][4]>>
    BY <1>1, <2>1a, StreamFront
  <2>3. r[1][4] \in Nat /\ r[1][4] >= HDR
    BY <2>2, ByteFields
  <2>4. Len(r) < r[1][4]
    <3>1. CASE Len(r) < HDR
      BY <1>0, <2>3, <3>1, Sizes
    <3>2. CASE Len(r) >= HDR
      <4>1. frozen_sizes(r) = {r[1][4]}
        BY <2>1a, <3>2, StreamFramed
      <4> QED BY <1>0, <3>2, <4>1, Sizes
    <3> QED BY <1>0, <3>1, <3>2, Sizes
  <2>5. Len(r) \in 1..Len(r) /\ Len(r) <= r[1][4]
    BY <1>0, <1>1, <2>3, <2>4
  <2>6. r[Len(r)] = <<c, done + 1, Len(r), r[1][4]>>
    BY <2>2, <2>5
  <2>7. r[Len(r)][3] = r[Len(r)][4]
    BY <1>1 DEF Stream
  <2>8. Len(r) = r[1][4]
    BY <2>6, <2>7
  <2> QED BY <1>0, <2>3, <2>4, <2>8
<1>2. Len(r) = 0
  BY <1>0, <1>1
<1> QED BY <1>2 DEF Stream

(* A connection whose last record was written is let go of.  If it broke,  *)
(* bytes are left, and nobody connects any more.                           *)
LEMMA transfer_out_doneB ==
  ASSUME LastBreaks, AInv, Flow, transfer_out_done
  PROVE  Flow'
<1>0. TypeOK /\ Peers /\ Rounds
  BY DEF AInv
<1>1. PICK f \in Fds, c \in Conns : f = infd /\ c = peer[f]
  BY OutFd DEF transfer_out_done
<1>2. /\ InUse(f) /\ relay[f] \in Seq(Bytes) /\ Len(relay[f]) = b_end[f] /\ b_end[f] \in Nat
      /\ pc \in {"out", "last"}
  BY <1>1, OutFd DEF transfer_out_done
<1>3. /\ relay' = IF pc = "last" THEN [relay EXCEPT ![f] = << >>] ELSE relay
      /\ pc' = "serve" /\ UNCHANGED <<client, peer, active, b_end, log>>
  BY <1>1 DEF transfer_out_done
<1>4. UNCHANGED <<phase, nsent, chan>>
  BY <1>3 DEF client
<1>5. LastCall'
  BY <1>3 DEF LastCall
<1>6. \A d \in Conns : Logged(d)' = Logged(d)
  BY <1>3, LoggedSame
<1>7. CASE pc = "out"
  <2>1. \A g \in Fds : InUse(g)' <=> InUse(g)
    BY <1>3, <1>7 DEF InUse
  <2>2. ASSUME NEW d \in Conns PROVE Carried(d)'
    <3>1. Still(d)
      BY <1>3, <1>4, <1>6, <1>7, <2>1 DEF Still, Has
    <3> QED BY <3>1, CarriedStill DEF Flow
  <2>3. Order'
    BY <1>3, <1>4, <2>1, OrderKept DEF Flow, Order
  <2> QED BY <1>5, <2>2, <2>3 DEF Flow
<1>8. CASE pc = "last"
  <2>0. f \notin active /\ Has(f, c)
    BY <1>0, <1>1, <1>2, <1>8 DEF Rounds, Has
  <2>1. \A g \in Fds : (InUse(g)' <=> g \in active) /\ (InUse(g) <=> (g \in active \/ g = f))
    BY <1>1, <1>3, <1>8 DEF InUse
  <2>2. \A g \in Fds \ {f} : relay'[g] = relay[g]
    BY <1>0, <1>3 DEF TypeOK
  <2>3. phase[c] \in {"closed", "broken"} /\ chan[c] = << >>
    BY <1>1, <1>8 DEF Flow, LastCall
  <2>4. ASSUME phase[c] = "closed" PROVE b_end[f] = 0 /\ Logged(c) = nsent[c]
    <3>1. Stream(c, relay[f] \o << >>, nsent[c], Logged(c), "closed")
      BY <2>0, <2>3, <2>4 DEF Flow, Carried, Through
    <3>2. relay[f] \o << >> = relay[f]
      BY <1>2, ConcatEmptySeq
    <3>3. Stream(c, relay[f], nsent[c], Logged(c), "closed")
      BY <3>1, <3>2
    <3>4. \/ Len(relay[f]) < HDR
          \/ Len(relay[f]) >= HDR /\ \E s \in frozen_sizes(relay[f]) : Len(relay[f]) < s
      BY <1>1, <1>2 DEF transfer_out_done
    <3> QED BY <1>2, <3>3, <3>4, NothingLeft
  <2>5. ASSUME phase[c] = "broken" PROVE \A d \in Conns : phase[d] \notin {"new", "pending"}
    <3>1. c = NConns
      BY <2>5 DEF Flow, Order, LastBreaks
    <3>2. ASSUME NEW d \in Conns PROVE d < c \/ d = c
      BY <3>1, Sizes DEF Conns
    <3> QED BY <2>5, <3>2 DEF Flow, Order
  <2>6. ASSUME NEW d \in Conns PROVE Carried(d)'
    <3>0. Carried(d)
      BY DEF Flow
    <3>1. CASE d # c
      <4>1. \A g \in Fds : (Has(g, d)' <=> Has(g, d)) /\ (Has(g, d) => g # f)
        BY <1>1, <1>3, <2>1, <3>1 DEF Has
      <4>2. Still(d)
        BY <1>4, <1>6, <2>2, <4>1 DEF Still
      <4> QED BY <3>0, <4>2, CarriedStill
    <3>2. CASE d = c
      <4>1. \A g \in Fds : ~Has(g, c)'
        BY <1>0, <1>1, <1>3, <2>0, <2>1 DEF Peers, Has
      <4> QED BY <1>4, <1>6, <2>3, <2>4, <3>2, <4>1 DEF Carried
    <3> QED BY <3>1, <3>2
  <2>7. Order'
    <3>0. Order
      BY DEF Flow
    <3>1. ASSUME NEW g \in Fds, ~InUse(g)', b_end'[g] # 0
          PROVE  \A d \in Conns : phase'[d] \notin {"new", "pending"}
      <4>1. CASE g = f
        BY <1>3, <1>4, <2>3, <2>4, <2>5, <3>1, <4>1
      <4>2. CASE g # f
        BY <1>3, <1>4, <2>1, <3>0, <3>1, <4>2 DEF Order
      <4> QED BY <4>1, <4>2
    <3> QED BY <1>4, <3>0, <3>1 DEF Order
  <2> QED BY <1>5, <2>6, <2>7 DEF Flow
<1> QED BY <1>2, <1>7, <1>8

-----------------------------------------------------------------------------
(* The log *)

LEMMA RecordWhole ==
  ASSUME NEW c, NEW n, NEW s \in HDR..MaxRec
  PROVE  /\ Record(c, n, s)[1] = <<c, n, 1, s>> /\ Whole(Record(c, n, s))
         /\ Entry(Record(c, n, s)) = <<c, n>>
<1>1. 1 \in 1..s
  BY Sizes
<1>2. Record(c, n, s)[1] = <<c, n, 1, s>>
  BY <1>1 DEF Record
<1>3. Record(c, n, s)[1][1] = c /\ Record(c, n, s)[1][2] = n /\ Record(c, n, s)[1][4] = s
  BY <1>2
<1>4. Whole(Record(c, n, s))
  BY <1>3 DEF Whole
<1> QED BY <1>2, <1>3, <1>4 DEF Entry

(* The record that transfer_out() writes, and nothing else. *)
LEMMA LogGrows ==
  ASSUME AInv, Flow, transfer_out_record
  PROVE  \E c \in Conns : \E e : /\ Logged(c) \in Nat /\ Logged(c) < nsent[c]
                                 /\ log' = Append(log, e)
                                 /\ Whole(e.rec) /\ e.rec[1][1] = c
                                 /\ Entry(e.rec) = <<c, Logged(c) + 1>>
<1>1. PICK f \in Fds, c \in Conns : f = infd /\ c = peer[f]
  BY OutFd DEF transfer_out_record
<1>2. Written(f, c)
  BY <1>1, RecordWritten
<1> DEFINE n == Logged(c) + 1
           s == relay[f][1][4]
           e == [rec |-> Record(c, n, s), diff |-> diff(f)]
<1>3. s \in HDR..MaxRec /\ log' = Append(log, e) /\ Logged(c) + 1 \in 1..nsent[c]
  BY <1>2 DEF Written
<1>4. e.rec = Record(c, n, s)
  OBVIOUS
<1>5. Logged(c) \in Nat /\ nsent[c] \in 0..MaxRecs
  BY LoggedNat DEF AInv, TypeOK
<1>6. Logged(c) < nsent[c]
  BY <1>3, <1>5, Sizes
<1> HIDE DEF s, n, e
<1>7. e.rec[1] = <<c, n, 1, s>> /\ Whole(e.rec) /\ Entry(e.rec) = <<c, n>>
  BY <1>3, <1>4, RecordWhole
<1>8. e.rec[1][1] = c
  BY <1>7
<1> QED BY <1>3, <1>5, <1>6, <1>7, <1>8 DEF n

LEMMA WholeKept ==
  ASSUME AInv, BInv, Next
  PROVE  AllWhole'
<1>1. CASE transfer_out_record
  <2>1. Flow
    BY <1>1 DEF BInv, transfer_out_record
  <2>2a. PICK c \in Conns :
           \E e : log' = Append(log, e) /\ Whole(e.rec) /\ e.rec[1][1] = c
    BY <1>1, <2>1, LogGrows
  <2>2. PICK e : log' = Append(log, e) /\ Whole(e.rec) /\ e.rec[1][1] = c
    BY <2>2a
  <2>3. /\ Len(log) \in Nat /\ Len(log') = Len(log) + 1
        /\ log'[Len(log) + 1] = e /\ \A k \in 1..Len(log) : log'[k] = log[k]
    BY <2>2 DEF AInv, TypeOK
  <2>4. ASSUME NEW k \in 1..Len(log') PROVE Whole(log'[k].rec) /\ log'[k].rec[1][1] \in Conns
    <3>1. CASE k \in 1..Len(log)
      BY <2>3, <3>1 DEF BInv, AllWhole
    <3>2. CASE k \notin 1..Len(log)
      <4>1. k = Len(log) + 1
        BY <2>3, <3>2
      <4> QED BY <2>2, <2>3, <4>1
    <3> QED BY <3>1, <3>2
  <2> QED BY <2>4 DEF AllWhole, Whole
<1>2. CASE ~transfer_out_record
  <2>1. UNCHANGED log
    BY <1>2 DEF Next, Daemon, Connect, Emit, Disconnect, Break, Select, SelectAgain, Accept,
         transfer_in, transfer_in_ends, transfer_out_exits, transfer_out_done, sig
  <2> QED BY <2>1 DEF BInv, AllWhole, Whole
<1> QED BY <1>1, <1>2

LEMMA InitB == Init => BInv
<1> SUFFICES ASSUME Init PROVE BInv
  OBVIOUS
<1>1. AllWhole
  BY DEF Init, AllWhole
<1>2. ASSUME NEW c \in Conns PROVE Carried(c)
  <2>1. Logged(c) = 0
    <3>1. {k \in 1..Len(log) : log[k].rec[1][1] = c} = {}
      BY DEF Init
    <3> QED BY <3>1, FS_EmptySet DEF Logged
  <2>2. phase[c] = "new" /\ chan[c] = << >> /\ nsent[c] = 0
    BY DEF Init
  <2>3. OnWire(c)
    BY <2>1, <2>2 DEF OnWire, Stream
  <2>4. \A f \in Fds : ~Has(f, c)
    BY DEF Init, Has, InUse
  <2> QED BY <2>2, <2>3, <2>4 DEF Carried
<1>3. LastCall
  BY DEF Init, LastCall
<1>4. Order
  BY DEF Init, Order
<1> QED BY <1>1, <1>2, <1>3, <1>4 DEF BInv, Flow

LEMMA StepB ==
  ASSUME LastBreaks, AInv, BInv, [Next]_vars
  PROVE  BInv'
<1>1. CASE UNCHANGED vars
  <2>1. \A c \in Conns : Logged(c)' = Logged(c)
    BY <1>1, LoggedSame DEF vars
  <2>2. \A f \in Fds, c \in Conns : Has(f, c)' <=> Has(f, c)
    BY <1>1, InUseSame DEF vars
  <2>3. Flow => \A c \in Conns : Carried(c)'
    BY <1>1, <2>1, <2>2, CarriedStill DEF vars, Still, Flow
  <2>4. (LastCall => LastCall') /\ (Order => Order') /\ (AllWhole => AllWhole')
    BY <1>1 DEF vars, LastCall, Order, InUse, AllWhole
  <2>5. pc' = pc
    BY <1>1 DEF vars
  <2> QED BY <2>3, <2>4, <2>5 DEF BInv, Flow
<1>2. CASE Next
  <2>1. AllWhole'
    BY <1>2, WholeKept
  <2>2. ASSUME pc' # "exit" PROVE Flow'
    <3>1. ~sig /\ ~transfer_out_exits
      BY <2>2, SMTT(40) DEF sig, transfer_out_exits
    <3>2. pc # "exit"
      BY <1>2, <2>2, <3>1 DEF Next, Daemon, Connect, Emit, Disconnect, Break, Select,
           SelectAgain, Accept, transfer_in, transfer_in_ends, transfer_out_record,
           transfer_out_done
    <3>3. Flow
      BY <3>2 DEF BInv
    <3>4. CASE Daemon
      BY <3>1, <3>3, <3>4, SelectB, AcceptB, transfer_inB, transfer_in_endsB, transfer_out_recordB,
         transfer_out_doneB DEF Daemon
    <3>5. CASE \E c \in Conns, s \in HDR..MaxRec : Emit(c, s)
      BY <3>3, <3>5, EmitB
    <3> QED BY <1>2, <3>1, <3>3, <3>4, <3>5, ConnectB, DisconnectB, BreakB DEF Next
  <2> QED BY <2>1, <2>2 DEF BInv
<1> QED BY <1>1, <1>2

LEMMA InvarianceB ==
  ASSUME LastBreaks
  PROVE  Spec => [](AInv /\ BInv)
<1>1. AInv /\ BInv /\ [Next]_vars => BInv'
  BY StepB
<1> QED BY <1>1, InitB, InvarianceA, PTL DEF Spec

(* There is always room to read into, for every size of buffer, header and *)
(* record with MaxRec <= RELAY_BUF, if only the last connection may break: *)
(* transfer_in() never takes a full buffer for a disconnect.  (It does     *)
(* when a buffer starts with what another connection left in it: the       *)
(* lengths found there may be larger than the buffer.)                     *)
THEOREM AlwaysRoom ==
  ASSUME LastBreaks
  PROVE  Spec => []RoomToRead
<1>1. AInv /\ BInv => RoomToRead
  <2> SUFFICES ASSUME AInv, BInv PROVE RoomToRead
    OBVIOUS
  <2>1. pc \in {"select", "serve"} => \A f \in active : avail[f] > 0
    BY RoomLeft DEF BInv
  <2>2. active \subseteq Fds
    BY DEF AInv, TypeOK
  <2> QED BY <2>1, <2>2 DEF AInv, Room, RoomToRead
<1> QED BY <1>1, InvarianceB, PTL

(* Every record of a connection that was closed properly is in the log     *)
(* when the daemon has let go of it, however read() cut the stream and     *)
(* whatever else was going on, if only the last connection may break.      *)
THEOREM ClosedIsLogged ==
  ASSUME LastBreaks
  PROVE  Spec => []LoggedAtClose
<1>1. AInv /\ BInv => LoggedAtClose
  <2> SUFFICES ASSUME AInv, BInv, NEW c \in Conns, phase[c] = "closed",
                      pc \in {"select", "serve"}, \A f \in active : peer[f] # c
               PROVE  Logged(c) = nsent[c]
    BY DEF LoggedAtClose
  <2>1. Carried(c)
    BY DEF BInv, Flow
  <2>2. \A f \in Fds : ~Has(f, c)
    BY DEF Has, InUse
  <2> QED BY <2>1, <2>2 DEF Carried
<1> QED BY <1>1, InvarianceB, PTL

-----------------------------------------------------------------------------
(* The refinement *)

LEMMA InFileIsLogged ==
  ASSUME TypeOK, AllWhole, NEW c
  PROVE  RL!InFile(c) = Logged(c)
<1> DEFINE file == [k \in 1..Len(log) |-> Entry(log[k].rec)]
<1>1. Len(log) \in Nat
  BY DEF TypeOK
<1>2. Len(file) = Len(log)
  BY <1>1
<1>3. \A k \in 1..Len(log) : file[k][1] = log[k].rec[1][1]
  <2>1. \A k \in 1..Len(log) : file[k] = <<log[k].rec[1][1], log[k].rec[1][2]>>
    BY DEF AllWhole, Entry
  <2> QED BY <2>1
<1> HIDE DEF file
<1>4. {k \in 1..Len(file) : file[k][1] = c} = {k \in 1..Len(log) : log[k].rec[1][1] = c}
  BY <1>2, <1>3
<1>5. Logged(c) = Cardinality({k \in 1..Len(file) : file[k][1] = c})
  BY <1>4 DEF Logged
<1>6. RL!InFile(c) = Cardinality({k \in 1..Len(file) : file[k][1] = c})
  <2>1. \A S : RL!Cardinality(S) = Cardinality(S)
    BY DEF RL!Cardinality, Cardinality
  <2> QED BY <2>1 DEF RL!InFile, file
<1> QED BY <1>5, <1>6

(* The log daemon implements RecordLog, if only the last connection may    *)
(* break: a record goes into the log whole, in the order of its            *)
(* connection, once, and after it was written.                             *)
THEOREM Implements ==
  ASSUME LastBreaks
  PROVE  Spec => RefinesRecordLog
<1> DEFINE file == [k \in 1..Len(log) |-> Entry(log[k].rec)]
<1>1. Init => RL!RInit
  <2>1. Init => [i \in 1..Len(log) |-> Entry(log[i].rec)] = << >>
    BY DEF Init
  <2> QED BY <2>1 DEF Init, RL!RInit
<1>2. ASSUME AInv, BInv, [Next]_vars PROVE [RL!RNext]_(RL!rvars)
  <2>1. CASE transfer_out_record
    <3>1. Flow /\ TypeOK /\ AllWhole
      BY <1>2, <2>1 DEF BInv, AInv, transfer_out_record
    <3>2a. PICK c \in Conns : \E e : /\ Logged(c) \in Nat /\ Logged(c) < nsent[c]
                                     /\ log' = Append(log, e)
                                     /\ Entry(e.rec) = <<c, Logged(c) + 1>>
      BY <1>2, <2>1, <3>1, LogGrows
    <3>2. PICK e : /\ Logged(c) \in Nat /\ Logged(c) < nsent[c]
                   /\ log' = Append(log, e)
                   /\ Entry(e.rec) = <<c, Logged(c) + 1>>
      BY <3>2a
    <3>3. RL!InFile(c) = Logged(c)
      BY <3>1, InFileIsLogged
    <3>4. file' = Append(file, <<c, Logged(c) + 1>>)
      <4>1. /\ Len(log) \in Nat /\ Len(log') = Len(log) + 1
            /\ log'[Len(log) + 1] = e /\ \A k \in 1..Len(log) : log'[k] = log[k]
        BY <3>1, <3>2 DEF TypeOK
      <4>2. Len(file) = Len(log)
        BY <4>1
      <4>3. \A k \in 1..Len(log) : file'[k] = file[k]
        BY <4>1
      <4>4. file'[Len(log) + 1] = <<c, Logged(c) + 1>>
        BY <3>2, <4>1
      <4>5. file' = [k \in 1..Len(log) + 1 |-> file'[k]]
        BY <4>1
      <4> DEFINE x == <<c, Logged(c) + 1>>
      <4>6. Append(file, x) = [k \in 1..Len(log) + 1 |-> IF k = Len(log) + 1 THEN x ELSE file[k]]
        BY <4>1, <4>2
      <4> HIDE DEF x
      <4>7. ASSUME NEW k \in 1..Len(log) + 1
            PROVE  file'[k] = IF k = Len(log) + 1 THEN x ELSE file[k]
        <5> HIDE DEF file
        <5>1. CASE k = Len(log) + 1
          BY <4>4, <5>1 DEF x
        <5>2. CASE k # Len(log) + 1
          <6>1. k \in 1..Len(log)
            BY <4>1, <5>2
          <6> QED BY <4>3, <5>2, <6>1
        <5> QED BY <5>1, <5>2
      <4>8. file' = Append(file, x)
        BY <4>5, <4>6, <4>7
      <4> QED BY <4>8 DEF x
    <3>5. nsent' = nsent
      BY <2>1 DEF transfer_out_record, client
    <3>6. RL!RLog(c)
      BY <3>2, <3>3, <3>4, <3>5 DEF RL!RLog
    <3> QED BY <3>6 DEF RL!RNext
  <2>2. ASSUME NEW c \in Conns, NEW s \in HDR..MaxRec, Emit(c, s) PROVE RL!RNext
    <3>1. nsent' = [nsent EXCEPT ![c] = @ + 1] /\ log' = log
      BY <2>2 DEF Emit
    <3>2. RL!RWrite(c)
      BY <3>1 DEF RL!RWrite, Entry, Whole
    <3> QED BY <3>2 DEF RL!RNext
  <2>3. CASE UNCHANGED <<nsent, log>>
    BY <2>3 DEF RL!rvars, Entry, Whole
  <2>4. \/ transfer_out_record \/ UNCHANGED <<nsent, log>>
        \/ \E c \in Conns, s \in HDR..MaxRec : Emit(c, s)
    BY <1>2 DEF Next, vars, client, Daemon, Connect, Disconnect, Break, Select, SelectAgain,
         Accept, transfer_in, transfer_in_ends, transfer_out_exits, transfer_out_done, sig
  <2> QED BY <2>1, <2>2, <2>3, <2>4
<1>3. AInv /\ BInv /\ [Next]_vars => [RL!RNext]_(RL!rvars)
  BY <1>2
<1> QED BY <1>1, <1>3, InvarianceB, PTL DEF Spec, RefinesRecordLog, RL!RSpec
=============================================================================
