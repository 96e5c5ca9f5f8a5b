----------------------------- MODULE JoinProofs -----------------------------
(***************************************************************************)
(* Proofs about Join: for every number of clients, children and requests,  *)
(* the joiner designates a process to the request it works for, as long as *)
(* none of the Cases happens.                                              *)
(*                                                                         *)
(* What carries the proof is the way of a question to the backend and of   *)
(* its answer back (Talk): whose turn it is, and that the two ends' next   *)
(* numbers are apart by what is under way, so that they do not overwrite   *)
(* each other's entries of c_conn.                                         *)
(***************************************************************************)
EXTENDS Join, FiniteSetTheorems, SequenceTheorems, TLAPS

Plain == Cases = {}

M == [req : Nat, id : Nat, logged : BOOLEAN]

Types ==
  /\ asked \in 0..MaxReqs /\ open \in [Www -> Nat]
  /\ stage \in [Reqs -> {"new", "asked", "answered", "done"}]
  /\ inbox \in [Procs -> [Conns -> Seq(M)]]
  /\ next_id \in [Procs \cup Www -> [Conns -> Nat]]
  /\ pc \in [Procs -> {"idle", "poll", "recv", "work", "write", "forked"}]
  /\ at \in [Procs -> [conn : Conns, msg : M]]
  /\ work \in [Procs -> Nat] /\ file \in [Procs -> Nat]
  /\ dgn \in [Procs -> Int] /\ c_conn \in [Conns -> [Ids -> Int]]
  /\ fake \in [Conns -> Int] /\ ffile \in [Procs -> Int]
  /\ rids \in Nat /\ rid_of \in [Reqs -> Int]

(* A request that the joiner knows of, by an identity of its own. *)
Known(q) == q \in Reqs /\ rid_of[q] # NoRid

Identities ==
  /\ \A q \in Reqs : rid_of[q] = NoRid \/ (rid_of[q] \in 1..rids /\ q <= asked)
  /\ \A q, r \in Reqs : Known(q) /\ rid_of[q] = rid_of[r] => q = r

(* A client's request is in the server's inbox until the joiner learns of  *)
(* it; no other inbox is in use but the two of the backend's connection.   *)
Pending(w) ==
  LET s == inbox[Front][w]
  IN  s = << >> \/ (Len(s) = 1 /\ s[1].req = open[w] /\ open[w] # 0 /\ s[1].logged
                    /\ rid_of[open[w]] = NoRid)

Clients ==
  /\ \A w \in Www : open[w] <= asked /\ Pending(w)
  /\ \A w, x \in Www : open[w] = open[x] /\ open[w] # 0 => w = x
  /\ \A p \in Procs, n \in Conns :
       inbox[p][n] = << >> \/ p = Front \/ (p = Back /\ n = DbConn)

(* What a process is busy with, and what the joiner takes it for. *)
Busy(p) ==
  /\ pc[p] \in {"idle", "poll", "recv"} => file[p] = 0
  /\ pc[p] \in {"work", "write", "forked"} => Known(work[p]) /\ file[p] \in {0, work[p]}
  /\ pc[p] \in {"work", "write"} =>
       dgn[p] = rid_of[work[p]] /\ (file[p] # 0 => ffile[p] = rid_of[work[p]])
  /\ pc[p] = "recv" =>
       /\ Known(at[p].msg.req) /\ dgn[p] = rid_of[at[p].msg.req]
       /\ fake[at[p].conn] = rid_of[at[p].msg.req]
  /\ pc[p] \in {"poll", "recv", "write"} => p \in {Front, Back}
  /\ pc[p] = "forked" =>
       /\ p \in Children /\ pc[Front] = "idle" /\ dgn[Front] = rid_of[work[p]]
       /\ file[p] # 0 => ffile[Front] = rid_of[work[p]]

-----------------------------------------------------------------------------
(* The connection to the backend *)

question == inbox[Back][DbConn]
answer   == inbox[Front][DbConn]
nFront   == next_id[Front][DbConn]
nBack    == next_id[Back][DbConn]

FrontAsks  == pc[Front] = "write" /\ at[Front].conn = DbConn
FrontReads == pc[Front] = "recv" /\ at[Front].conn = DbConn

(* Message m of process p is logged, or p is about to log it. *)
Sent(p, m) ==
  IF m.logged THEN c_conn[DbConn][m.id] = rid_of[m.req]
  ELSE pc[p] = "write" /\ at[p].conn = DbConn /\ at[p].msg = m /\ work[p] = m.req

Quiet ==
  /\ question = << >> /\ answer = << >> /\ pc[Back] = "idle" /\ nBack = nFront + 1
  /\ ~FrontAsks /\ ~FrontReads

Asking(q) ==
  /\ Len(question) = 1 /\ question[1].req = q /\ question[1].id + 1 = nFront
  /\ Sent(Front, question[1]) /\ (FrontAsks => ~question[1].logged)
  /\ answer = << >> /\ pc[Back] \in {"idle", "poll"} /\ nBack = nFront /\ ~FrontReads

Thinking(q) ==
  /\ question = << >> /\ answer = << >> /\ nBack = nFront /\ ~FrontAsks /\ ~FrontReads
  /\ \/ pc[Back] = "recv" /\ at[Back].msg.req = q /\ at[Back].conn = DbConn
     \/ pc[Back] = "work" /\ work[Back] = q

Answering(q) ==
  /\ Len(answer) = 1 /\ answer[1].req = q /\ answer[1].id = nFront
  /\ Sent(Back, answer[1])
  /\ pc[Back] = IF answer[1].logged THEN "idle" ELSE "write"
  /\ question = << >> /\ nBack = nFront + 1 /\ ~FrontAsks /\ ~FrontReads

Reading(q) ==
  /\ question = << >> /\ answer = << >> /\ pc[Back] = "idle" /\ nBack = nFront + 1
  /\ FrontReads /\ at[Front].msg.req = q

Turn(q) == Asking(q) \/ Thinking(q) \/ Answering(q) \/ Reading(q)

(* q is the request that is at the backend. *)
Current(q) == Known(q) /\ \A r \in Reqs : stage[r] = "asked" <=> r = q

Talk ==
  \/ Quiet /\ ~DbBusy
  \/ \E q \in Reqs : Current(q) /\ Turn(q)

(* There are numbers enough for all questions. *)
Begun   == {q \in Reqs : stage[q] # "new"}
Numbers == nFront <= Cardinality(Begun)

IInv == Types /\ Identities /\ Clients /\ (\A p \in Procs : Busy(p)) /\ Talk /\ Numbers

-----------------------------------------------------------------------------
(* Names, sequences and frames *)

LEMMA Names ==
  /\ Front \in Procs /\ Back \in Procs /\ Front # Back /\ DbConn \in Conns
  /\ DbConn \notin Www /\ Www \subseteq Conns /\ Conns = Www \cup {DbConn}
  /\ Children \subseteq Procs /\ Front \notin Children /\ Back \notin Children
  /\ \A p \in Procs : p = Front \/ p = Back \/ p \in Children
  /\ \A w \in Www : w \notin Procs
  /\ MaxReqs \in Nat /\ NoRid = -1
BY NamesAssumption, MaxReqsAssumption DEF Procs, Conns, NoRid

LEMMA Singles ==
  /\ \A s \in Seq(M) : Len(s) = 1 =>
       s # << >> /\ Head(s) = s[1] /\ Tail(s) = << >> /\ s[1] \in M /\ Tail(s) \in Seq(M)
  /\ \A m \in M : /\ Append(<< >>, m) \in Seq(M) /\ Len(Append(<< >>, m)) = 1
                  /\ Append(<< >>, m)[1] = m
  /\ << >> \in Seq(M)
<1>1. << >> \in Seq(M)
  OBVIOUS
<1>2. ASSUME NEW s \in Seq(M), Len(s) = 1
      PROVE  s # << >> /\ Head(s) = s[1] /\ Tail(s) = << >> /\ s[1] \in M /\ Tail(s) \in Seq(M)
  <2>1. s # << >>
    <3>1. Len(<< >>) = 0
      OBVIOUS
    <3>2. s = << >> => Len(s) = Len(<< >>)
      BY Zenon
    <3> QED BY <1>2, <3>1, <3>2
  <2>2. Tail(s) \in Seq(M) /\ Len(Tail(s)) = 0
    BY <1>2, <2>1
  <2>3. Tail(s) = << >>
    BY <2>2, EmptySeq
  <2>4. Head(s) = s[1]
    BY <1>2, <2>1
  <2> QED BY <1>2, <2>1, <2>2, <2>3, <2>4
<1>3. ASSUME NEW m \in M
      PROVE  /\ Append(<< >>, m) \in Seq(M) /\ Len(Append(<< >>, m)) = 1
             /\ Append(<< >>, m)[1] = m
  BY <1>1
<1> QED BY <1>1, <1>2, <1>3

RidKept == \A q \in Reqs : Known(q) => rid_of'[q] = rid_of[q]

(* Nothing changes for process p. *)
Same(p) ==
  /\ pc'[p] = pc[p] /\ work'[p] = work[p] /\ file'[p] = file[p] /\ dgn'[p] = dgn[p]
  /\ ffile'[p] = ffile[p] /\ at'[p] = at[p]
  /\ pc[p] = "recv" => fake'[at[p].conn] = fake[at[p].conn]
  /\ pc[p] = "forked" =>
       pc'[Front] = pc[Front] /\ dgn'[Front] = dgn[Front] /\ ffile'[Front] = ffile[Front]

LEMMA KnownKept ==
  ASSUME RidKept, NEW q, Known(q)
  PROVE  Known(q)' /\ rid_of'[q] = rid_of[q]
BY DEF RidKept, Known

LEMMA CurrentKept ==
  ASSUME RidKept, NEW q \in Reqs, Current(q),
         \A r \in Reqs : (stage'[r] = "asked") <=> (stage[r] = "asked")
  PROVE  Current(q)'
BY KnownKept DEF Current

LEMMA BusyKept ==
  ASSUME NEW p \in Procs, Busy(p), RidKept, Same(p)
  PROVE  Busy(p)'
<1>1. ASSUME Known(work[p]) PROVE Known(work[p])' /\ rid_of'[work[p]] = rid_of[work[p]]
  BY <1>1 DEF Known, RidKept, Same
<1>2. ASSUME Known(at[p].msg.req)
      PROVE  Known(at[p].msg.req)' /\ rid_of'[at[p].msg.req] = rid_of[at[p].msg.req]
  BY <1>2 DEF Known, RidKept, Same
<1>3. pc[p] \in {"work", "write", "forked"} => Known(work[p])
  BY DEF Busy
<1>4. pc[p] = "recv" => Known(at[p].msg.req)
  BY DEF Busy
<1> QED BY <1>1, <1>2, <1>3, <1>4 DEF Busy, Same

(* Nothing changes on the connection to the backend. *)
TalkSame ==
  /\ \A r \in Reqs : (stage'[r] = "asked") <=> (stage[r] = "asked")
  /\ question' = question /\ answer' = answer /\ nFront' = nFront /\ nBack' = nBack
  /\ pc'[Back] = pc[Back] /\ at'[Back] = at[Back] /\ work'[Back] = work[Back]
  /\ c_conn'[DbConn] = c_conn[DbConn]
  /\ FrontAsks' <=> FrontAsks
  /\ FrontReads' <=> FrontReads
  /\ FrontAsks \/ FrontReads => at'[Front] = at[Front] /\ work'[Front] = work[Front]

LEMMA TalkKept ==
  ASSUME Talk, RidKept, TalkSame
  PROVE  Talk'
<1>1. CASE Quiet /\ ~DbBusy
  <2>1. Quiet'
    BY <1>1 DEF Quiet, TalkSame
  <2>2. ~DbBusy'
    BY <1>1 DEF DbBusy, TalkSame
  <2> QED BY <2>1, <2>2 DEF Talk
<1>2. ASSUME NEW q \in Reqs, Current(q), Turn(q)
      PROVE  Talk'
  <2>1. rid_of'[q] = rid_of[q]
    BY <1>2, KnownKept DEF Current
  <2>2. Current(q)'
    BY <1>2, CurrentKept DEF TalkSame
  <2>3. ASSUME NEW m, m.req = q, Sent(Front, m) PROVE Sent(Front, m)'
    <3>1. CASE m.logged
      BY <2>1, <2>3, <3>1 DEF Sent, TalkSame
    <3>2. CASE ~m.logged
      <4>1. FrontAsks /\ at[Front].msg = m /\ work[Front] = m.req
        BY <2>3, <3>2 DEF Sent, FrontAsks
      <4>2. FrontAsks' /\ at'[Front] = at[Front] /\ work'[Front] = work[Front]
        BY <4>1 DEF TalkSame
      <4> QED BY <3>2, <4>1, <4>2 DEF Sent, FrontAsks
    <3> QED BY <3>1, <3>2
  <2>4. ASSUME NEW m, m.req = q, Sent(Back, m) PROVE Sent(Back, m)'
    BY <2>1, <2>4 DEF Sent, TalkSame
  <2>5. CASE Asking(q)
    <3>1. Sent(Front, question[1]) /\ question[1].req = q
      BY <2>5 DEF Asking
    <3>2. PICK m : m = question[1]
      OBVIOUS
    <3>3. Sent(Front, m)'
      BY <2>3, <3>1, <3>2
    <3>4. (question[1])' = m /\ Sent(Front, question[1])'
      BY <3>2, <3>3 DEF TalkSame, Sent
    <3>5. Asking(q)'
      BY <2>5, <3>4 DEF Asking, TalkSame
    <3> QED BY <2>2, <3>5 DEF Talk, Turn
  <2>6. CASE Thinking(q)
    <3>1. Thinking(q)'
      BY <2>6 DEF Thinking, TalkSame
    <3> QED BY <2>2, <3>1 DEF Talk, Turn
  <2>7. CASE Answering(q)
    <3>1. Sent(Back, answer[1]) /\ answer[1].req = q
      BY <2>7 DEF Answering
    <3>2. PICK m : m = answer[1]
      OBVIOUS
    <3>3. Sent(Back, m)'
      BY <2>4, <3>1, <3>2
    <3>4. (answer[1])' = m /\ Sent(Back, answer[1])'
      BY <3>2, <3>3 DEF TalkSame, Sent
    <3>5. Answering(q)'
      BY <2>7, <3>4 DEF Answering, TalkSame
    <3> QED BY <2>2, <3>5 DEF Talk, Turn
  <2>8. CASE Reading(q)
    <3>1. Reading(q)'
      BY <2>8 DEF Reading, TalkSame
    <3> QED BY <2>2, <3>1 DEF Talk, Turn
  <2> QED BY <1>2, <2>5, <2>6, <2>7, <2>8 DEF Turn
<1> QED BY <1>1, <1>2 DEF Talk

LEMMA BegunFinite ==
  ASSUME NEW S \in SUBSET Reqs
  PROVE  IsFiniteSet(S) /\ Cardinality(S) \in Nat /\ Cardinality(S) <= MaxReqs
<1>1. IsFiniteSet(Reqs) /\ Cardinality(Reqs) = MaxReqs
  BY Names, FS_Interval DEF Reqs
<1> QED BY <1>1, FS_Subset, FS_CardinalityType

LEMMA NumbersKept ==
  ASSUME Numbers, Types, nFront' = nFront,
         \A q \in Reqs : stage[q] # "new" => stage'[q] # "new"
  PROVE  Numbers'
<1>1. Begun \in SUBSET Begun' /\ Begun \in SUBSET Reqs /\ Begun' \in SUBSET Reqs
  BY DEF Begun
<1>2. Cardinality(Begun) <= Cardinality(Begun') /\ Cardinality(Begun) \in Nat
      /\ Cardinality(Begun') \in Nat
  BY <1>1, BegunFinite, FS_Subset
<1>3. nFront \in Nat
  BY Names DEF Types, nFront
<1> QED BY <1>2, <1>3 DEF Numbers

LEMMA IdentitiesKept ==
  ASSUME Identities, Types, rid_of' = rid_of, rids' = rids, asked' \in Nat, asked <= asked'
  PROVE  Identities'
<1>1. asked \in Nat /\ \A q \in Reqs : q \in Nat
  BY Names DEF Types, Reqs
<1>2. \A q \in Reqs : rid_of'[q] = NoRid \/ (rid_of'[q] \in 1..rids' /\ q <= asked')
  BY <1>1 DEF Identities
<1>3. \A q, r \in Reqs : Known(q)' /\ rid_of'[q] = rid_of'[r] => q = r
  BY DEF Identities, Known
<1> QED BY <1>2, <1>3 DEF Identities

(* The clients' requests stay where they are. *)
LEMMA ClientsKept ==
  ASSUME Clients, rid_of' = rid_of, asked' = asked, open' = open,
         \A p \in Procs, n \in Conns :
           inbox'[p][n] = inbox[p][n] \/ (n = DbConn /\ p \in {Front, Back})
  PROVE  Clients'
<1>1. \A w \in Www : inbox'[Front][w] = inbox[Front][w]
  BY Names
<1>2. \A w \in Www : Pending(w)'
  BY <1>1 DEF Clients, Pending
<1>3. \A p \in Procs, n \in Conns :
        inbox'[p][n] = << >> \/ p = Front \/ (p = Back /\ n = DbConn)
  BY DEF Clients
<1> QED BY <1>2, <1>3 DEF Clients

LEMMA RequestsKept ==
  ASSUME IInv, UNCHANGED <<asked, open, inbox, rids, rid_of>>
  PROVE  Identities' /\ Clients'
<1>1. asked \in Nat
  BY Names DEF IInv, Types
<1>2. Identities'
  BY <1>1, IdentitiesKept DEF IInv
<1>3. Clients'
  BY ClientsKept DEF IInv
<1> QED BY <1>2, <1>3

LEMMA DbTypes ==
  ASSUME IInv
  PROVE  question \in Seq(M) /\ answer \in Seq(M) /\ nFront \in Nat /\ nBack \in Nat
<1>1. inbox \in [Procs -> [Conns -> Seq(M)]] /\ next_id \in [Procs \cup Www -> [Conns -> Nat]]
  BY DEF IInv, Types
<1>2. inbox[Back] \in [Conns -> Seq(M)] /\ inbox[Front] \in [Conns -> Seq(M)]
  BY <1>1, Names
<1>3. next_id[Back] \in [Conns -> Nat] /\ next_id[Front] \in [Conns -> Nat]
  BY <1>1, Names
<1> QED BY <1>2, <1>3, Names DEF question, answer, nFront, nBack

-----------------------------------------------------------------------------
(* The actions *)

LEMMA OpenFileStep ==
  ASSUME IInv, NEW p \in Procs, OpenFile(p)
  PROVE  IInv'
<1>1. /\ pc[p] = "work" /\ file[p] = 0 /\ file' = [file EXCEPT ![p] = work[p]]
      /\ ffile' = [ffile EXCEPT ![p] = dgn[p]]
      /\ UNCHANGED <<asked, open, stage, inbox, next_id, pc, at, work>>
      /\ UNCHANGED <<dgn, c_conn, fake, rids, rid_of>>
  BY DEF OpenFile, JoinOpen
<1>2. Types'
  BY <1>1 DEF IInv, Types
<1>3. RidKept
  BY <1>1 DEF RidKept
<1>4. Identities' /\ Clients'
  BY <1>1, RequestsKept
<1>6. ASSUME NEW x \in Procs PROVE Busy(x)'
  <2>1. Busy(x) /\ Busy(p) /\ pc[x] = "forked" => pc[Front] = "idle"
    BY DEF IInv, Busy
  <2>2. CASE x # p
    BY <1>1, <1>3, <2>1, <2>2, BusyKept DEF Same, IInv, Types
  <2>3. CASE x = p
    BY <1>1, <2>1, <2>3 DEF Busy, IInv, Types, Known
  <2> QED BY <2>2, <2>3
<1>7. TalkSame
  BY <1>1 DEF TalkSame, question, answer, nFront, nBack, FrontAsks, FrontReads
<1>8. Talk'
  BY <1>3, <1>7, TalkKept DEF IInv
<1>9. Numbers'
  BY <1>1, NumbersKept DEF IInv, nFront
<1> QED BY <1>2, <1>4, <1>6, <1>8, <1>9 DEF IInv

LEMMA ReadFileStep ==
  ASSUME IInv, NEW p \in Procs, ReadFile(p)
  PROVE  IInv'
<1>1. /\ pc[p] = "work" /\ file[p] # 0
      /\ dgn' = IF ffile[p] = NoRid THEN dgn ELSE [dgn EXCEPT ![p] = ffile[p]]
      /\ UNCHANGED <<asked, open, stage, inbox, next_id, pc, at, work, file>>
      /\ UNCHANGED <<c_conn, fake, ffile, rids, rid_of>>
  BY DEF ReadFile, JoinRead, program
<1>2. Busy(p)
  BY DEF IInv
<1>3. dgn' = dgn
  BY <1>1, <1>2 DEF Busy, IInv, Types
<1>4. RidKept /\ \A x \in Procs : Same(x)
  BY <1>1, <1>3 DEF RidKept, Same
<1>5. Types'
  BY <1>1, <1>3 DEF IInv, Types
<1>10. Identities' /\ Clients'
  BY <1>1, RequestsKept
<1>6. \A x \in Procs : Busy(x)'
  BY <1>4, BusyKept DEF IInv
<1>7. TalkSame
  BY <1>1 DEF TalkSame, question, answer, nFront, nBack, FrontAsks, FrontReads
<1>8. Talk'
  BY <1>4, <1>7, TalkKept DEF IInv
<1>9. Numbers'
  BY <1>1, NumbersKept DEF IInv, nFront
<1> QED BY <1>5, <1>6, <1>8, <1>9, <1>10 DEF IInv

LEMMA ExitStep ==
  ASSUME IInv, NEW h \in Children, Exit(h)
  PROVE  IInv'
<1>1. /\ pc[h] = "work" /\ pc' = [pc EXCEPT ![h] = "idle"]
      /\ work' = [work EXCEPT ![h] = 0] /\ file' = [file EXCEPT ![h] = 0]
      /\ dgn' = [dgn EXCEPT ![h] = NoRid]
      /\ UNCHANGED <<asked, open, stage, inbox, next_id, at>>
      /\ UNCHANGED <<c_conn, fake, ffile, rids, rid_of>>
  BY DEF Exit, JoinExit
<1>2. Types'
  <2>1. dgn' \in [Procs -> Int]
    <3>1. NoRid \in Int
      BY DEF NoRid
    <3> QED BY <1>1, <3>1 DEF IInv, Types
  <2> QED BY <1>1, <2>1, Names DEF IInv, Types
<1>3. RidKept
  BY <1>1 DEF RidKept
<1>4. Identities' /\ Clients'
  BY <1>1, RequestsKept
<1>5. ASSUME NEW x \in Procs PROVE Busy(x)'
  <2>1. Busy(x)
    BY DEF IInv
  <2>2. CASE x # h
    BY <1>1, <1>3, <2>1, <2>2, Names, BusyKept DEF Same, IInv, Types
  <2>3. CASE x = h
    BY <1>1, <2>3, Names DEF Busy, IInv, Types
  <2> QED BY <2>2, <2>3
<1>6. TalkSame
  BY <1>1, Names, ZenonT(60) DEF TalkSame, question, answer, nFront, nBack, FrontAsks, FrontReads, IInv, Types
<1>7. Talk'
  BY <1>3, <1>6, TalkKept DEF IInv
<1>8. Numbers'
  BY <1>1, NumbersKept DEF IInv, nFront
<1> QED BY <1>2, <1>4, <1>5, <1>7, <1>8 DEF IInv

LEMMA LogForkStep ==
  ASSUME IInv, NEW h \in Children, LogFork(h)
  PROVE  IInv'
<1>1. /\ pc[h] = "forked" /\ pc' = [pc EXCEPT ![h] = "work"]
      /\ dgn' = [dgn EXCEPT ![h] = dgn[Front]]
      /\ ffile' = [ffile EXCEPT ![h] = ffile[Front]]
      /\ UNCHANGED <<asked, open, stage, inbox, next_id, at, work, file>>
      /\ UNCHANGED <<c_conn, fake, rids, rid_of>>
  BY DEF LogFork, JoinFork
<1>2. Types'
  BY <1>1, Names DEF IInv, Types
<1>3. RidKept
  BY <1>1 DEF RidKept
<1>4. Identities' /\ Clients'
  BY <1>1, RequestsKept
<1>5. ASSUME NEW x \in Procs PROVE Busy(x)'
  <2>1. Busy(x) /\ Busy(h)
    BY Names DEF IInv
  <2>2. CASE x # h
    BY <1>1, <1>3, <2>1, <2>2, Names, BusyKept DEF Same, IInv, Types
  <2>3. CASE x = h
    BY <1>1, <2>1, <2>3, Names DEF Busy, IInv, Types, Known
  <2> QED BY <2>2, <2>3
<1>6. TalkSame
  BY <1>1, Names, ZenonT(60) DEF TalkSame, question, answer, nFront, nBack, FrontAsks, FrontReads, IInv, Types
<1>7. Talk'
  BY <1>3, <1>6, TalkKept DEF IInv
<1>8. Numbers'
  BY <1>1, NumbersKept DEF IInv, nFront
<1> QED BY <1>2, <1>4, <1>5, <1>7, <1>8 DEF IInv

(* What is under way, or what the two ends do, tells whose turn it is. *)
LEMMA WhoseTurn ==
  ASSUME Talk
  PROVE  /\ question # << >> => \E q \in Reqs : Current(q) /\ Asking(q)
         /\ answer # << >> => \E q \in Reqs : Current(q) /\ Answering(q)
         /\ pc[Back] \in {"recv", "work"} => \E q \in Reqs : Current(q) /\ Thinking(q)
         /\ pc[Back] = "write" => \E q \in Reqs : Current(q) /\ Answering(q)
         /\ FrontAsks => \E q \in Reqs : Current(q) /\ Asking(q)
         /\ FrontReads => \E q \in Reqs : Current(q) /\ Reading(q)
         /\ ~DbBusy => Quiet
<1>1. CASE Quiet /\ ~DbBusy
  BY <1>1 DEF Quiet
<1>2. ASSUME NEW q \in Reqs, Current(q), Turn(q)
      PROVE  /\ question # << >> => Asking(q)
             /\ answer # << >> => Answering(q)
             /\ pc[Back] \in {"recv", "work"} => Thinking(q)
             /\ pc[Back] = "write" => Answering(q)
             /\ FrontAsks => Asking(q)
             /\ FrontReads => Reading(q)
             /\ DbBusy
  <2>1. CASE Asking(q)
    BY <1>2, <2>1 DEF Asking, DbBusy, Current
  <2>2. CASE Thinking(q)
    BY <1>2, <2>2 DEF Thinking, DbBusy, Current
  <2>3. CASE Answering(q)
    BY <1>2, <2>3 DEF Answering, DbBusy, Current
  <2>4. CASE Reading(q)
    BY <1>2, <2>4, NamesAssumption DEF Reading, DbBusy, Current, FrontReads, FrontAsks
  <2> QED BY <1>2, <2>1, <2>2, <2>3, <2>4 DEF Turn
<1> QED BY <1>1, <1>2 DEF Talk

LEMMA PollStep ==
  ASSUME Plain, IInv, NEW p \in Procs, NEW n \in Conns, Poll(p, n)
  PROVE  IInv'
<1>1. /\ pc[p] = "idle" /\ inbox[p][n] # << >> /\ (p = Front => NoLateFork)
      /\ pc' = [pc EXCEPT ![p] = "poll"]
      /\ at' = [at EXCEPT ![p] = [conn |-> n, msg |-> NoMsg]]
      /\ dgn' = [dgn EXCEPT ![p] = fake[n]]
      /\ UNCHANGED <<asked, open, stage, inbox, next_id, work, file>>
      /\ UNCHANGED <<c_conn, fake, ffile, rids, rid_of>>
  BY DEF Poll, JoinPoll
<1>2. p = Front \/ (p = Back /\ n = DbConn)
  BY <1>1 DEF IInv, Clients
<1>3. Types'
  <2>1. NoMsg \in M
    BY DEF NoMsg, M
  <2> QED BY <1>1, <2>1 DEF IInv, Types
<1>4. RidKept
  BY <1>1 DEF RidKept
<1>5. Identities' /\ Clients'
  BY <1>1, RequestsKept
<1>6. ASSUME NEW x \in Procs PROVE Busy(x)'
  <2>1. Busy(x) /\ Busy(p) /\ (pc[x] = "forked" => x \in Children)
    BY DEF IInv, Busy
  <2>2. CASE x # p
    <3>1. pc[x] = "forked" => p # Front
      BY <1>1, <2>1 DEF NoLateFork, Plain
    <3>2. Same(x)
      <4>1. /\ pc'[x] = pc[x] /\ dgn'[x] = dgn[x] /\ at'[x] = at[x]
            /\ p # Front => pc'[Front] = pc[Front] /\ dgn'[Front] = dgn[Front]
        BY <1>1, <2>2, Names DEF IInv, Types
      <4> QED BY <1>1, <3>1, <4>1 DEF Same
    <3> QED BY <1>4, <2>1, <3>2, BusyKept
  <2>3. CASE x = p
    BY <1>1, <1>2, <2>1, <2>3 DEF Busy, IInv, Types
  <2> QED BY <2>2, <2>3
<1>7. Talk'
  <2>1. CASE p = Front
    <3>1. TalkSame
      BY <1>1, <2>1, Names DEF TalkSame, question, answer, nFront, nBack, FrontAsks, FrontReads, IInv, Types
    <3> QED BY <1>4, <3>1, TalkKept DEF IInv
  <2>2. CASE p = Back
    <3>1. question # << >>
      BY <1>1, <1>2, <2>2, Names DEF question
    <3>2. PICK q \in Reqs : Current(q) /\ Asking(q)
      BY <3>1, WhoseTurn DEF IInv
    <3>3. Current(q)'
      BY <1>1, <1>4, <3>2, CurrentKept
    <3>4. pc'[Front] = pc[Front] /\ at'[Front] = at[Front] /\ pc'[Back] = "poll"
      BY <1>1, <2>2, Names DEF IInv, Types
    <3>5. Asking(q)'
      BY <1>1, <3>2, <3>4 DEF Asking, Sent, question, answer, nFront, nBack, FrontAsks, FrontReads
    <3> QED BY <3>3, <3>5 DEF Talk, Turn
  <2> QED BY <1>2, <2>1, <2>2
<1>8. Numbers'
  BY <1>1, NumbersKept DEF IInv, nFront
<1> QED BY <1>3, <1>5, <1>6, <1>7, <1>8 DEF IInv

LEMMA RequestStep ==
  ASSUME IInv, NEW w \in Www, Request(w)
  PROVE  IInv'
<1> DEFINE m == [req |-> asked + 1, id |-> next_id[w][w], logged |-> TRUE]
<1>1. /\ open[w] = 0 /\ asked < MaxReqs /\ asked' = asked + 1
      /\ open' = [open EXCEPT ![w] = asked + 1]
      /\ inbox' = [inbox EXCEPT ![Front][w] = Append(@, m)]
      /\ next_id' = [next_id EXCEPT ![w][w] = @ + 1]
      /\ UNCHANGED <<stage, pc, at, work, file>>
      /\ UNCHANGED <<dgn, c_conn, fake, ffile, rids, rid_of>>
  BY DEF Request, joiner
<1>2. asked \in Nat /\ asked + 1 \in Reqs /\ m \in M
  BY <1>1, Names DEF IInv, Types, Reqs, M
<1>3. inbox[Front][w] = << >>
  BY <1>1 DEF IInv, Clients, Pending
<1> HIDE DEF m
<1>4. /\ inbox'[Front][w] = Append(<< >>, m)
      /\ \A p \in Procs, n \in Conns : p # Front \/ n # w => inbox'[p][n] = inbox[p][n]
  BY <1>1, <1>3, Names, ZenonT(60) DEF IInv, Types
<1>5. Types'
  <2>1. inbox' \in [Procs -> [Conns -> Seq(M)]]
    <3>1. inbox \in [Procs -> [Conns -> Seq(M)]] /\ Append(inbox[Front][w], m) \in Seq(M)
      BY <1>2, <1>3, Singles DEF IInv, Types
    <3> QED BY <1>1, <3>1
  <2>2. next_id' \in [Procs \cup Www -> [Conns -> Nat]]
    <3>1. next_id \in [Procs \cup Www -> [Conns -> Nat]]
      BY DEF IInv, Types
    <3>2. next_id[w] \in [Conns -> Nat] /\ w \in Conns
      BY <3>1, Names
    <3>3. next_id[w][w] + 1 \in Nat
      BY <3>2
    <3> QED BY <1>1, <3>1, <3>3
  <2>3. asked' \in 0..MaxReqs /\ open' \in [Www -> Nat]
    BY <1>1, <1>2, Names DEF IInv, Types, Reqs
  <2> QED BY <1>1, <2>1, <2>2, <2>3 DEF IInv, Types
<1>6. RidKept /\ Identities'
  BY <1>1, <1>2, IdentitiesKept DEF IInv, RidKept
<1>7. Clients'
  <2>1. rid_of[asked + 1] = NoRid
    BY <1>2 DEF IInv, Identities
  <2>2. \A x \in Www : open[x] \in Nat /\ open[x] <= asked
    BY DEF IInv, Clients, Types
  <2>3. open'[w] = asked + 1 /\ \A x \in Www : x # w => open'[x] = open[x]
    BY <1>1 DEF IInv, Types
  <2>4. Pending(w)'
    <3>1. inbox'[Front][w][1] = m /\ Len(inbox'[Front][w]) = 1
      BY <1>2, <1>4, Singles
    <3> QED BY <1>1, <1>2, <2>1, <2>3, <3>1 DEF Pending, m
  <2>5. \A x \in Www : x # w => Pending(x)'
    BY <1>1, <1>4, <2>3, Names DEF IInv, Clients, Pending
  <2>6. \A x \in Www : open'[x] <= asked' /\ Pending(x)'
    BY <1>1, <1>2, <2>2, <2>3, <2>4, <2>5
  <2>7. \A x, y \in Www : open'[x] = open'[y] /\ open'[x] # 0 => x = y
    BY <1>2, <2>2, <2>3 DEF IInv, Clients
  <2>8. \A p \in Procs, n \in Conns :
          inbox'[p][n] = << >> \/ p = Front \/ (p = Back /\ n = DbConn)
    BY <1>4 DEF IInv, Clients
  <2> QED BY <2>6, <2>7, <2>8 DEF Clients
<1>8. \A x \in Procs : Same(x)
  BY <1>1 DEF Same
<1>9. \A x \in Procs : Busy(x)'
  BY <1>6, <1>8, BusyKept DEF IInv
<1>10. nFront' = nFront /\ nBack' = nBack
  BY <1>1, Names, ZenonT(60) DEF nFront, nBack, IInv, Types
<1>11. question' = question /\ answer' = answer
  BY <1>4, Names DEF question, answer
<1>12. Talk'
  <2>1. TalkSame
    BY <1>1, <1>10, <1>11 DEF TalkSame, FrontAsks, FrontReads
  <2> QED BY <1>6, <2>1, TalkKept DEF IInv
<1>13. Numbers'
  BY <1>1, <1>10, NumbersKept DEF IInv
<1> QED BY <1>5, <1>6, <1>7, <1>9, <1>12, <1>13 DEF IInv

(* Only a process of the two takes a message, and none of its children is  *)
(* about to log a fork.                                                    *)
LEMMA RecvStart ==
  ASSUME Plain, IInv, NEW p \in Procs, NEW n \in Conns, Recv(p, n)
  PROVE  /\ pc[p] \in {"idle", "poll"} /\ inbox[p][n] # << >>
         /\ p = Front \/ (p = Back /\ n = DbConn)
         /\ p = Front => \A x \in Procs : pc[x] # "forked"
         /\ Head(inbox[p][n]).logged
<1>1. inbox[p][n] # << >> /\ Head(inbox[p][n]).logged
  BY DEF Recv, Plain
<1>2. p = Front \/ (p = Back /\ n = DbConn)
  BY <1>1 DEF IInv, Clients
<1>3. ASSUME p = Front, NEW x \in Procs PROVE pc[x] # "forked"
  <2>1. pc[x] = "forked" => x \in Children /\ pc[Front] = "idle"
    BY DEF IInv, Busy
  <2>2. pc[p] = "poll" \/ \A h \in Children : pc[h] # "forked"
    BY <1>3 DEF Recv, NoLateFork, Plain
  <2> QED BY <1>3, <2>1, <2>2
<1>4. pc[p] \in {"idle", "poll"}
  BY DEF Recv
<1> QED BY <1>1, <1>2, <1>3, <1>4

(* A request head from a client: the joiner gives the request an identity. *)
LEMMA RecvClientStep ==
  ASSUME Plain, IInv, NEW w \in Www, Recv(Front, w)
  PROVE  IInv'
<1>0. PICK q, m : q = open[w] /\ m = Head(inbox[Front][w])
  OBVIOUS
<1>1. /\ at' = [at EXCEPT ![Front] = [conn |-> w, msg |-> m]]
      /\ dgn' = [dgn EXCEPT ![Front] = rids + 1]
      /\ fake' = [fake EXCEPT ![w] = rids + 1]
      /\ rids' = rids + 1 /\ rid_of' = [rid_of EXCEPT ![m.req] = rids + 1]
      /\ inbox' = [inbox EXCEPT ![Front][w] = Tail(@)]
      /\ pc' = [pc EXCEPT ![Front] = "recv"]
      /\ UNCHANGED <<asked, open, stage, next_id, work, file>> /\ UNCHANGED <<c_conn, ffile>>
  BY <1>0 DEF Recv, JoinRecv
<1>2. /\ pc[Front] \in {"idle", "poll"} /\ inbox[Front][w] # << >>
      /\ \A x \in Procs : pc[x] # "forked"
  BY Names, RecvStart
<1>3. inbox[Front][w] \in Seq(M)
  BY Names DEF IInv, Types
<1>4. /\ Len(inbox[Front][w]) = 1 /\ inbox[Front][w][1].req = q /\ q # 0
      /\ rid_of[q] = NoRid
  BY <1>0, <1>2 DEF IInv, Clients, Pending
<1>5. m \in M /\ m.req = q /\ Tail(inbox[Front][w]) = << >>
  BY <1>0, <1>3, <1>4, Singles
<1>6. q \in Reqs /\ q <= asked
  <2>1. q \in Nat /\ q <= asked /\ asked \in 0..MaxReqs
    BY <1>0 DEF IInv, Types, Clients
  <2> QED BY <1>4, <2>1, Names DEF Reqs
<1>7. rid_of' = [rid_of EXCEPT ![q] = rids + 1]
  BY <1>1, <1>5
<1>8. /\ inbox'[Front][w] = << >>
      /\ \A x \in Procs, n \in Conns : x # Front \/ n # w => inbox'[x][n] = inbox[x][n]
  BY <1>1, <1>5, Names, ZenonT(60) DEF IInv, Types
<1>9. rids \in Nat /\ rids + 1 \in Nat /\ rids + 1 \in Int /\ rids + 1 # NoRid
  BY DEF IInv, Types, NoRid
<1>10. rid_of'[q] = rids + 1 /\ \A r \in Reqs : r # q => rid_of'[r] = rid_of[r]
  BY <1>6, <1>7 DEF IInv, Types
<1>11. Types'
  <2>1. inbox' \in [Procs -> [Conns -> Seq(M)]]
    <3>1. Tail(inbox[Front][w]) \in Seq(M) /\ inbox \in [Procs -> [Conns -> Seq(M)]]
      BY <1>5, Singles DEF IInv, Types
    <3> QED BY <1>1, <3>1
  <2>2. at' \in [Procs -> [conn : Conns, msg : M]]
    BY <1>1, <1>5, Names DEF IInv, Types
  <2>3. PICK rid \in Int : rid = rids + 1
    BY <1>9
  <2>4. dgn' \in [Procs -> Int] /\ fake' \in [Conns -> Int]
    <3>1. dgn' = [dgn EXCEPT ![Front] = rid] /\ fake' = [fake EXCEPT ![w] = rid]
      BY <1>1, <2>3
    <3>2. dgn \in [Procs -> Int] /\ fake \in [Conns -> Int]
      BY DEF IInv, Types
    <3> QED BY <3>1, <3>2
  <2>5. rids' \in Nat /\ rid_of' \in [Reqs -> Int]
    <3>1. rid_of \in [Reqs -> Int] /\ rid_of' = [rid_of EXCEPT ![q] = rid]
      BY <1>7, <2>3 DEF IInv, Types
    <3> QED BY <1>1, <1>9, <3>1
  <2> QED BY <1>1, <2>1, <2>2, <2>4, <2>5 DEF IInv, Types
<1>12. RidKept
  BY <1>4, <1>10 DEF RidKept, Known
<1>13. Identities'
  <2>1. \A r \in Reqs : r # q /\ rid_of[r] # NoRid => rid_of[r] \in 1..rids /\ r <= asked
    BY DEF IInv, Identities
  <2>2. \A r \in Reqs : rid_of'[r] = NoRid \/ (rid_of'[r] \in 1..rids' /\ r <= asked')
    BY <1>1, <1>6, <1>9, <1>10, <2>1
  <2>3. ASSUME NEW r \in Reqs, NEW s \in Reqs, rid_of'[r] # NoRid, rid_of'[r] = rid_of'[s]
        PROVE  r = s
    <3>1. \A z \in Reqs : z # q => rid_of'[z] # rids + 1
      BY <1>9, <1>10, <2>1
    <3>2. CASE r = q \/ s = q
      BY <1>10, <2>3, <3>1, <3>2
    <3>3. CASE r # q /\ s # q
      BY <1>10, <2>3, <3>3 DEF IInv, Identities, Known
    <3> QED BY <3>2, <3>3
  <2> QED BY <2>2, <2>3 DEF Identities, Known
<1>14. Clients'
  <2>1. \A x \in Www : x # w /\ open[x] # 0 => open[x] # q
    BY <1>0 DEF IInv, Clients
  <2>2. \A x \in Www : open[x] # 0 => open[x] \in Reqs
    <3>1. \A x \in Www : open[x] \in Nat /\ open[x] <= asked
      BY DEF IInv, Types, Clients
    <3>2. asked \in 0..MaxReqs
      BY DEF IInv, Types
    <3> QED BY <3>1, <3>2, Names DEF Reqs
  <2>3. \A x \in Www : Pending(x)'
    <3>1. Pending(w)'
      BY <1>8 DEF Pending
    <3>2. ASSUME NEW x \in Www, x # w PROVE Pending(x)'
      <4>1. Pending(x) /\ inbox'[Front][x] = inbox[Front][x]
        BY <1>8, <3>2, Names DEF IInv, Clients
      <4>2. open[x] # 0 => rid_of'[open[x]] = rid_of[open[x]]
        BY <1>10, <2>1, <2>2, <3>2
      <4> QED BY <1>1, <4>1, <4>2 DEF Pending
    <3> QED BY <3>1, <3>2
  <2>4. \A x \in Procs, n \in Conns :
          inbox'[x][n] = << >> \/ x = Front \/ (x = Back /\ n = DbConn)
    BY <1>8 DEF IInv, Clients
  <2> QED BY <1>1, <2>3, <2>4 DEF Clients, IInv
<1>15. ASSUME NEW x \in Procs PROVE Busy(x)'
  <2>1. Busy(x)
    BY DEF IInv
  <2>2. CASE x # Front
    <3>1. pc'[x] = pc[x] /\ dgn'[x] = dgn[x] /\ at'[x] = at[x]
      BY <1>1, <2>2 DEF IInv, Types
    <3>2. pc[x] = "recv" => x = Back
      BY <2>1, <2>2 DEF Busy
    <3>3. pc[x] = "recv" => at[x].conn = DbConn
      BY <3>2, WhoseTurn DEF Thinking, IInv
    <3>4. fake'[DbConn] = fake[DbConn]
      BY <1>1, Names DEF IInv, Types
    <3>5. Same(x)
      BY <1>1, <1>2, <3>1, <3>3, <3>4 DEF Same
    <3> QED BY <1>12, <2>1, <3>5, BusyKept
  <2>3. CASE x = Front
    <3>1. /\ pc'[Front] = "recv" /\ at'[Front].conn = w /\ at'[Front].msg = m
          /\ dgn'[Front] = rids + 1 /\ fake'[w] = rids + 1
      BY <1>1, Names DEF IInv, Types
    <3>2. file[Front] = 0
      BY <1>2, <2>1, <2>3 DEF Busy
    <3>3. Known(q)'
      BY <1>6, <1>9, <1>10 DEF Known
    <3> QED BY <1>1, <1>5, <1>10, <2>3, <3>1, <3>2, <3>3 DEF Busy
  <2> QED BY <2>2, <2>3
<1>16. Talk'
  <2>1. question' = question /\ answer' = answer
    BY <1>8, Names DEF question, answer
  <2>2. pc'[Back] = pc[Back] /\ at'[Back] = at[Back] /\ pc'[Front] = "recv" /\ at'[Front].conn = w
    BY <1>1, Names DEF IInv, Types
  <2>3. ~FrontAsks /\ ~FrontReads /\ ~FrontAsks' /\ ~FrontReads'
    BY <1>2, <2>2, Names DEF FrontAsks, FrontReads
  <2>4. TalkSame
    BY <1>1, <2>1, <2>2, <2>3 DEF TalkSame, nFront, nBack
  <2> QED BY <1>12, <2>4, TalkKept DEF IInv
<1>17. Numbers'
  BY <1>1, NumbersKept DEF IInv, nFront
<1> QED BY <1>11, <1>13, <1>14, <1>15, <1>16, <1>17 DEF IInv

(* A message on the connection to the backend: the joiner finds the        *)
(* request under the message's number.                                     *)
LEMMA RecvDbStep ==
  ASSUME Plain, IInv, NEW p \in {Front, Back}, Recv(p, DbConn)
  PROVE  IInv'
<1>0. PICK s, m : s = inbox[p][DbConn] /\ m = Head(s)
  OBVIOUS
<1>1. /\ at' = [at EXCEPT ![p] = [conn |-> DbConn, msg |-> m]]
      /\ dgn' = [dgn EXCEPT ![p] = c_conn[DbConn][m.id]]
      /\ fake' = [fake EXCEPT ![DbConn] = c_conn[DbConn][m.id]]
      /\ inbox' = [inbox EXCEPT ![p][DbConn] = Tail(s)]
      /\ pc' = [pc EXCEPT ![p] = "recv"]
      /\ UNCHANGED <<asked, open, stage, next_id, work, file>>
      /\ UNCHANGED <<c_conn, ffile, rids, rid_of>>
  BY <1>0, Names DEF Recv, JoinRecv
<1>2. /\ p \in Procs /\ pc[p] \in {"idle", "poll"} /\ s # << >> /\ m.logged
      /\ p = Front => \A x \in Procs : pc[x] # "forked"
  BY <1>0, Names, RecvStart
<1>3. s \in Seq(M)
  BY <1>0, Names, SMTT(40) DEF IInv, Types
<1>4. PICK q \in Reqs : Current(q) /\ IF p = Front THEN Answering(q) ELSE Asking(q)
  BY <1>0, <1>2, WhoseTurn DEF IInv, question, answer
<1>5. Len(s) = 1 /\ s[1].req = q /\ s[1].id \in Int /\ (m = s[1] => c_conn[DbConn][m.id] = rid_of[q])
  <2>1. CASE p = Front
    BY <1>0, <1>2, <1>3, <1>4, <2>1, Singles DEF Answering, Sent, answer, M
  <2>2. CASE p = Back
    BY <1>0, <1>2, <1>3, <1>4, <2>2, Names, Singles DEF Asking, Sent, question, M
  <2> QED BY <2>1, <2>2
<1>6. m \in M /\ m = s[1] /\ m.req = q /\ Tail(s) = << >> /\ c_conn[DbConn][m.id] = rid_of[q]
  BY <1>0, <1>3, <1>5, Singles
<1>7. /\ dgn' = [dgn EXCEPT ![p] = rid_of[q]] /\ fake' = [fake EXCEPT ![DbConn] = rid_of[q]]
      /\ inbox' = [inbox EXCEPT ![p][DbConn] = << >>]
  BY <1>1, <1>6
<1>8. /\ inbox'[p][DbConn] = << >>
      /\ \A x \in Procs, n \in Conns : x # p \/ n # DbConn => inbox'[x][n] = inbox[x][n]
  <2>1. inbox \in [Procs -> [Conns -> Seq(M)]]
    BY DEF IInv, Types
  <2> QED BY <1>2, <1>7, <2>1, Names
<1>9. Types'
  <2>1. inbox' \in [Procs -> [Conns -> Seq(M)]]
    BY <1>7, Singles DEF IInv, Types
  <2>2. at' \in [Procs -> [conn : Conns, msg : M]]
    BY <1>1, <1>6, Names DEF IInv, Types
  <2>3. rid_of[q] \in Int
    BY DEF IInv, Types
  <2>4. dgn' \in [Procs -> Int] /\ fake' \in [Conns -> Int]
    BY <1>7, <2>3 DEF IInv, Types
  <2> QED BY <1>1, <2>1, <2>2, <2>4 DEF IInv, Types
<1>10. RidKept
  BY <1>1 DEF RidKept
<1>11. Identities'
  BY <1>1, IdentitiesKept DEF IInv, Types
<1>12. Clients'
  BY <1>1, <1>8, ClientsKept DEF IInv
<1>13. /\ pc'[p] = "recv" /\ at'[p].conn = DbConn /\ at'[p].msg = m
       /\ dgn'[p] = rid_of[q] /\ fake'[DbConn] = rid_of[q]
       /\ \A x \in Procs : x # p => pc'[x] = pc[x] /\ dgn'[x] = dgn[x] /\ at'[x] = at[x]
  <2>1. /\ DOMAIN pc = Procs /\ pc = [x \in Procs |-> pc[x]]
        /\ DOMAIN dgn = Procs /\ dgn = [x \in Procs |-> dgn[x]]
        /\ DOMAIN at = Procs /\ at = [x \in Procs |-> at[x]]
        /\ DOMAIN fake = Conns /\ fake = [n \in Conns |-> fake[n]]
    BY DEF IInv, Types
  <2> QED BY <1>1, <1>2, <1>7, <2>1, Names
<1>14. Known(q)' /\ Current(q)' /\ rid_of'[q] = rid_of[q]
  BY <1>1, <1>4, <1>10, KnownKept, CurrentKept DEF Current
<1>15. ASSUME NEW x \in Procs PROVE Busy(x)'
  <2>1. Busy(x) /\ Busy(p)
    BY <1>2 DEF IInv
  <2>2. CASE x # p
    <3>1. pc[x] = "recv" => x \in {Front, Back}
      BY <2>1 DEF Busy
    <3>2. pc[x] = "recv" => at[x].conn # DbConn
      <4>1. CASE p = Front
        BY <1>4, <2>2, <3>1, <4>1 DEF Answering
      <4>2. CASE p = Back
        BY <1>4, <2>2, <3>1, <4>2, Names DEF Asking, FrontReads
      <4> QED BY <4>1, <4>2
    <3>3. \A n \in Conns : n # DbConn => fake'[n] = fake[n]
      BY <1>7 DEF IInv, Types
    <3>4. at[x].conn \in Conns
      BY DEF IInv, Types
    <3>5. Same(x)
      BY <1>1, <1>2, <1>13, <2>2, <3>2, <3>3, <3>4, Names DEF Same
    <3> QED BY <1>10, <2>1, <3>5, BusyKept
  <2>3. CASE x = p
    <3>1. file[p] = 0
      BY <1>2, <2>1 DEF Busy
    <3> QED BY <1>1, <1>6, <1>13, <1>14, <2>3, <3>1 DEF Busy
  <2> QED BY <2>2, <2>3
<1>16. Talk'
  <2>1. nFront' = nFront /\ nBack' = nBack
    BY <1>1 DEF nFront, nBack
  <2>2. CASE p = Front
    <3>1. answer' = << >> /\ question' = question
      BY <1>8, <2>2, Names DEF answer, question
    <3>2. pc'[Back] = pc[Back] /\ FrontReads' /\ (at[Front].msg.req)' = q
      BY <1>6, <1>13, <2>2, Names DEF FrontReads
    <3>3. Answering(q) /\ answer[1].logged
      BY <1>0, <1>2, <1>4, <1>6, <2>2 DEF answer
    <3>4. Reading(q)'
      BY <2>1, <3>1, <3>2, <3>3 DEF Reading, Answering
    <3> QED BY <1>14, <3>4 DEF Talk, Turn
  <2>3. CASE p = Back
    <3>1. question' = << >> /\ answer' = answer
      BY <1>8, <2>3, Names DEF answer, question
    <3>2. /\ pc'[Front] = pc[Front] /\ at'[Front] = at[Front] /\ pc'[Back] = "recv"
          /\ at'[Back].conn = DbConn /\ (at[Back].msg.req)' = q
      BY <1>6, <1>13, <2>3, Names
    <3>3. Asking(q) /\ question[1].logged
      BY <1>0, <1>2, <1>4, <1>6, <2>3, Names DEF question
    <3>4. Thinking(q)'
      BY <2>1, <3>1, <3>2, <3>3 DEF Thinking, Asking, FrontAsks, FrontReads
    <3> QED BY <1>14, <3>4 DEF Talk, Turn
  <2> QED BY <2>2, <2>3
<1>17. Numbers'
  BY <1>1, NumbersKept DEF IInv, nFront
<1> QED BY <1>9, <1>11, <1>12, <1>15, <1>16, <1>17 DEF IInv

LEMMA RecvStep ==
  ASSUME Plain, IInv, NEW p \in Procs, NEW n \in Conns, Recv(p, n)
  PROVE  IInv'
<1>1. CASE n = DbConn
  BY <1>1, RecvStart, RecvDbStep
<1>2. CASE n # DbConn
  <2>1. p = Front /\ n \in Www
    BY <1>2, RecvStart, Names
  <2> QED BY <2>1, RecvClientStep
<1> QED BY <1>1, <1>2

LEMMA ReadEndStep ==
  ASSUME IInv, NEW p \in Procs, ReadEnd(p)
  PROVE  IInv'
<1>0. PICK q, n : q = at[p].msg.req /\ n = at[p].conn
  OBVIOUS
<1>1. /\ pc[p] = "recv" /\ pc' = [pc EXCEPT ![p] = "work"]
      /\ work' = [work EXCEPT ![p] = q]
      /\ stage' = [stage EXCEPT ![q] = IF p = Front /\ n = DbConn THEN "answered" ELSE @]
      /\ dgn' = IF fake[n] = NoRid THEN dgn ELSE [dgn EXCEPT ![p] = fake[n]]
      /\ UNCHANGED <<asked, open, inbox, next_id, at, file>>
      /\ UNCHANGED <<c_conn, fake, ffile, rids, rid_of>>
  BY <1>0 DEF ReadEnd, JoinRead
<1>2. /\ Known(q) /\ q \in Reqs /\ q \in Nat /\ dgn[p] = rid_of[q] /\ fake[n] = rid_of[q]
      /\ p \in {Front, Back} /\ file[p] = 0
  <2>1. Busy(p)
    BY DEF IInv
  <2>2. Known(q) /\ dgn[p] = rid_of[q] /\ fake[n] = rid_of[q] /\ p \in {Front, Back} /\ file[p] = 0
    BY <1>0, <1>1, <2>1 DEF Busy
  <2> QED BY <2>2, Names DEF Known, Reqs
<1>3. dgn' = dgn
  BY <1>1, <1>2 DEF IInv, Types
<1>4. RidKept
  BY <1>1 DEF RidKept
<1>5. Types'
  <2>1. work' \in [Procs -> Nat] /\ pc' \in [Procs -> {"idle", "poll", "recv", "work", "write", "forked"}]
    BY <1>1, <1>2 DEF IInv, Types
  <2>2. stage' \in [Reqs -> {"new", "asked", "answered", "done"}]
    BY <1>1, <1>2 DEF IInv, Types
  <2> QED BY <1>1, <1>3, <2>1, <2>2 DEF IInv, Types
<1>6. Identities' /\ Clients'
  <2>1. asked \in Nat
    BY Names DEF IInv, Types
  <2> QED BY <1>1, <2>1, IdentitiesKept, ClientsKept DEF IInv
<1>7. /\ pc'[p] = "work" /\ work'[p] = q
      /\ \A x \in Procs : x # p => pc'[x] = pc[x] /\ work'[x] = work[x]
  BY <1>1 DEF IInv, Types
<1>8. ASSUME NEW x \in Procs PROVE Busy(x)'
  <2>1. Busy(x) /\ (pc[x] = "forked" => pc[Front] = "idle")
    BY DEF IInv, Busy
  <2>2. CASE x # p
    <3>1. Same(x)
      BY <1>1, <1>3, <1>7, <2>1, <2>2, Names DEF Same
    <3> QED BY <1>4, <2>1, <3>1, BusyKept
  <2>3. CASE x = p
    <3>1. Known(q)'
      BY <1>2, <1>4, KnownKept
    <3> QED BY <1>1, <1>2, <1>3, <1>7, <2>3, <3>1 DEF Busy
  <2> QED BY <2>2, <2>3
<1>9. stage'[q] = (IF p = Front /\ n = DbConn THEN "answered" ELSE stage[q])
      /\ \A r \in Reqs : r # q => stage'[r] = stage[r]
  BY <1>1, <1>2 DEF IInv, Types
<1>10. /\ question' = question /\ answer' = answer /\ nFront' = nFront /\ nBack' = nBack
       /\ at' = at /\ c_conn' = c_conn
  BY <1>1 DEF question, answer, nFront, nBack
<1>11. Talk'
  <2>1. CASE p = Back
    <3>1. PICK r \in Reqs : Current(r) /\ Thinking(r)
      BY <1>1, <2>1, WhoseTurn DEF IInv
    <3>2. r = q
      BY <1>0, <1>1, <2>1, <3>1 DEF Thinking
    <3>3. Current(r)'
      BY <1>4, <1>9, <2>1, <3>1, Names, CurrentKept
    <3>4. Thinking(r)'
      BY <1>7, <1>10, <2>1, <3>1, <3>2, Names DEF Thinking, FrontAsks, FrontReads
    <3> QED BY <3>3, <3>4 DEF Talk, Turn
  <2>2. CASE p = Front /\ n # DbConn
    <3>1. ~FrontAsks /\ ~FrontReads /\ ~FrontAsks' /\ ~FrontReads'
      BY <1>0, <1>1, <1>7, <2>2 DEF FrontAsks, FrontReads
    <3>2. TalkSame
      BY <1>7, <1>9, <1>10, <2>2, <3>1, Names DEF TalkSame
    <3> QED BY <1>4, <3>2, TalkKept DEF IInv
  <2>3. CASE p = Front /\ n = DbConn
    <3>1. PICK r \in Reqs : Current(r) /\ Reading(r)
      BY <1>0, <1>1, <2>3, WhoseTurn DEF IInv, FrontReads
    <3>2. r = q
      BY <1>0, <2>3, <3>1 DEF Reading
    <3>3. Quiet'
      BY <1>7, <1>10, <2>3, <3>1, Names DEF Reading, Quiet, FrontAsks, FrontReads
    <3>4. ~DbBusy'
      BY <1>9, <2>3, <3>1, <3>2 DEF Current, DbBusy
    <3> QED BY <3>3, <3>4 DEF Talk
  <2> QED BY <1>2, <2>1, <2>2, <2>3
<1>12. Numbers'
  BY <1>9, <1>10, NumbersKept DEF IInv
<1> QED BY <1>5, <1>6, <1>8, <1>11, <1>12 DEF IInv

(* What a write of message m to n leaves behind. *)
Wrote(p, n, to, m) ==
  /\ pc[p] = "work" /\ Known(work[p]) /\ work[p] \in Reqs /\ m \in M
  /\ pc'[p] = "write" /\ at'[p] = [conn |-> n, msg |-> m]
  /\ \A x \in Procs : x # p => pc'[x] = pc[x] /\ at'[x] = at[x]
  /\ next_id'[p][n] = next_id[p][n] + 1
  /\ \A x \in Procs, k \in Conns : x # p \/ k # n => next_id'[x][k] = next_id[x][k]
  /\ \A x \in Procs, k \in Conns :
       inbox'[x][k] = IF x \in to /\ k = n THEN Append(inbox[x][n], m) ELSE inbox[x][k]
  /\ at' \in [Procs -> [conn : Conns, msg : M]]
  /\ pc' \in [Procs -> {"idle", "poll", "recv", "work", "write", "forked"}]
  /\ next_id' \in [Procs \cup Www -> [Conns -> Nat]]
  /\ inbox' \in [Procs -> [Conns -> Seq(M)]]

LEMMA WriteEffect ==
  ASSUME IInv, NEW p \in {Front, Back}, NEW n \in Conns, NEW to, Writes(p, n, to),
         NEW m, m = [req |-> work[p], id |-> next_id[p][n], logged |-> FALSE]
  PROVE  Wrote(p, n, to, m)
<1>1. /\ pc[p] = "work" /\ pc' = [pc EXCEPT ![p] = "write"]
      /\ at' = [at EXCEPT ![p] = [conn |-> n, msg |-> m]]
      /\ next_id' = [next_id EXCEPT ![p][n] = @ + 1]
      /\ inbox' = [q \in Procs |-> IF q \in to THEN [inbox[q] EXCEPT ![n] = Append(@, m)]
                                   ELSE inbox[q]]
  BY DEF Writes
<1>2. p \in Procs
  BY Names
<1>3. /\ inbox \in [Procs -> [Conns -> Seq(M)]]
      /\ next_id \in [Procs \cup Www -> [Conns -> Nat]]
      /\ pc \in [Procs -> {"idle", "poll", "recv", "work", "write", "forked"}]
      /\ at \in [Procs -> [conn : Conns, msg : M]] /\ work \in [Procs -> Nat]
  BY DEF IInv, Types
<1>4. Known(work[p]) /\ work[p] \in Reqs
  BY <1>1, <1>2 DEF IInv, Busy, Known
<1>5. next_id[p] \in [Conns -> Nat] /\ next_id[p][n] \in Nat /\ next_id[p][n] + 1 \in Nat
  BY <1>2, <1>3
<1>6. m \in M
  BY <1>2, <1>3, <1>5 DEF M
<1>7. pc' \in [Procs -> {"idle", "poll", "recv", "work", "write", "forked"}]
  BY <1>1, <1>3
<1>8. at' \in [Procs -> [conn : Conns, msg : M]]
  BY <1>1, <1>3, <1>6
<1>9. next_id' \in [Procs \cup Www -> [Conns -> Nat]]
  BY <1>1, <1>3, <1>5
<1>10. inbox' \in [Procs -> [Conns -> Seq(M)]]
  <2>1. \A x \in Procs : Append(inbox[x][n], m) \in Seq(M)
    BY <1>3, <1>6
  <2> QED BY <1>1, <1>3, <2>1
<1>11. /\ pc'[p] = "write" /\ at'[p] = [conn |-> n, msg |-> m]
       /\ \A x \in Procs : x # p => pc'[x] = pc[x] /\ at'[x] = at[x]
  BY <1>1, <1>2, <1>3
<1>12. /\ next_id'[p][n] = next_id[p][n] + 1
       /\ \A x \in Procs, k \in Conns : x # p \/ k # n => next_id'[x][k] = next_id[x][k]
  BY <1>1, <1>2, <1>3
<1>13. \A x \in Procs, k \in Conns :
         inbox'[x][k] = IF x \in to /\ k = n THEN Append(inbox[x][n], m) ELSE inbox[x][k]
  BY <1>1, <1>3
<1> QED BY <1>1, <1>4, <1>6, <1>7, <1>8, <1>9, <1>10, <1>11, <1>12, <1>13 DEF Wrote

(* A process that goes on to write stays designated as it was. *)
LEMMA WriteBusy ==
  ASSUME IInv, NEW p \in {Front, Back}, pc[p] = "work", pc'[p] = "write",
         \A x \in Procs : x # p => pc'[x] = pc[x] /\ at'[x] = at[x],
         UNCHANGED <<work, file, dgn, c_conn, fake, ffile, rids, rid_of>>
  PROVE  RidKept /\ \A x \in Procs : Busy(x)'
<1>1. RidKept
  BY DEF RidKept
<1>2. ASSUME NEW x \in Procs PROVE Busy(x)'
  <2>1. Busy(x) /\ (pc[x] = "forked" => pc[Front] = "idle")
    BY DEF IInv, Busy
  <2>2. CASE x # p
    <3>1. Same(x)
      BY <2>1, <2>2, Names DEF Same
    <3> QED BY <1>1, <2>1, <3>1, BusyKept
  <2>3. CASE x = p
    BY <2>1, <2>3 DEF Busy, Known
  <2> QED BY <2>2, <2>3
<1> QED BY <1>1, <1>2

LEMMA AskStep ==
  ASSUME Plain, IInv, Ask
  PROVE  IInv'
<1>0. PICK q, m : q = work[Front] /\ m = [req |-> q, id |-> nFront, logged |-> FALSE]
  OBVIOUS
<1>1. /\ Writes(Front, DbConn, {Back}) /\ stage[q] = "new" /\ ~DbBusy
      /\ stage' = [stage EXCEPT ![q] = "asked"]
      /\ UNCHANGED <<asked, open, work, file>>
      /\ UNCHANGED <<dgn, c_conn, fake, ffile, rids, rid_of>>
  BY <1>0 DEF Ask, Plain, joiner
<1>2. Wrote(Front, DbConn, {Back}, m)
  <2>1. m = [req |-> work[Front], id |-> next_id[Front][DbConn], logged |-> FALSE]
    BY <1>0 DEF nFront
  <2> QED BY <1>1, <2>1, WriteEffect, Names
<1>11. pc[Front] = "work" /\ Known(q) /\ q \in Reqs /\ m \in M
  BY <1>0, <1>2 DEF Wrote
<1>3. RidKept /\ \A x \in Procs : Busy(x)'
  BY <1>1, <1>2, WriteBusy DEF Wrote
<1>4. Types'
  <2>1. stage' \in [Reqs -> {"new", "asked", "answered", "done"}]
    BY <1>1 DEF IInv, Types
  <2> QED BY <1>1, <1>2, <2>1 DEF IInv, Types, Wrote
<1>5. Identities'
  <2>1. asked \in Nat
    BY Names DEF IInv, Types
  <2> QED BY <1>1, <2>1, IdentitiesKept DEF IInv
<1>6. Clients'
  BY <1>1, <1>2, ClientsKept DEF IInv, Wrote
<1>7. stage'[q] = "asked" /\ \A r \in Reqs : r # q => stage'[r] = stage[r]
  BY <1>1, <1>11 DEF IInv, Types
<1>8. Quiet
  BY <1>1, WhoseTurn DEF IInv
<1>9. Talk'
  <2>1. Current(q)'
    <3>1. Known(q)'
      BY <1>3, <1>11, KnownKept
    <3>2. \A r \in Reqs : stage'[r] = "asked" <=> r = q
      BY <1>1, <1>7 DEF DbBusy
    <3> QED BY <3>1, <3>2 DEF Current
  <2>2. question' = Append(<< >>, m) /\ answer' = << >>
    BY <1>2, <1>8, Names, ZenonT(60) DEF question, answer, Quiet, Wrote
  <2>3. Len(question') = 1 /\ (question[1])' = m
    BY <1>11, <2>2, Singles
  <2>4. nFront \in Nat /\ nFront' = nFront + 1 /\ nBack' = nBack
    BY <1>2, Names DEF nFront, nBack, IInv, Types, Wrote
  <2>5. m.req = q /\ m.id = nFront /\ ~m.logged
    BY <1>0
  <2>6. /\ pc'[Front] = "write" /\ at'[Front].conn = DbConn /\ at'[Front].msg = m
        /\ work'[Front] = q /\ pc'[Back] = "idle"
    BY <1>0, <1>1, <1>2, <1>8, Names DEF Quiet, Wrote
  <2>7. Sent(Front, question[1])'
    BY <2>3, <2>5, <2>6 DEF Sent
  <2>8. nBack' = nFront' /\ (question[1].id)' + 1 = nFront'
    BY <1>8, <2>3, <2>4, <2>5 DEF Quiet
  <2>9. Asking(q)'
    BY <2>2, <2>3, <2>5, <2>6, <2>7, <2>8 DEF Asking, FrontReads
  <2> QED BY <1>11, <2>1, <2>9 DEF Talk, Turn
<1>10. Numbers'
  <2>1. Begun' = Begun \cup {q} /\ q \notin Begun /\ Begun \in SUBSET Reqs
    BY <1>1, <1>7, <1>11 DEF Begun
  <2>2. IsFiniteSet(Begun) /\ Cardinality(Begun) \in Nat
    BY <2>1, BegunFinite
  <2>3. Cardinality(Begun') = Cardinality(Begun) + 1
    BY <2>1, <2>2, FS_AddElement
  <2>4. nFront \in Nat /\ nFront' = nFront + 1 /\ nFront <= Cardinality(Begun)
    BY <1>2, Names DEF nFront, IInv, Types, Numbers, Wrote
  <2> QED BY <2>2, <2>3, <2>4 DEF Numbers
<1> QED BY <1>3, <1>4, <1>5, <1>6, <1>9, <1>10 DEF IInv

LEMMA AnswerStep ==
  ASSUME IInv, Answer
  PROVE  IInv'
<1>0. PICK m : m = [req |-> work[Back], id |-> nBack, logged |-> FALSE]
  OBVIOUS
<1>1. /\ Writes(Back, DbConn, {Front}) /\ UNCHANGED <<asked, open, stage, work, file>>
      /\ UNCHANGED <<dgn, c_conn, fake, ffile, rids, rid_of>>
  BY DEF Answer, joiner
<1>2. Wrote(Back, DbConn, {Front}, m)
  <2>1. m = [req |-> work[Back], id |-> next_id[Back][DbConn], logged |-> FALSE]
    BY <1>0 DEF nBack
  <2> QED BY <1>1, <2>1, WriteEffect, Names
<1>3. RidKept /\ \A x \in Procs : Busy(x)'
  BY <1>1, <1>2, WriteBusy DEF Wrote
<1>4. Types'
  BY <1>1, <1>2 DEF IInv, Types, Wrote
<1>5. Identities'
  <2>1. asked \in Nat
    BY Names DEF IInv, Types
  <2> QED BY <1>1, <2>1, IdentitiesKept DEF IInv
<1>6. Clients'
  BY <1>1, <1>2, ClientsKept DEF IInv, Wrote
<1>7. nFront \in Nat /\ nBack \in Nat /\ nFront' = nFront /\ nBack' = nBack + 1
  BY <1>2, Names DEF nFront, nBack, IInv, Types, Wrote
<1>8. Talk'
  <2>1. PICK q \in Reqs : Current(q) /\ Thinking(q)
    BY <1>2, WhoseTurn DEF IInv, Wrote
  <2>2. Current(q)'
    BY <1>1, <1>3, <2>1, CurrentKept
  <2>3. answer' = Append(<< >>, m) /\ question' = << >>
    BY <1>2, <2>1, Names, ZenonT(60) DEF question, answer, Thinking, Wrote
  <2>4. Len(answer') = 1 /\ (answer[1])' = m
    BY <1>2, <2>3, Singles DEF Wrote
  <2>5. m.req = q /\ m.id = nFront /\ ~m.logged
    BY <1>0, <1>2, <2>1 DEF Thinking, Wrote
  <2>6. /\ pc'[Back] = "write" /\ at'[Back].conn = DbConn /\ at'[Back].msg = m
        /\ work'[Back] = q /\ pc'[Front] = pc[Front] /\ at'[Front] = at[Front]
    BY <1>1, <1>2, <2>1, Names DEF Thinking, Wrote
  <2>7. Sent(Back, answer[1])'
    BY <2>4, <2>5, <2>6 DEF Sent
  <2>8. nBack' = nFront' + 1 /\ (answer[1].id)' = nFront'
    BY <1>7, <2>1, <2>4, <2>5 DEF Thinking
  <2>9. Answering(q)'
    BY <2>1, <2>3, <2>4, <2>5, <2>6, <2>7, <2>8 DEF Answering, Thinking, FrontReads, FrontAsks
  <2> QED BY <2>2, <2>9 DEF Talk, Turn
<1>9. Numbers'
  BY <1>1, <1>7, NumbersKept DEF IInv
<1> QED BY <1>3, <1>4, <1>5, <1>6, <1>8, <1>9 DEF IInv

LEMMA RespondStep ==
  ASSUME IInv, NEW w \in Www, Respond(w)
  PROVE  IInv'
<1>0. PICK q, m : q = work[Front] /\ m = [req |-> q, id |-> next_id[Front][w], logged |-> FALSE]
  OBVIOUS
<1>1. /\ Writes(Front, w, {}) /\ open[w] = q /\ stage[q] = "answered"
      /\ stage' = [stage EXCEPT ![q] = "done"] /\ open' = [open EXCEPT ![w] = 0]
      /\ UNCHANGED <<asked, work, file>>
      /\ UNCHANGED <<dgn, c_conn, fake, ffile, rids, rid_of>>
  BY <1>0 DEF Respond, joiner
<1>2. Wrote(Front, w, {}, m)
  BY <1>0, <1>1, WriteEffect, Names
<1>3. pc[Front] = "work" /\ Known(q) /\ q \in Reqs
  BY <1>0, <1>2 DEF Wrote
<1>4. RidKept /\ \A x \in Procs : Busy(x)'
  BY <1>1, <1>2, WriteBusy DEF Wrote
<1>5. Types'
  <2>1. stage' \in [Reqs -> {"new", "asked", "answered", "done"}] /\ open' \in [Www -> Nat]
    BY <1>1 DEF IInv, Types
  <2> QED BY <1>1, <1>2, <2>1 DEF IInv, Types, Wrote
<1>6. asked \in Nat
  BY Names DEF IInv, Types
<1>7. Identities'
  BY <1>1, <1>6, IdentitiesKept DEF IInv
<1>8. \A x \in Procs, k \in Conns : inbox'[x][k] = inbox[x][k]
  BY <1>2 DEF Wrote
<1>9. open'[w] = 0 /\ \A x \in Www : x # w => open'[x] = open[x]
  BY <1>1 DEF IInv, Types
<1>10. Clients'
  <2>1. inbox[Front][w] = << >>
    BY <1>1, <1>3 DEF IInv, Clients, Pending, Known
  <2>2. ASSUME NEW x \in Www PROVE Pending(x)' /\ open'[x] <= asked'
    <3>1. Pending(x) /\ inbox'[Front][x] = inbox[Front][x] /\ open[x] <= asked
      BY <1>8, Names DEF IInv, Clients
    <3> QED BY <1>1, <1>6, <1>9, <2>1, <3>1 DEF Pending
  <2>3. \A x, y \in Www : open'[x] = open'[y] /\ open'[x] # 0 => x = y
    BY <1>9 DEF IInv, Clients
  <2>4. \A x \in Procs, k \in Conns :
          inbox'[x][k] = << >> \/ x = Front \/ (x = Back /\ k = DbConn)
    BY <1>8 DEF IInv, Clients
  <2> QED BY <2>2, <2>3, <2>4 DEF Clients
<1>11. stage'[q] = "done" /\ \A r \in Reqs : r # q => stage'[r] = stage[r]
  BY <1>1, <1>3 DEF IInv, Types
<1>12. nFront' = nFront /\ nBack' = nBack /\ question' = question /\ answer' = answer
  BY <1>2, <1>8, Names DEF nFront, nBack, question, answer, Wrote
<1>13. Talk'
  <2>1. ~FrontAsks /\ ~FrontReads /\ ~FrontAsks' /\ ~FrontReads'
    BY <1>2, Names DEF FrontAsks, FrontReads, Wrote
  <2>2. pc'[Back] = pc[Back] /\ at'[Back] = at[Back]
    BY <1>2, Names DEF Wrote
  <2>3. TalkSame
    BY <1>1, <1>11, <1>12, <2>1, <2>2 DEF TalkSame
  <2> QED BY <1>4, <2>3, TalkKept DEF IInv
<1>14. Numbers'
  BY <1>11, <1>12, NumbersKept DEF IInv
<1> QED BY <1>4, <1>5, <1>7, <1>10, <1>13, <1>14 DEF IInv

LEMMA ForkStep ==
  ASSUME Plain, IInv, NEW h \in Children, Fork(h)
  PROVE  IInv'
<1>0. PICK q : q = work[Front]
  OBVIOUS
<1>1. /\ pc[Front] = "work" /\ stage[q] = "new" /\ pc[h] = "idle"
      /\ pc' = [pc EXCEPT ![Front] = "idle", ![h] = "forked"]
      /\ work' = [work EXCEPT ![Front] = 0, ![h] = q]
      /\ file' = [file EXCEPT ![h] = file[Front], ![Front] = 0]
      /\ stage' = [stage EXCEPT ![q] = "done"]
      /\ open' = [w \in Www |-> IF open[w] = q THEN 0 ELSE open[w]]
      /\ UNCHANGED <<asked, inbox, next_id, at>>
      /\ UNCHANGED <<dgn, c_conn, fake, ffile, rids, rid_of>>
  BY <1>0 DEF Fork, Plain, joiner
<1>2. /\ Known(q) /\ q \in Reqs /\ q \in Nat /\ file[Front] \in {0, q} /\ file[Front] \in Nat
      /\ dgn[Front] = rid_of[q] /\ (file[Front] # 0 => ffile[Front] = rid_of[q])
  <2>1. Busy(Front)
    BY Names DEF IInv
  <2>2. /\ Known(q) /\ file[Front] \in {0, q} /\ dgn[Front] = rid_of[q]
        /\ file[Front] # 0 => ffile[Front] = rid_of[q]
    BY <1>0, <1>1, <2>1 DEF Busy
  <2> QED BY <2>2, Names DEF Known, Reqs
<1>3. h \in Procs /\ h # Front /\ Front \in Procs
  BY Names
<1>4. Types'
  <2>1. pc' \in [Procs -> {"idle", "poll", "recv", "work", "write", "forked"}]
    BY <1>1 DEF IInv, Types
  <2>2. work' \in [Procs -> Nat] /\ file' \in [Procs -> Nat]
    BY <1>1, <1>2 DEF IInv, Types
  <2>3. stage' \in [Reqs -> {"new", "asked", "answered", "done"}]
    BY <1>1 DEF IInv, Types
  <2>4. open' \in [Www -> Nat]
    BY <1>1 DEF IInv, Types
  <2> QED BY <1>1, <2>1, <2>2, <2>3, <2>4 DEF IInv, Types
<1>5. RidKept
  BY <1>1 DEF RidKept
<1>6. asked \in Nat
  BY Names DEF IInv, Types
<1>7. Identities'
  BY <1>1, <1>6, IdentitiesKept DEF IInv
<1>8. Clients'
  <2>1. \A w \in Www : open[w] = q => inbox[Front][w] = << >>
    BY <1>2 DEF IInv, Clients, Pending, Known
  <2>2. \A w \in Www : open'[w] = IF open[w] = q THEN 0 ELSE open[w]
    BY <1>1
  <2>3. ASSUME NEW w \in Www PROVE Pending(w)' /\ open'[w] <= asked'
    <3>1. Pending(w) /\ open[w] <= asked
      BY DEF IInv, Clients
    <3> QED BY <1>1, <1>6, <2>1, <2>2, <3>1 DEF Pending
  <2>4. \A x, y \in Www : open'[x] = open'[y] /\ open'[x] # 0 => x = y
    BY <2>2 DEF IInv, Clients
  <2> QED BY <1>1, <2>3, <2>4 DEF IInv, Clients
<1>9. /\ pc'[Front] = "idle" /\ work'[Front] = 0 /\ file'[Front] = 0
      /\ pc'[h] = "forked" /\ work'[h] = q /\ file'[h] = file[Front]
      /\ \A x \in Procs : x # h /\ x # Front =>
           pc'[x] = pc[x] /\ work'[x] = work[x] /\ file'[x] = file[x]
  BY <1>1, <1>3 DEF IInv, Types
<1>10. ASSUME NEW x \in Procs PROVE Busy(x)'
  <2>1. Busy(x) /\ (pc[x] = "forked" => pc[Front] = "idle")
    BY DEF IInv, Busy
  <2>2. CASE x = Front
    BY <1>9, <2>2 DEF Busy
  <2>3. CASE x = h
    <3>1. Known(q)' /\ rid_of' = rid_of
      BY <1>1, <1>2, <1>5, KnownKept
    <3> QED BY <1>1, <1>2, <1>9, <2>3, <3>1, ZenonT(60) DEF Busy
  <2>4. CASE x # h /\ x # Front
    <3>1. Same(x)
      BY <1>1, <1>9, <2>1, <2>4 DEF Same
    <3> QED BY <1>5, <2>1, <3>1, BusyKept
  <2> QED BY <2>2, <2>3, <2>4
<1>11. stage'[q] = "done" /\ \A r \in Reqs : r # q => stage'[r] = stage[r]
  BY <1>1, <1>2 DEF IInv, Types
<1>12. Talk'
  <2>1. ~FrontAsks /\ ~FrontReads /\ ~FrontAsks' /\ ~FrontReads'
    BY <1>1, <1>9 DEF FrontAsks, FrontReads
  <2>2. pc'[Back] = pc[Back] /\ work'[Back] = work[Back]
    BY <1>9, Names
  <2>3. TalkSame
    BY <1>1, <1>11, <2>1, <2>2 DEF TalkSame, question, answer, nFront, nBack
  <2> QED BY <1>5, <2>3, TalkKept DEF IInv
<1>13. Numbers'
  BY <1>1, <1>11, NumbersKept DEF IInv, nFront
<1> QED BY <1>4, <1>7, <1>8, <1>10, <1>12, <1>13 DEF IInv

(* What the inbox of the receiver holds once message m on n is logged. *)
Mark(m) == [m EXCEPT !.logged = TRUE]
Marked(s, k, n, m) == [i \in 1..Len(s) |-> IF s[i] = m /\ k = n THEN Mark(m) ELSE s[i]]

LEMMA MarkedSeq ==
  ASSUME NEW s \in Seq(M), NEW k, NEW n, NEW m \in M
  PROVE  /\ Marked(s, k, n, m) \in Seq(M) /\ Len(Marked(s, k, n, m)) = Len(s)
         /\ k # n => Marked(s, k, n, m) = s
         /\ s = << >> => Marked(s, k, n, m) = << >>
         /\ Len(s) = 1 /\ s[1] = m /\ k = n => Marked(s, k, n, m)[1] = Mark(m)
         /\ Mark(m) \in M /\ Mark(m).logged /\ Mark(m).req = m.req /\ Mark(m).id = m.id
<1> DEFINE t == Marked(s, k, n, m)
<1>1. Len(s) \in Nat /\ \A i \in 1..Len(s) : s[i] \in M
  OBVIOUS
<1>2. Mark(m) \in M /\ Mark(m).logged /\ Mark(m).req = m.req /\ Mark(m).id = m.id
  BY DEF M, Mark
<1>3. t = [i \in 1..Len(s) |-> IF s[i] = m /\ k = n THEN Mark(m) ELSE s[i]]
  BY DEF Marked
<1>4. t \in Seq(M) /\ Len(t) = Len(s) /\ DOMAIN t = 1..Len(s)
  BY <1>1, <1>2, <1>3
<1>5. ASSUME \A i \in 1..Len(s) : ~(s[i] = m /\ k = n) PROVE t = s
  <2>1. \A i \in 1..Len(s) : t[i] = s[i]
    BY <1>3, <1>5
  <2> QED BY <1>4, <2>1, SeqEqual
<1>6. s = << >> => t = << >>
  <2>1. Len(<< >>) = 0
    OBVIOUS
  <2>2. ASSUME s = << >> PROVE Len(s) = 0
    BY <2>1, <2>2, Zenon
  <2> QED BY <1>5, <2>2
<1>7. Len(s) = 1 /\ s[1] = m /\ k = n => t[1] = Mark(m)
  BY <1>3
<1> QED BY <1>2, <1>4, <1>5, <1>6, <1>7

(* The message is logged: what the joiner and the receiver have of it, and *)
(* that the process is free again.                                         *)
Logged(p, o, n, m) ==
  /\ c_conn' = [c_conn EXCEPT ![n][m.id] = dgn[p]]
  /\ \A k \in Conns : inbox'[o][k] = Marked(inbox[o][k], k, n, m)
  /\ \A x \in Procs, k \in Conns : x # o \/ k # n => inbox'[x][k] = inbox[x][k]
  /\ pc'[p] = "idle" /\ work'[p] = 0
  /\ \A x \in Procs : x # p => pc'[x] = pc[x] /\ work'[x] = work[x]
  /\ UNCHANGED <<asked, open, stage, next_id, at, dgn, fake, ffile, rids, rid_of>>

LEMMA LogSendEffect ==
  ASSUME Plain, IInv, NEW p \in Procs, LogSend(p), NEW n, n = at[p].conn, NEW m, m = at[p].msg
  PROVE  /\ p \in {Front, Back} /\ pc[p] = "write" /\ n \in Conns /\ m \in M
         /\ Logged(p, PeerOf(p, n), n, m) /\ Types' /\ Identities' /\ Clients'
         /\ RidKept /\ \A x \in Procs : Busy(x)'
<1>1. /\ pc[p] = "write" /\ pc' = [pc EXCEPT ![p] = "idle"]
      /\ work' = [work EXCEPT ![p] = 0] /\ file' = [file EXCEPT ![p] = 0]
      /\ c_conn' = [c_conn EXCEPT ![n][m.id] = dgn[p]]
      /\ UNCHANGED <<asked, open, stage, next_id, at, dgn, fake, ffile, rids, rid_of>>
  BY DEF LogSend, JoinSend, Rest, Plain
<1>2. inbox' = [inbox EXCEPT ![PeerOf(p, n)] =
                  [k \in Conns |-> [i \in 1..Len(@[k]) |->
                     IF @[k][i] = m /\ k = n THEN [m EXCEPT !.logged = TRUE] ELSE @[k][i]]]]
  BY DEF LogSend
<1>3. Busy(p)
  BY DEF IInv
<1>4. p \in {Front, Back}
  BY <1>1, <1>3 DEF Busy
<1>5. n \in Conns /\ m \in M
  BY DEF IInv, Types
<1>6. PICK o : o = PeerOf(p, n)
  OBVIOUS
<1>7. o \in {Front, Back} /\ o # p /\ o \in Procs
  BY <1>4, <1>6, Names DEF PeerOf
<1>8. inbox' = [inbox EXCEPT ![o] = [k \in Conns |-> Marked(inbox[o][k], k, n, m)]]
  BY <1>2, <1>6 DEF Marked, Mark
<1>9. inbox \in [Procs -> [Conns -> Seq(M)]]
  BY DEF IInv, Types
<1>10. \A k \in Conns : /\ Marked(inbox[o][k], k, n, m) \in Seq(M)
                        /\ k # n => Marked(inbox[o][k], k, n, m) = inbox[o][k]
                        /\ inbox[o][k] = << >> => Marked(inbox[o][k], k, n, m) = << >>
  BY <1>5, <1>7, <1>9, MarkedSeq
<1>11. /\ \A k \in Conns : inbox'[o][k] = Marked(inbox[o][k], k, n, m)
       /\ \A x \in Procs, k \in Conns : x # o => inbox'[x][k] = inbox[x][k]
  BY <1>7, <1>8, <1>9
<1>12. inbox' \in [Procs -> [Conns -> Seq(M)]]
  BY <1>8, <1>9, <1>10
<1>13. /\ pc'[p] = "idle" /\ work'[p] = 0 /\ file'[p] = 0
       /\ \A x \in Procs : x # p => pc'[x] = pc[x] /\ work'[x] = work[x] /\ file'[x] = file[x]
  BY <1>1 DEF IInv, Types
<1>14. Logged(p, o, n, m)
  BY <1>1, <1>10, <1>11, <1>13 DEF Logged
<1>15. Types'
  <2>1. dgn[p] \in Int /\ c_conn \in [Conns -> [Ids -> Int]]
    BY DEF IInv, Types
  <2>2. c_conn' \in [Conns -> [Ids -> Int]]
    BY <1>1, <2>1
  <2>3. work' \in [Procs -> Nat] /\ file' \in [Procs -> Nat]
        /\ pc' \in [Procs -> {"idle", "poll", "recv", "work", "write", "forked"}]
    BY <1>1 DEF IInv, Types
  <2> QED BY <1>1, <1>12, <2>2, <2>3 DEF IInv, Types
<1>16. RidKept
  BY <1>1 DEF RidKept
<1>17. Identities'
  <2>1. asked \in Nat
    BY Names DEF IInv, Types
  <2> QED BY <1>1, <2>1, IdentitiesKept DEF IInv
<1>18. Clients'
  <2>1. ASSUME NEW x \in Procs, NEW k \in Conns
        PROVE  inbox'[x][k] = inbox[x][k] \/ (k = DbConn /\ x \in {Front, Back})
    <3>1. CASE x # o \/ k # n
      BY <1>10, <1>11, <3>1
    <3>2. CASE x = o /\ k = n /\ k # DbConn
      <4>1. CASE o = Back
        <5>1. inbox[o][k] = << >>
          BY <3>2, <4>1, Names DEF IInv, Clients
        <5> QED BY <1>10, <1>11, <3>2, <5>1
      <4>2. CASE o = Front
        <5>1. p = Back
          BY <1>4, <1>7, <4>2
        <5>2. PICK q \in Reqs : Answering(q)
          BY <1>1, <5>1, WhoseTurn DEF IInv
        <5>3. at[Back].conn = DbConn
          BY <1>1, <5>1, <5>2 DEF Answering, Sent
        <5> QED BY <3>2, <5>1, <5>3
      <4> QED BY <1>7, <4>1, <4>2
    <3>3. CASE x = o /\ k = DbConn
      BY <1>7, <3>3
    <3> QED BY <3>1, <3>2, <3>3
  <2> QED BY <1>1, <2>1, ClientsKept DEF IInv
<1>19. ASSUME NEW x \in Procs PROVE Busy(x)'
  <2>1. Busy(x) /\ (pc[x] = "forked" => pc[Front] = "idle")
    BY DEF IInv, Busy
  <2>2. CASE x # p
    <3>1. Same(x)
      BY <1>1, <1>13, <2>1, <2>2, Names DEF Same
    <3> QED BY <1>16, <2>1, <3>1, BusyKept
  <2>3. CASE x = p
    BY <1>13, <2>3 DEF Busy
  <2> QED BY <2>2, <2>3
<1> QED BY <1>1, <1>4, <1>5, <1>6, <1>14, <1>15, <1>16, <1>17, <1>18, <1>19

(* The number of a question or of an answer has an entry in c_conn, which  *)
(* the log record fills.                                                   *)
LEMMA Bound ==
  ASSUME IInv, NEW id \in Int, NEW p \in Procs, id + 1 = nFront \/ id = nFront, 0 <= id,
         c_conn' = [c_conn EXCEPT ![DbConn][id] = dgn[p]]
  PROVE  c_conn'[DbConn][id] = dgn[p]
<1>1. Cardinality(Begun) \in Nat /\ Cardinality(Begun) <= MaxReqs
  <2>1. Begun \in SUBSET Reqs
    BY DEF Begun
  <2> QED BY <2>1, BegunFinite
<1>2. nFront \in Nat /\ nFront <= Cardinality(Begun)
  BY Names DEF nFront, IInv, Types, Numbers
<1>3. id \in Ids
  BY <1>1, <1>2, Names DEF Ids
<1>4. c_conn \in [Conns -> [Ids -> Int]]
  BY DEF IInv, Types
<1> QED BY <1>3, <1>4, Names

LEMMA LogSendStep ==
  ASSUME Plain, IInv, NEW p \in Procs, LogSend(p)
  PROVE  IInv'
<1>0. PICK n, m, o : n = at[p].conn /\ m = at[p].msg /\ o = PeerOf(p, n)
  OBVIOUS
<1>1. /\ p \in {Front, Back} /\ pc[p] = "write" /\ n \in Conns /\ m \in M
      /\ Logged(p, o, n, m) /\ Types' /\ Identities' /\ Clients'
      /\ RidKept /\ \A x \in Procs : Busy(x)'
  BY <1>0, LogSendEffect
<1>2. nFront' = nFront /\ nBack' = nBack /\ stage' = stage /\ at' = at /\ rid_of' = rid_of
  BY <1>1 DEF Logged, nFront, nBack
<1>3. Numbers'
  BY <1>2, NumbersKept DEF IInv
<1>4. o = IF p = Front THEN Back ELSE Front
  BY <1>0 DEF PeerOf
<1>5. question \in Seq(M) /\ answer \in Seq(M)
  BY DbTypes
<1>6. dgn[p] = rid_of[work[p]]
  BY <1>1 DEF IInv, Busy
<1>7. Talk'
  <2>1. CASE p = Front /\ n # DbConn
    <3>1. question' = question /\ answer' = answer
      BY <1>1, <2>1, Names DEF Logged, question, answer
    <3>2. ~FrontAsks /\ ~FrontReads /\ ~FrontAsks' /\ ~FrontReads'
      BY <1>0, <1>1, <2>1, Names DEF FrontAsks, FrontReads, Logged
    <3>3. pc'[Back] = pc[Back] /\ work'[Back] = work[Back]
      BY <1>1, <2>1, Names DEF Logged
    <3>4. c_conn'[DbConn] = c_conn[DbConn]
      BY <1>1, <2>1, Names DEF Logged, IInv, Types
    <3>5. TalkSame
      BY <1>2, <3>1, <3>2, <3>3, <3>4 DEF TalkSame
    <3> QED BY <1>1, <3>5, TalkKept DEF IInv
  <2>2. CASE p = Front /\ n = DbConn
    <3>1. PICK q \in Reqs : Current(q) /\ Asking(q)
      BY <1>0, <1>1, <2>2, WhoseTurn DEF IInv, FrontAsks
    <3>2. FrontAsks /\ ~question[1].logged
      BY <1>0, <1>1, <2>2, <3>1 DEF FrontAsks, Asking
    <3>3. Len(question) = 1 /\ question[1] = m /\ work[Front] = q /\ m.req = q /\ m.id + 1 = nFront
      BY <1>0, <2>2, <3>1, <3>2 DEF Asking, Sent
    <3>4. question' = Marked(question, n, n, m) /\ answer' = answer
      BY <1>1, <1>4, <2>2, Names DEF Logged, question, answer
    <3>5. /\ Len(question') = 1 /\ (question[1])' = Mark(m)
          /\ Mark(m).logged /\ Mark(m).req = q /\ Mark(m).id = m.id
      BY <1>1, <1>5, <3>3, <3>4, MarkedSeq
    <3>6. c_conn'[DbConn][m.id] = rid_of[q]
      <4>1. m.id \in Int /\ 0 <= m.id
        BY <1>1 DEF M
      <4>2. c_conn' = [c_conn EXCEPT ![DbConn][m.id] = dgn[p]]
        BY <1>1, <2>2 DEF Logged
      <4>3. c_conn'[DbConn][m.id] = dgn[p]
        BY <3>3, <4>1, <4>2, Bound
      <4> QED BY <1>6, <2>2, <3>3, <4>3
    <3>7. Sent(Front, question[1])'
      BY <1>2, <3>5, <3>6 DEF Sent
    <3>8. pc'[Front] = "idle" /\ pc'[Back] = pc[Back]
      BY <1>1, <2>2, Names DEF Logged
    <3>9. ~FrontAsks' /\ ~FrontReads'
      BY <3>8 DEF FrontAsks, FrontReads
    <3>10. (question[1].id)' + 1 = nFront' /\ (question[1].req)' = q
      BY <1>2, <3>3, <3>5
    <3>11. Asking(q)'
      BY <1>2, <3>1, <3>4, <3>5, <3>7, <3>8, <3>9, <3>10 DEF Asking
    <3>12. Current(q)'
      BY <1>1, <1>2, <3>1, CurrentKept
    <3> QED BY <3>11, <3>12 DEF Talk, Turn
  <2>3. CASE p = Back
    <3>1. PICK q \in Reqs : Current(q) /\ Answering(q)
      BY <1>1, <2>3, WhoseTurn DEF IInv
    <3>2. ~answer[1].logged
      BY <1>1, <2>3, <3>1 DEF Answering
    <3>3. /\ Len(answer) = 1 /\ answer[1] = m /\ work[Back] = q /\ m.req = q /\ m.id = nFront
          /\ n = DbConn
      BY <1>0, <2>3, <3>1, <3>2 DEF Answering, Sent
    <3>4. answer' = Marked(answer, n, n, m) /\ question' = question
      BY <1>1, <1>4, <2>3, <3>3, Names DEF Logged, question, answer
    <3>5. /\ Len(answer') = 1 /\ (answer[1])' = Mark(m)
          /\ Mark(m).logged /\ Mark(m).req = q /\ Mark(m).id = m.id
      BY <1>1, <1>5, <3>3, <3>4, MarkedSeq
    <3>6. c_conn'[DbConn][m.id] = rid_of[q]
      <4>1. m.id \in Int /\ 0 <= m.id
        BY <1>1 DEF M
      <4>2. c_conn' = [c_conn EXCEPT ![DbConn][m.id] = dgn[p]]
        BY <1>1, <3>3 DEF Logged
      <4>3. c_conn'[DbConn][m.id] = dgn[p]
        BY <3>3, <4>1, <4>2, Bound
      <4> QED BY <1>6, <2>3, <3>3, <4>3
    <3>7. Sent(Back, answer[1])'
      BY <1>2, <3>5, <3>6 DEF Sent
    <3>8. pc'[Back] = "idle" /\ pc'[Front] = pc[Front]
      BY <1>1, <2>3, Names DEF Logged
    <3>9. ~FrontAsks' /\ ~FrontReads'
      BY <1>2, <3>1, <3>8 DEF FrontAsks, FrontReads, Answering
    <3>10. (answer[1].id)' = nFront' /\ (answer[1].req)' = q
      BY <1>2, <3>3, <3>5
    <3>11. Answering(q)'
      BY <1>2, <3>1, <3>4, <3>5, <3>7, <3>8, <3>9, <3>10 DEF Answering
    <3>12. Current(q)'
      BY <1>1, <1>2, <3>1, CurrentKept
    <3> QED BY <3>11, <3>12 DEF Talk, Turn
  <2> QED BY <1>1, <2>1, <2>2, <2>3
<1> QED BY <1>1, <1>3, <1>7 DEF IInv

-----------------------------------------------------------------------------
(* The invariant, and the two properties *)

LEMMA Initially ==
  ASSUME Init
  PROVE  IInv
<1>1. /\ asked = 0 /\ open = [w \in Www |-> 0] /\ stage = [q \in Reqs |-> "new"]
      /\ inbox = [p \in Procs |-> [n \in Conns |-> << >>]]
      /\ next_id = [p \in Procs \cup Www |-> [n \in Conns |-> IF p = Back THEN 1 ELSE 0]]
      /\ pc = [p \in Procs |-> "idle"]
      /\ at = [p \in Procs |-> [conn |-> DbConn, msg |-> NoMsg]]
      /\ work = [p \in Procs |-> 0] /\ file = [p \in Procs |-> 0]
      /\ dgn = [p \in Procs |-> NoRid]
      /\ c_conn = [n \in Conns |-> [i \in Ids |-> NoRid]]
      /\ fake = [n \in Conns |-> NoRid] /\ ffile = [p \in Procs |-> NoRid]
      /\ rids = 0 /\ rid_of = [q \in Reqs |-> NoRid]
  BY DEF Init
<1>2. Types
  <2>1. NoRid \in Int /\ NoMsg \in M /\ << >> \in Seq(M)
    BY Singles DEF NoRid, NoMsg, M
  <2>2. inbox \in [Procs -> [Conns -> Seq(M)]] /\ at \in [Procs -> [conn : Conns, msg : M]]
    BY <1>1, <2>1, Names
  <2>3. next_id \in [Procs \cup Www -> [Conns -> Nat]]
    BY <1>1
  <2>4. /\ dgn \in [Procs -> Int] /\ c_conn \in [Conns -> [Ids -> Int]]
        /\ fake \in [Conns -> Int] /\ ffile \in [Procs -> Int] /\ rid_of \in [Reqs -> Int]
    BY <1>1, <2>1
  <2> QED BY <1>1, <2>2, <2>3, <2>4, Names DEF Types
<1>3. Identities
  BY <1>1 DEF Identities, Known
<1>4. Clients
  BY <1>1, Names DEF Clients, Pending
<1>5. \A p \in Procs : Busy(p)
  BY <1>1 DEF Busy
<1>6. nFront = 0 /\ nBack = 1
  BY <1>1, Names DEF nFront, nBack
<1>7. Talk
  <2>1. question = << >> /\ answer = << >> /\ pc[Back] = "idle" /\ pc[Front] = "idle"
    BY <1>1, Names DEF question, answer
  <2>2. Quiet
    BY <1>6, <2>1 DEF Quiet, FrontAsks, FrontReads
  <2>3. ~DbBusy
    BY <1>1 DEF DbBusy
  <2> QED BY <2>2, <2>3 DEF Talk
<1>8. Numbers
  <2>1. Begun \in SUBSET Reqs
    BY DEF Begun
  <2>2. Cardinality(Begun) \in Nat
    BY <2>1, BegunFinite
  <2> QED BY <1>6, <2>2 DEF Numbers
<1> QED BY <1>2, <1>3, <1>4, <1>5, <1>7, <1>8 DEF IInv

LEMMA Stuttering ==
  ASSUME IInv, UNCHANGED vars
  PROVE  IInv'
<1>1. /\ UNCHANGED <<asked, open, stage, inbox, next_id, pc, at, work, file>>
      /\ UNCHANGED <<dgn, c_conn, fake, ffile, rids, rid_of>>
  BY DEF vars, program, joiner
<1>2. Types' /\ RidKept /\ \A x \in Procs : Same(x)
  BY <1>1 DEF IInv, Types, RidKept, Same
<1>3. asked \in Nat
  BY Names DEF IInv, Types
<1>4. Identities' /\ Clients'
  BY <1>1, <1>3, IdentitiesKept, ClientsKept DEF IInv
<1>5. \A x \in Procs : Busy(x)'
  BY <1>2, BusyKept DEF IInv
<1>6. TalkSame
  BY <1>1 DEF TalkSame, question, answer, nFront, nBack, FrontAsks, FrontReads
<1>7. Talk'
  BY <1>2, <1>6, TalkKept DEF IInv
<1>8. Numbers'
  BY <1>1, NumbersKept DEF IInv, nFront
<1> QED BY <1>2, <1>4, <1>5, <1>7, <1>8 DEF IInv

LEMMA Inductive ==
  ASSUME Plain, IInv, [Next]_vars
  PROVE  IInv'
<1>1. ASSUME NEW w \in Www, Request(w) \/ Respond(w) PROVE IInv'
  BY <1>1, RequestStep, RespondStep
<1>2. ASSUME NEW p \in Procs, ReadEnd(p) \/ LogSend(p) \/ OpenFile(p) \/ ReadFile(p)
      PROVE  IInv'
  BY <1>2, ReadEndStep, LogSendStep, OpenFileStep, ReadFileStep
<1>3. ASSUME NEW p \in Procs, NEW n \in Conns, Poll(p, n) \/ Recv(p, n) PROVE IInv'
  BY <1>3, PollStep, RecvStep
<1>4. ASSUME NEW h \in Children, Fork(h) \/ LogFork(h) \/ Exit(h) PROVE IInv'
  BY <1>4, ForkStep, LogForkStep, ExitStep
<1>5. Ask \/ Answer => IInv'
  BY AskStep, AnswerStep
<1>6. CASE UNCHANGED vars
  BY <1>6, Stuttering
<1> QED BY <1>1, <1>2, <1>3, <1>4, <1>5, <1>6 DEF Next

(* A process that works for a request is designated to it and to no other  *)
(* by stream_join(), for every number of clients, children and requests,   *)
(* as long as none of the Cases happens.                                   *)
THEOREM RightDesignation ==
  ASSUME Plain
  PROVE  Spec => []Attributed
<1>1. Init => IInv
  BY Initially
<1>2. IInv /\ [Next]_vars => IInv'
  BY Inductive
<1>3. ASSUME IInv PROVE Attributed
  <2>1. ASSUME NEW p \in Procs, pc[p] \in {"work", "write"}, NEW q \in Reqs
        PROVE  dgn[p] = rid_of[q] <=> q = work[p]
    <3>1. Known(work[p]) /\ dgn[p] = rid_of[work[p]]
      BY <1>3, <2>1 DEF IInv, Busy
    <3>2. work[p] \in Reqs
      BY <3>1 DEF Known
    <3>3. rid_of[work[p]] = rid_of[q] => work[p] = q
      BY <1>3, <3>1, <3>2 DEF IInv, Identities
    <3> QED BY <3>1, <3>3
  <2> QED BY <2>1 DEF Attributed
<1> QED BY <1>1, <1>2, <1>3, PTL DEF Spec

(* A logged message under way still stands for its sender's request in     *)
(* c_conn: what the other end of the connection logs meanwhile goes under  *)
(* another number.                                                         *)
THEOREM NumbersApart ==
  ASSUME Plain
  PROVE  Spec => []InFlight
<1>1. Init => IInv
  BY Initially
<1>2. IInv /\ [Next]_vars => IInv'
  BY Inductive
<1>3. ASSUME IInv PROVE InFlight
  <2>1. ASSUME NEW p \in Procs, NEW i \in 1..Len(inbox[p][DbConn]),
               inbox[p][DbConn][i].logged
        PROVE  c_conn[DbConn][inbox[p][DbConn][i].id] = rid_of[inbox[p][DbConn][i].req]
    <3>1. inbox[p][DbConn] # << >>
      <4>1. Len(<< >>) = 0
        OBVIOUS
      <4>2. inbox[p][DbConn] = << >> => Len(inbox[p][DbConn]) = Len(<< >>)
        BY Zenon
      <4> QED BY <2>1, <4>1, <4>2
    <3>2. p = Front \/ p = Back
      BY <1>3, <3>1, Names DEF IInv, Clients
    <3>3. CASE p = Back
      <4>1. PICK q \in Reqs : Asking(q)
        BY <1>3, <3>1, <3>3, WhoseTurn DEF IInv, question
      <4>2. i = 1 /\ Sent(Front, question[1])
        BY <2>1, <3>3, <4>1 DEF Asking, question
      <4> QED BY <2>1, <3>3, <4>2 DEF Sent, question
    <3>4. CASE p = Front
      <4>1. PICK q \in Reqs : Answering(q)
        BY <1>3, <3>1, <3>4, WhoseTurn DEF IInv, answer
      <4>2. i = 1 /\ Sent(Back, answer[1])
        BY <2>1, <3>4, <4>1 DEF Answering, answer
      <4> QED BY <2>1, <3>4, <4>2 DEF Sent, answer
    <3> QED BY <3>2, <3>3, <3>4
  <2> QED BY <2>1 DEF InFlight
<1> QED BY <1>1, <1>2, <1>3, PTL DEF Spec
=============================================================================
