--------------------------- MODULE FdTableProofs ---------------------------
(***************************************************************************)
(* Proofs about FdTable, for every number of threads, descriptors, objects *)
(* and calls and every set of PPs.                                         *)
(*                                                                         *)
(* The invariant says what the second halves of calls rely on (Calls), how *)
(* the kernel's tables relate (Opened), and for each descriptor what its   *)
(* entry, the state it owns and its open file have to do with each other   *)
(* (Entry, and Settled between calls).                                     *)
(***************************************************************************)
EXTENDS FdTable, FiniteSetTheorems, WellFoundedInduction, TLAPS

-----------------------------------------------------------------------------
(* The inductive invariant *)

(* Calls under way have a descriptor each, which is open until they end;   *)
(* one that opens or closes it finds or leaves it without a state.  Nobody *)
(* connects a new descriptor before its entry is there.                    *)
CallOf(t) ==
  call[t].op # "none" =>
    /\ ktab[call[t].s] # 0
    /\ call[t].op # "dup" => own[call[t].s] = Nil
    /\ call[t].op \in {"socket", "open"} => KFile(call[t].s).via # call[t].s
    /\ call[t].op = "accept" => KFile(call[t].s).kind = "conn"
    /\ \A u \in Threads \ {t} : call[u].op # "none" => call[u].s # call[t].s

Calls == \A t \in Threads : CallOf(t)

(* The files in use are those with a descriptor.  One that was not bound   *)
(* or connected has no service.                                            *)
Opened ==
  \A f \in Files :
    /\ kfile[f].kind # "free" <=> \E s \in Fds : ktab[s] = f
    /\ kfile[f].kind = "sock" => kfile[f].svc = Nil /\ ~kfile[f].failed
    /\ kfile[f].kind = "failed" => kfile[f].failed

(* The state of a descriptor is the one in its entry, and of the PP there. *)
Entry(s) ==
  /\ ktab[s] = 0 => own[s] = Nil
  /\ own[s] # Nil => /\ vfd_tab[s].pp_data = own[s]
                     /\ vfd_tab[s].pp_dispatcher \in PPs \ Stateless
                     /\ ~stray => heap[own[s]] = vfd_tab[s].pp_dispatcher

Distinct == ~stray => \A s, q \in Fds : own[s] # Nil /\ s # q => own[s] # own[q]

(* A descriptor that was not connected has no state and no connect() in    *)
(* progress; a connect() that is in progress is known to be.               *)
Settled(s) ==
  Usable(s) =>
    /\ own[s] # Nil \/ vfd_tab[s].in_prog = 1 => KFile(s).kind \in {"pending", "failed", "conn"}
    /\ KFile(s).kind = "pending" /\ KFile(s).via = s => vfd_tab[s].in_prog = 1
    /\ vfd_tab[s].in_prog = 0 /\ KFile(s).kind = "conn" /\ KFile(s).via = s =>
         /\ vfd_tab[s].pp_dispatcher = KFile(s).svc
         /\ KFile(s).svc \in PPs \ Stateless => own[s] # Nil
    /\ vfd_tab[s].in_prog = 0 /\ ~KFile(s).failed =>
         vfd_tab[s].pp_dispatcher \in {Nil, KFile(s).svc}

Kept == ~stray => \A o \in Objs : heap[o] # Nil => o \in lost \/ \E s \in Fds : own[s] = o

IInv ==
  /\ TypeOK /\ Calls /\ Opened /\ Distinct /\ Kept
  /\ \A s \in Fds : Entry(s) /\ Settled(s)

USE MaxFdAssumption, PPsAssumption

-----------------------------------------------------------------------------
(* The kernel finds a descriptor and a file *)

(* The lowest free descriptor exists if any is free. *)
LEMMA NewFdFree ==
  ASSUME FreeFds # {}
  PROVE  NewFd \in FreeFds
<1> DEFINE R == OpToRel(<, Nat)
<1>1. FreeFds \subseteq Nat
  BY DEF FreeFds, Fds
<1>2. IsWellFoundedOn(R, Nat)
  BY NatLessThanWellFounded
<1>3. \A x, y \in Nat : <<y, x>> \in R <=> y < x
  BY DEF OpToRel
<1> HIDE DEF R
<1>4. PICK x \in FreeFds : \A y \in FreeFds : ~(<<y, x>> \in R)
  BY <1>1, <1>2, WFMin
<1>5. ASSUME NEW y \in FreeFds PROVE x <= y
  <2>1. x \in Nat /\ y \in Nat
    BY <1>1
  <2>2. ~(y < x)
    BY <1>3, <1>4, <2>1
  <2> QED BY <2>1, <2>2
<1> QED BY <1>5 DEF NewFd

(* There are as many files as descriptors, so that one is free when a      *)
(* descriptor is.                                                          *)
LEMMA NewFileFree ==
  ASSUME TypeOK, Opened, FreeFds # {}
  PROVE  NewFile \in Files /\ kfile[NewFile].kind = "free"
<1> SUFFICES ASSUME \A f \in Files : kfile[f].kind # "free" PROVE FALSE
  BY DEF NewFile
<1> DEFINE Used == Fds \ FreeFds
           g == [s \in Used |-> ktab[s]]
<1>1. g \in Surjection(Used, Files)
  <2>1. g \in [Used -> Files]
    BY DEF FreeFds, TypeOK
  <2>2. \A f \in Files : \E s \in Used : g[s] = f
    BY DEF Opened, FreeFds, Files
  <2> QED BY <2>1, <2>2 DEF Surjection
<1>2. /\ IsFiniteSet(Fds) /\ Cardinality(Fds) = MaxFd + 1
      /\ IsFiniteSet(Files) /\ Cardinality(Files) = MaxFd + 1
  BY FS_Interval DEF Fds, Files
<1>3. Used \subseteq Fds /\ Used # Fds
  BY DEF FreeFds
<1>4. IsFiniteSet(Used) /\ Cardinality(Used) < MaxFd + 1
  BY <1>2, <1>3, FS_Subset, FS_CardinalityType
<1>5. Cardinality(Files) <= Cardinality(Used)
  BY <1>1, <1>4, FS_Surjection
<1> QED BY <1>2, <1>4, <1>5, FS_CardinalityType

-----------------------------------------------------------------------------
(* What the steps do to the entries, and types *)

(* What pp_init() does: the entry of s becomes w, with dispatcher pp, and  *)
(* s owns o, which is new and of the PP pp, or Nil if pp keeps no state.   *)
Takes(s, w, pp, o) ==
  /\ w \in Entries /\ w.pp_dispatcher = pp /\ pp \in PPs \cup {Nil} /\ o \in Objs \cup {Nil}
  /\ pp \in PPs \ Stateless <=> o # Nil
  /\ vfd_tab' = [vfd_tab EXCEPT ![s] = w]
  /\ own' = [own EXCEPT ![s] = o]
  /\ lost' = (lost \cup {own[s]}) \ {Nil, o}
  /\ IF o = Nil THEN UNCHANGED heap
     ELSE w.pp_data = o /\ heap[o] = Nil /\ heap' = [heap EXCEPT ![o] = pp]

(* pp_init() does that. *)
LEMMA PpInitTakes ==
  ASSUME TypeOK, NEW s \in Fds, NEW v \in Entries, NEW pp \in PPs \cup {Nil}, pp_init(s, v, pp)
  PROVE  \E o \in Objs \cup {Nil}, w \in Entries :
           /\ Takes(s, w, pp, o) /\ w.in_prog = v.in_prog
<1>1. CASE pp = Nil \/ pp \in Stateless
  <2> DEFINE w == [v EXCEPT !.pp_dispatcher = pp]
  <2>1. w \in Entries /\ w.pp_dispatcher = pp /\ w.in_prog = v.in_prog
    BY DEF Entries
  <2>2. WithoutState(s, v, pp)
    BY <1>1 DEF pp_init
  <2>3. pp \notin PPs \ Stateless
    BY <1>1
  <2> HIDE DEF w
  <2>4. vfd_tab' = [vfd_tab EXCEPT ![s] = w]
    BY <2>2 DEF WithoutState, w
  <2>5. Takes(s, w, pp, Nil)
    BY <2>1, <2>2, <2>3, <2>4 DEF WithoutState, Takes
  <2> QED BY <2>1, <2>5
<1>2. CASE ~(pp = Nil \/ pp \in Stateless)
  <2>1. PICK o \in Objs : heap[o] = Nil /\ WithState(s, v, pp, o)
    BY <1>2 DEF pp_init
  <2> DEFINE w == [v EXCEPT !.pp_dispatcher = pp, !.pp_data = o]
  <2>2. w \in Entries /\ w.pp_dispatcher = pp /\ w.in_prog = v.in_prog /\ w.pp_data = o
    BY DEF Entries
  <2>3. pp \in PPs \ Stateless /\ o # Nil
    BY <1>2
  <2> HIDE DEF w
  <2>4. vfd_tab' = [vfd_tab EXCEPT ![s] = w]
    BY <2>1 DEF WithState, w
  <2>5. Takes(s, w, pp, o)
    BY <2>1, <2>2, <2>3, <2>4 DEF WithState, Takes
  <2> QED BY <2>2, <2>5
<1> QED BY <1>1, <1>2

(* ... and keeps the types. *)
LEMMA TakesTypes ==
  ASSUME TypeOK, NEW s \in Fds, NEW w, NEW pp, NEW o, Takes(s, w, pp, o)
  PROVE  /\ vfd_tab' \in [Fds -> Entries] /\ heap' \in [Objs -> PPs \cup {Nil}]
         /\ own' \in [Fds -> Objs \cup {Nil}] /\ lost' \subseteq Objs
         /\ vfd_tab'[s] = w /\ own'[s] = o
         /\ \A q \in Fds \ {s} : vfd_tab'[q] = vfd_tab[q] /\ own'[q] = own[q]
BY DEF Takes, TypeOK

(* The entries the calls begin with. *)
LEMMA EntryTypes ==
  ASSUME NEW v \in Entries
  PROVE  /\ \A ty \in {"none", "socket", "open", "dup"} :
              LET w == [vfd_tab_init_one(v) EXCEPT !.type = ty]
              IN  /\ w \in Entries /\ w.pp_dispatcher = Nil /\ w.in_prog = 0 /\ w.pp_data = v.pp_data
         /\ \A n \in {0, 1} :
              LET w == [v EXCEPT !.in_prog = n]
              IN  w \in Entries /\ w.in_prog = n /\ w.pp_dispatcher = v.pp_dispatcher /\ w.pp_data = v.pp_data
         /\ \A pp \in PPs \cup {Nil} :
              LET w == [v EXCEPT !.pp_dispatcher = pp]
              IN  w \in Entries /\ w.in_prog = v.in_prog /\ w.pp_dispatcher = pp /\ w.pp_data = v.pp_data
BY DEF Entries, vfd_tab_init_one

(* Fields of a file. *)
LEMMA FileTypes ==
  ASSUME NEW kind \in Kinds, NEW svc \in PPs \cup {Nil}, NEW via \in Fds \cup {Nil}
  PROVE  /\ File(kind, svc, via) \in KFiles /\ File(kind, svc, via).kind = kind
         /\ File(kind, svc, via).svc = svc /\ File(kind, svc, via).via = via
         /\ File(kind, svc, via).failed = FALSE
         /\ NoFile \in KFiles /\ NoFile.kind = "free"
BY DEF File, KFiles, NoFile, Kinds

(* A call that begins. *)
LEMMA BeginTypes ==
  ASSUME TypeOK, NEW t \in Threads, Begins(t)
  PROVE  calls' \in 0..MaxCalls /\ call[t].op = "none" /\ ~stray
BY DEF Begins, TypeOK, Idle

(* ... and its second half that waits. *)
LEMMA CallTypes ==
  ASSUME TypeOK, NEW t \in Threads, NEW op \in {"none", "socket", "open", "accept", "dup", "close"},
         NEW s \in Fds, NEW from \in Fds, call' = [call EXCEPT ![t] = [op |-> op, s |-> s, from |-> from]]
  PROVE  /\ call' \in [Threads -> Call] /\ call'[t].op = op /\ call'[t].s = s
         /\ \A u \in Threads \ {t} : call'[u] = call[u]
BY DEF Call, TypeOK

-----------------------------------------------------------------------------
(* What a step leaves alone *)

(* A call that begins makes no descriptor usable. *)
LEMMA UsableBegins ==
  ASSUME NEW q \in Fds, NEW t \in Threads, call[t].op = "none",
         \A u \in Threads \ {t} : call'[u] = call[u], ktab'[q] = ktab[q], Usable(q)'
  PROVE  Usable(q)
BY DEF Usable

(* One that ends makes its own descriptor usable. *)
LEMMA UsableEnds ==
  ASSUME NEW q \in Fds, NEW t \in Threads, call[t].s # q,
         \A u \in Threads \ {t} : call'[u] = call[u], ktab'[q] = ktab[q], Usable(q)'
  PROVE  Usable(q)
BY DEF Usable

(* The file of q did not change, as far as q has to do with it. *)
SameFile(q) ==
  ktab[q] # 0 => LET f == kfile[ktab[q]]
                     g == kfile'[ktab[q]]
                 IN  /\ g.kind = f.kind /\ g.svc = f.svc /\ g.failed = f.failed
                     /\ g.via = q <=> f.via = q

(* What the invariant says of a descriptor stays true if the step is none  *)
(* of its business.                                                        *)
LEMMA FdFrame ==
  ASSUME NEW q \in Fds, Entry(q), Settled(q),
         ktab'[q] = ktab[q], vfd_tab'[q] = vfd_tab[q], own'[q] = own[q], SameFile(q),
         Usable(q)' => Usable(q),
         ~stray' => ~stray /\ (own[q] # Nil => heap'[own[q]] = heap[own[q]])
  PROVE  Entry(q)' /\ Settled(q)'
<1>1. Entry(q)'
  BY DEF Entry
<1>2. Settled(q)'
  <2> SUFFICES ASSUME Usable(q)' PROVE Settled(q)'
    BY DEF Settled
  <2>1. Usable(q) /\ ktab[q] # 0
    BY DEF Usable
  <2>2. KFile(q)' = kfile'[ktab[q]] /\ KFile(q) = kfile[ktab[q]]
    BY DEF KFile
  <2> QED BY <2>1, <2>2 DEF Settled, SameFile
<1> QED BY <1>1, <1>2

(* A step that changes neither the objects nor who owns them. *)
LEMMA HeapFrame ==
  ASSUME Distinct, Kept, UNCHANGED <<heap, own, lost>>, ~stray' => ~stray
  PROVE  Distinct' /\ Kept'
BY DEF Distinct, Kept

(* pp_init() takes an object that nobody has. *)
LEMMA TakesHeap ==
  ASSUME TypeOK, Distinct, Kept, \A q \in Fds : Entry(q), UNCHANGED stray,
         NEW s \in Fds, NEW w, NEW pp, NEW o, Takes(s, w, pp, o)
  PROVE  /\ Distinct' /\ Kept'
         /\ \A q \in Fds \ {s} : ~stray /\ own[q] # Nil => heap'[own[q]] = heap[own[q]]
         /\ ktab'[s] # 0 => Entry(s)'
<1>1. \A q \in Fds : ~stray /\ own[q] # Nil => own[q] \in Objs /\ heap[own[q]] # Nil
  BY DEF Entry, TypeOK
<1>2. \A q \in Fds : ~stray /\ own[q] # Nil => own[q] # o
  BY <1>1 DEF Takes
<1>3. own'[s] = o /\ \A q \in Fds \ {s} : own'[q] = own[q]
  BY TakesTypes
<1>4. Distinct'
  BY <1>2, <1>3 DEF Distinct
<1>5. \A x \in Objs : x # o => heap'[x] = heap[x]
  BY DEF Takes, TypeOK
<1>6. Kept'
  <2> SUFFICES ASSUME ~stray, NEW x \in Objs, heap'[x] # Nil, \A q \in Fds : own'[q] # x
               PROVE  x \in lost'
    BY DEF Kept
  <2>1. x # o
    BY <1>3
  <2>2. x \in lost \/ \E q \in Fds : own[q] = x
    BY <1>5, <2>1 DEF Kept
  <2>3. x \in lost \/ x = own[s]
    BY <1>3, <2>2
  <2> QED BY <2>1, <2>3 DEF Takes
<1>7. \A q \in Fds \ {s} : ~stray /\ own[q] # Nil => heap'[own[q]] = heap[own[q]]
  BY <1>1, <1>2, <1>5
<1>8. ASSUME ktab'[s] # 0 PROVE Entry(s)'
  <2>1. vfd_tab'[s] = w
    BY TakesTypes
  <2>2. o # Nil => heap'[o] = pp
    BY DEF Takes, TypeOK
  <2> QED BY <1>3, <1>8, <2>1, <2>2 DEF Entry, Takes
<1> QED BY <1>4, <1>6, <1>7, <1>8

(* Close to the end of its last descriptor a file goes. *)
LEMMA ReleaseKeeps ==
  ASSUME TypeOK, Opened, NEW d \in Fds, NEW f \in Files \cup {0},
         f = 0 \/ \E q \in Fds : ktab[q] = f,
         ktab' = [ktab EXCEPT ![d] = f], kfile' = Release(d, ktab')
  PROVE  /\ Opened' /\ kfile' \in [Files -> KFiles] /\ ktab' \in [Fds -> Files \cup {0}]
         /\ \A q \in Fds : ktab'[q] # 0 => kfile'[ktab'[q]] = kfile[ktab'[q]]
<1>1. ktab \in [Fds -> Files \cup {0}] /\ kfile \in [Files -> KFiles] /\ 0 \notin Files
  BY DEF Files, TypeOK
<1>2. ktab' \in [Fds -> Files \cup {0}] /\ ktab'[d] = f /\ \A q \in Fds \ {d} : ktab'[q] = ktab[q]
  BY <1>1
<1>3. NoFile \in KFiles /\ NoFile.kind = "free"
  BY FileTypes DEF Kinds
<1>4. CASE ktab[d] # 0 /\ \A q \in Fds : ktab'[q] # ktab[d]
  <2>1. kfile' = [kfile EXCEPT ![ktab[d]] = NoFile]
    BY <1>4 DEF Release
  <2>2. kfile' \in [Files -> KFiles] /\ kfile'[ktab[d]].kind = "free"
        /\ \A g \in Files \ {ktab[d]} : kfile'[g] = kfile[g]
    BY <1>1, <1>3, <1>4, <2>1, ZenonT(60)
  <2>3. \A q \in Fds : ktab'[q] # 0 => kfile'[ktab'[q]] = kfile[ktab'[q]]
    BY <1>2, <1>4, <2>2, ZenonT(60)
  <2>4. ASSUME NEW g \in Files
        PROVE  /\ kfile'[g].kind # "free" <=> \E s \in Fds : ktab'[s] = g
               /\ kfile'[g].kind = "sock" => kfile'[g].svc = Nil /\ ~kfile'[g].failed
               /\ kfile'[g].kind = "failed" => kfile'[g].failed
    <3>1. CASE g = ktab[d]
      BY <1>4, <2>2, <3>1
    <3>2. CASE g # ktab[d]
      <4>1. (\E s \in Fds : ktab'[s] = g) <=> (\E s \in Fds : ktab[s] = g)
        BY <1>1, <1>2, <3>2
      <4>2. kfile'[g] = kfile[g]
        BY <2>2, <3>2
      <4>3. /\ kfile[g].kind # "free" <=> \E s \in Fds : ktab[s] = g
            /\ kfile[g].kind = "sock" => kfile[g].svc = Nil /\ ~kfile[g].failed
            /\ kfile[g].kind = "failed" => kfile[g].failed
        BY DEF Opened
      <4> QED BY <4>1, <4>2, <4>3
    <3> QED BY <3>1, <3>2
  <2>5. Opened'
    BY <2>4 DEF Opened
  <2> QED BY <1>2, <2>2, <2>3, <2>5
<1>5. CASE ~(ktab[d] # 0 /\ \A q \in Fds : ktab'[q] # ktab[d])
  <2>1. kfile' = kfile
    BY <1>5 DEF Release
  <2>2. \A g \in Files : (\E s \in Fds : ktab'[s] = g) <=> (\E s \in Fds : ktab[s] = g)
    BY <1>1, <1>2, <1>5
  <2>3. Opened'
    BY <2>1, <2>2 DEF Opened
  <2> QED BY <1>1, <1>2, <2>1, <2>3
<1> QED BY <1>4, <1>5

-----------------------------------------------------------------------------
(* The first halves *)

(* socket(), open(), accept(): a new file at a free descriptor. *)
LEMMA OpensKeeps ==
  ASSUME IInv, NEW t \in Threads, NEW file \in KFiles, NEW op \in {"socket", "open", "accept"},
         NEW from \in Fds, Opens(t, file, op, from),
         file.kind # "free", file.kind = "sock" => file.svc = Nil /\ ~file.failed,
         file.kind # "failed",
         op = "accept" => file.kind = "conn", op # "accept" => file.via = Nil
  PROVE  IInv'
<1> DEFINE d == NewFd
           f == NewFile
<1>1. TypeOK /\ Calls /\ Opened /\ Distinct /\ Kept /\ \A s \in Fds : Entry(s) /\ Settled(s)
  BY DEF IInv
<1>2. d \in Fds /\ ktab[d] = 0 /\ f \in Files /\ kfile[f].kind = "free" /\ 0 \notin Files
  BY <1>1, NewFdFree, NewFileFree DEF Opens, FreeFds, Files
<1>3. /\ Begins(t) /\ kfile' = [kfile EXCEPT ![f] = file] /\ ktab' = [ktab EXCEPT ![d] = f]
      /\ call' = [call EXCEPT ![t] = [op |-> op, s |-> d, from |-> from]]
      /\ UNCHANGED <<vfd_tab, heap, own, lost, stray>>
  BY DEF Opens
<1> HIDE DEF d, f
<1>4. /\ call' \in [Threads -> Call] /\ call'[t].op = op /\ call'[t].s = d
      /\ \A u \in Threads \ {t} : call'[u] = call[u]
      /\ calls' \in 0..MaxCalls /\ call[t].op = "none"
  BY <1>1, <1>2, <1>3, CallTypes, BeginTypes, ZenonT(60)
<1>5. /\ kfile' \in [Files -> KFiles] /\ kfile'[f] = file /\ \A g \in Files \ {f} : kfile'[g] = kfile[g]
      /\ ktab' \in [Fds -> Files \cup {0}] /\ ktab'[d] = f /\ \A q \in Fds \ {d} : ktab'[q] = ktab[q]
  BY <1>1, <1>2, <1>3 DEF TypeOK
<1>6. TypeOK'
  BY <1>1, <1>3, <1>4, <1>5 DEF TypeOK
<1>7. \A q \in Fds : ktab[q] # f /\ (ktab[q] # 0 => ktab[q] \in Files \ {f} /\ q # d)
  BY <1>1, <1>2 DEF Opened, TypeOK
<1>8. Calls'
  <2> SUFFICES ASSUME NEW u \in Threads, call'[u].op # "none" PROVE CallOf(u)'
    BY DEF Calls, CallOf
  <2>1. \A x \in Threads \ {t} : call[x].op # "none" =>
            call[x].s \in Fds \ {d} /\ ktab[call[x].s] # 0 /\ kfile'[ktab'[call[x].s]] = kfile[ktab[call[x].s]]
    BY <1>1, <1>2, <1>5, <1>7 DEF Calls, CallOf, Call, TypeOK
  <2>2. CASE u = t
    <3>1. own[d] = Nil /\ f # 0
      BY <1>1, <1>2 DEF Entry
    <3>2. kfile'[ktab'[d]] = file /\ d # Nil
      BY <1>2, <1>5
    <3> QED BY <1>3, <1>4, <1>5, <2>1, <2>2, <3>1, <3>2 DEF CallOf, KFile
  <2>3. CASE u # t
    <3>1. call'[u] = call[u] /\ ktab'[call[u].s] = ktab[call[u].s] /\ call[u].s # d
      BY <1>4, <1>5, <2>1, <2>3
    <3>2. kfile'[ktab'[call[u].s]] = kfile[ktab[call[u].s]]
      BY <2>1, <2>3, <3>1
    <3> QED BY <1>1, <1>3, <1>4, <2>3, <3>1, <3>2 DEF Calls, CallOf, KFile
  <2> QED BY <2>2, <2>3
<1>9. Opened'
  <2> SUFFICES ASSUME NEW g \in Files
               PROVE  /\ kfile'[g].kind # "free" <=> \E s \in Fds : ktab'[s] = g
                      /\ kfile'[g].kind = "sock" => kfile'[g].svc = Nil /\ ~kfile'[g].failed
                      /\ kfile'[g].kind = "failed" => kfile'[g].failed
    BY DEF Opened
  <2>1. CASE g = f
    BY <1>2, <1>5, <2>1
  <2>2. CASE g # f
    <3>1. (\E s \in Fds : ktab'[s] = g) <=> (\E s \in Fds : ktab[s] = g)
      BY <1>2, <1>5, <2>2
    <3> QED BY <1>1, <1>5, <2>2, <3>1 DEF Opened
  <2> QED BY <2>1, <2>2
<1>10. Distinct' /\ Kept'
  BY <1>1, <1>3, HeapFrame
<1>11. ASSUME NEW q \in Fds PROVE Entry(q)' /\ Settled(q)'
  <2>1. CASE q = d
    <3>1. ~Usable(q)'
      BY <1>4, <2>1 DEF Usable
    <3>2. own'[q] = Nil
      BY <1>1, <1>2, <1>3, <2>1 DEF Entry
    <3> QED BY <3>1, <3>2 DEF Settled, Entry
  <2>2. CASE q # d
    <3>1. ktab'[q] = ktab[q] /\ SameFile(q)
      BY <1>5, <1>7, <2>2 DEF SameFile
    <3>2. Usable(q)' => Usable(q)
      BY <1>4, <3>1, UsableBegins
    <3> QED BY <1>1, <1>3, <3>1, <3>2, FdFrame
  <2> QED BY <2>1, <2>2
<1> QED BY <1>6, <1>8, <1>9, <1>10, <1>11 DEF IInv

(* dup(), dup2(): another descriptor for the file.  That of dup2() may     *)
(* have been open.                                                         *)
LEMMA DupKeeps ==
  ASSUME IInv, NEW t \in Threads, NEW s \in Fds, NEW d \in Fds, Begins(t), Usable(s),
         ktab[d] = 0 \/ Usable(d),
         ktab' = [ktab EXCEPT ![d] = ktab[s]], kfile' = Release(d, ktab'),
         call' = [call EXCEPT ![t] = [op |-> "dup", s |-> d, from |-> s]],
         UNCHANGED <<vfd_tab, heap, own, lost, stray>>
  PROVE  IInv'
<1>1. TypeOK /\ Calls /\ Opened /\ Distinct /\ Kept /\ \A q \in Fds : Entry(q) /\ Settled(q)
  BY DEF IInv
<1>2. /\ call' \in [Threads -> Call] /\ call'[t].op = "dup" /\ call'[t].s = d
      /\ \A u \in Threads \ {t} : call'[u] = call[u]
      /\ calls' \in 0..MaxCalls /\ call[t].op = "none"
  BY <1>1, CallTypes, BeginTypes, ZenonT(60)
<1>3. ktab[s] \in Files /\ ktab[s] # 0 /\ ktab \in [Fds -> Files \cup {0}]
  BY <1>1 DEF Usable, TypeOK
<1>4. /\ Opened' /\ kfile' \in [Files -> KFiles] /\ ktab' \in [Fds -> Files \cup {0}]
      /\ \A q \in Fds : ktab'[q] # 0 => kfile'[ktab'[q]] = kfile[ktab'[q]]
  BY <1>1, <1>3, ReleaseKeeps
<1>5. ktab'[d] = ktab[s] /\ \A q \in Fds \ {d} : ktab'[q] = ktab[q]
  BY <1>3
<1>6. TypeOK'
  BY <1>1, <1>2, <1>4 DEF TypeOK
<1>7. Calls'
  <2> SUFFICES ASSUME NEW u \in Threads, call'[u].op # "none" PROVE CallOf(u)'
    BY DEF Calls, CallOf
  <2>1. \A x \in Threads : call[x].op # "none" => call[x].s \in Fds \ {d} /\ ktab[call[x].s] # 0
    BY <1>1 DEF Calls, CallOf, Call, Usable, TypeOK
  <2>2. CASE u = t
    BY <1>2, <1>3, <1>5, <2>1, <2>2, SMTT(40) DEF CallOf
  <2>3. CASE u # t
    <3>1. call'[u] = call[u] /\ ktab'[call[u].s] = ktab[call[u].s] /\ call[u].s \in Fds \ {d}
      BY <1>2, <1>5, <2>1, <2>3
    <3>2. kfile'[ktab'[call[u].s]] = kfile[ktab[call[u].s]]
      BY <1>2, <1>4, <2>1, <2>3, <3>1, ZenonT(60)
    <3> QED BY <1>1, <1>2, <2>1, <2>3, <3>1, <3>2 DEF Calls, CallOf, KFile
  <2> QED BY <2>2, <2>3
<1>8. Distinct' /\ Kept'
  BY <1>1, HeapFrame
<1>9. ASSUME NEW q \in Fds PROVE Entry(q)' /\ Settled(q)'
  <2>1. CASE q = d
    <3>1. ~Usable(q)' /\ ktab'[q] # 0
      BY <1>2, <1>3, <1>5, <2>1 DEF Usable
    <3> QED BY <1>1, <3>1 DEF Settled, Entry
  <2>2. CASE q # d
    <3>1. ktab'[q] = ktab[q]
      BY <1>5, <2>2
    <3>2. SameFile(q)
      BY <1>4, <3>1, ZenonT(60) DEF SameFile
    <3>3. Usable(q)' => Usable(q)
      BY <1>2, <3>1, UsableBegins
    <3> QED BY <1>1, <3>1, <3>2, <3>3, FdFrame
  <2> QED BY <2>1, <2>2
<1> QED BY <1>4, <1>6, <1>7, <1>8, <1>9 DEF IInv

(* close() has the state freed, if there is one. *)
LEMMA CloseKeeps ==
  ASSUME IInv, NEW t \in Threads, NEW s \in Fds, close(t, s)
  PROVE  IInv'
<1> DEFINE v == vfd_tab[s]
           data == IF Frees(v) THEN Nil ELSE v.pp_data
           w == [ZeroEntry EXCEPT !.pp_data = data]
<1>1. TypeOK /\ Calls /\ Opened /\ Distinct /\ Kept /\ \A q \in Fds : Entry(q) /\ Settled(q)
  BY DEF IInv
<1>2. v \in Entries
  BY <1>1 DEF TypeOK
<1>3. w \in Entries
  BY <1>2 DEF Entries, ZeroEntry
<1>4. /\ Begins(t) /\ Usable(s) /\ UNCHANGED <<ktab, kfile>> /\ own' = [own EXCEPT ![s] = Nil]
      /\ call' = [call EXCEPT ![t] = [op |-> "close", s |-> s, from |-> 0]]
      /\ vfd_tab' = [vfd_tab EXCEPT ![s] = w]
  <2>1. Begins(t) /\ Usable(s) /\ UNCHANGED <<ktab, kfile>> /\ own' = [own EXCEPT ![s] = Nil]
    BY DEF close, pp_shutdown
  <2>2. call' = [call EXCEPT ![t] = [op |-> "close", s |-> s, from |-> 0]]
    BY DEF close
  <2>3. vfd_tab' = [vfd_tab EXCEPT ![s] = w]
    BY DEF close
  <2> QED BY <2>1, <2>2, <2>3
<1>5. /\ Frees(v) => /\ heap' = [heap EXCEPT ![v.pp_data] = Nil]
                     /\ lost' = lost \ {v.pp_data}
                     /\ stray' = (stray \/ v.pp_data # own[s])
      /\ ~Frees(v) => UNCHANGED <<heap, lost, stray>>
  BY DEF close, pp_shutdown
<1> HIDE DEF w
<1>6. /\ call' \in [Threads -> Call] /\ call'[t].op = "close" /\ call'[t].s = s
      /\ \A u \in Threads \ {t} : call'[u] = call[u]
      /\ calls' \in 0..MaxCalls /\ call[t].op = "none" /\ ~stray
  <2>1. 0 \in Fds
    BY DEF Fds
  <2>2. /\ call' \in [Threads -> Call] /\ call'[t].op = "close" /\ call'[t].s = s
        /\ \A u \in Threads \ {t} : call'[u] = call[u]
    BY <1>1, <1>4, <2>1, CallTypes
  <2> QED BY <1>1, <1>4, <2>2, BeginTypes
<1>7. /\ own' \in [Fds -> Objs \cup {Nil}] /\ own'[s] = Nil /\ \A q \in Fds \ {s} : own'[q] = own[q]
      /\ vfd_tab' \in [Fds -> Entries] /\ \A q \in Fds \ {s} : vfd_tab'[q] = vfd_tab[q]
  BY <1>1, <1>3, <1>4 DEF TypeOK
<1>8. Frees(v) => v.pp_data \in Objs
  BY <1>2 DEF Frees, Entries
<1>9. TypeOK'
  <2>1. heap' \in [Objs -> PPs \cup {Nil}] /\ lost' \subseteq Objs
    BY <1>1, <1>5, <1>8 DEF TypeOK
  <2>2. stray' \in BOOLEAN
    BY <1>1, <1>5 DEF TypeOK
  <2> QED BY <1>1, <1>4, <1>6, <1>7, <2>1, <2>2 DEF TypeOK
<1>10. own[s] # Nil => Frees(v) /\ v.pp_data = own[s]
  BY <1>1 DEF Entry, Frees
<1>11. Frees(v) /\ ~stray' => v.pp_data = own[s] /\ own[s] # Nil
  BY <1>5 DEF Frees
<1>12. \A x \in Objs : ~stray' /\ x # own[s] => heap'[x] = heap[x]
  BY <1>1, <1>5, <1>8, <1>11 DEF TypeOK
<1>13. Distinct'
  BY <1>1, <1>6, <1>7 DEF Distinct
<1>14. Kept'
  <2> SUFFICES ASSUME ~stray', NEW x \in Objs, heap'[x] # Nil, \A q \in Fds : own'[q] # x
               PROVE  x \in lost'
    BY DEF Kept
  <2>1. x # own[s]
    BY <1>1, <1>5, <1>10 DEF TypeOK
  <2>2. x \in lost \/ \E q \in Fds : own[q] = x
    BY <1>1, <1>6, <1>12, <2>1 DEF Kept
  <2>3. x \in lost
    BY <1>7, <2>1, <2>2
  <2> QED BY <1>5, <1>11, <2>1, <2>3
<1>15. Calls'
  <2> SUFFICES ASSUME NEW u \in Threads, call'[u].op # "none" PROVE CallOf(u)'
    BY DEF Calls, CallOf
  <2>1. ktab[s] # 0 /\ \A x \in Threads : call[x].op # "none" => call[x].s \in Fds \ {s}
    BY <1>1, <1>4 DEF Call, Usable, TypeOK
  <2>2. CASE u = t
    BY <1>4, <1>6, <1>7, <2>1, <2>2 DEF CallOf
  <2>3. CASE u # t
    <3>1. call'[u] = call[u] /\ call[u].s \in Fds \ {s}
      BY <1>6, <2>1, <2>3
    <3> QED BY <1>1, <1>4, <1>6, <1>7, <2>1, <2>3, <3>1 DEF Calls, CallOf, KFile
  <2> QED BY <2>2, <2>3
<1>16. Opened'
  BY <1>1, <1>4 DEF Opened
<1>17. ASSUME NEW q \in Fds PROVE Entry(q)' /\ Settled(q)'
  <2>1. CASE q = s
    <3>1. ~Usable(q)'
      BY <1>6, <2>1 DEF Usable
    <3> QED BY <1>7, <2>1, <3>1 DEF Settled, Entry
  <2>2. CASE q # s
    <3>1. SameFile(q)
      BY <1>4 DEF SameFile
    <3>2. Usable(q)' => Usable(q)
      BY <1>4, <1>6, UsableBegins
    <3>3. ~stray' => (own[q] # Nil => heap'[own[q]] = heap[own[q]])
      <4>1. own[q] # Nil => own[q] # own[s] /\ own[q] \in Objs
        BY <1>1, <1>6, <2>2 DEF Distinct, TypeOK
      <4> QED BY <1>12, <4>1
    <3> QED BY <1>1, <1>4, <1>6, <1>7, <2>2, <3>1, <3>2, <3>3, FdFrame
  <2> QED BY <2>1, <2>2
<1> QED BY <1>9, <1>13, <1>14, <1>15, <1>16, <1>17 DEF IInv

-----------------------------------------------------------------------------
(* The second halves *)

(* A second half changes the entry and the state of its own descriptor. *)
LEMMA EndKeeps ==
  ASSUME IInv, NEW t \in Threads, NEW ops, Ends(t, ops), "none" \notin ops,
         NEW s \in Fds, s = call[t].s, UNCHANGED <<ktab, stray>>,
         kfile' \in [Files -> KFiles], vfd_tab' \in [Fds -> Entries], heap' \in [Objs -> PPs \cup {Nil}],
         own' \in [Fds -> Objs \cup {Nil}], lost' \subseteq Objs,
         Opened', Distinct', Kept', Entry(s)', Settled(s)',
         \A q \in Fds \ {s} : /\ vfd_tab'[q] = vfd_tab[q] /\ own'[q] = own[q] /\ SameFile(q)
                              /\ ~stray /\ own[q] # Nil => heap'[own[q]] = heap[own[q]]
  PROVE  IInv'
<1>1. TypeOK /\ Calls /\ \A q \in Fds : Entry(q) /\ Settled(q)
  BY DEF IInv
<1>2. call' = [call EXCEPT ![t] = Idle] /\ UNCHANGED calls /\ call[t].op # "none"
  BY DEF Ends
<1>3. call' \in [Threads -> Call] /\ call'[t].op = "none" /\ \A u \in Threads \ {t} : call'[u] = call[u]
  <2>1. Idle \in Call /\ Idle.op = "none"
    BY DEF Idle, Call, Fds
  <2> QED BY <1>1, <1>2, <2>1 DEF TypeOK
<1>4. TypeOK'
  BY <1>1, <1>2, <1>3, SMTT(40) DEF TypeOK
<1>5. ASSUME NEW u \in Threads, call'[u].op # "none" PROVE CallOf(u)'
  <2>1. u # t /\ call'[u] = call[u]
    BY <1>3, <1>5
  <2>2. call[u].s \in Fds \ {s} /\ ktab[call[u].s] # 0 /\ CallOf(u)
    BY <1>1, <1>2, <1>5, <2>1 DEF Calls, CallOf, TypeOK, Call
  <2>3. SameFile(call[u].s)
    BY <2>2
  <2>4. \A x \in Threads \ {u} : call'[x].op # "none" => call'[x] = call[x] /\ call[x].op # "none"
    BY <1>3
  <2> QED BY <1>5, <2>1, <2>2, <2>3, <2>4, SMTT(40) DEF CallOf, KFile, SameFile
<1>6. Calls'
  BY <1>5 DEF Calls, CallOf
<1>7. ASSUME NEW q \in Fds \ {s} PROVE Entry(q)' /\ Settled(q)'
  <2>1. Usable(q)' => Usable(q)
    BY <1>3, UsableEnds
  <2> QED BY <1>1, <2>1, FdFrame
<1> QED BY <1>4, <1>6, <1>7 DEF IInv

(* What a second half finds. *)
LEMMA EndFinds ==
  ASSUME IInv, NEW t \in Threads, NEW ops, Ends(t, ops), "none" \notin ops
  PROVE  /\ call[t].s \in Fds /\ ktab[call[t].s] \in Files
         /\ CallOf(t) /\ call[t].op # "none" /\ call[t].op \in ops /\ call[t].from \in Fds
         /\ vfd_tab[call[t].s] \in Entries /\ vfd_tab[call[t].from] \in Entries
BY DEF IInv, Calls, CallOf, TypeOK, Call, Ends

(* socket(), open(): the entry is reset. *)
LEMMA OpenEndKeeps ==
  ASSUME IInv, NEW t \in Threads, OpenEnd(t)
  PROVE  IInv'
<1>0. PICK s \in Fds : s = call[t].s
  BY EndFinds DEF OpenEnd
<1> DEFINE w == [vfd_tab_init_one(vfd_tab[s]) EXCEPT !.type = call[t].op]
<1>1. TypeOK /\ Opened /\ Distinct /\ Kept
  BY DEF IInv
<1>2. Ends(t, {"socket", "open"}) /\ UNCHANGED <<ktab, kfile, heap, own, lost, stray>>
  BY DEF OpenEnd
<1>3. /\ ktab[s] \in Files /\ ktab[s] # 0 /\ own[s] = Nil /\ KFile(s).via # s
      /\ call[t].op \in {"socket", "open"} /\ vfd_tab[s] \in Entries
  BY <1>0, <1>2, EndFinds DEF CallOf
<1>4. w \in Entries /\ w.pp_dispatcher = Nil /\ w.in_prog = 0
  BY <1>3 DEF Entries, vfd_tab_init_one
<1>5. vfd_tab' = [vfd_tab EXCEPT ![s] = w]
  BY <1>0, <1>1, <1>3 DEF OpenEnd, TypeOK
<1> HIDE DEF w
<1>6. vfd_tab' \in [Fds -> Entries] /\ vfd_tab'[s] = w /\ \A q \in Fds \ {s} : vfd_tab'[q] = vfd_tab[q]
  BY <1>1, <1>3, <1>4, <1>5 DEF TypeOK
<1>7. Opened' /\ Distinct' /\ Kept'
  BY <1>1, <1>2, HeapFrame DEF Opened
<1>8. kfile'[ktab'[s]].via # s /\ own'[s] = Nil /\ ktab'[s] # 0
  BY <1>2, <1>3 DEF KFile
<1>9. \A q \in Fds : SameFile(q)
  BY <1>2 DEF SameFile
<1>10. Entry(s)' /\ Settled(s)'
  <2>1. Entry(s)'
    BY <1>3, <1>8 DEF Entry
  <2>2. Settled(s)'
    BY <1>3, <1>4, <1>6, <1>8 DEF Settled, KFile
  <2> QED BY <2>1, <2>2
<1> QED BY <1>0, <1>1, <1>2, <1>6, <1>7, <1>9, <1>10, EndKeeps DEF TypeOK

(* accept(): the entry gets the dispatcher of the service, and its state. *)
LEMMA AcceptEndKeeps ==
  ASSUME IInv, NEW t \in Threads, AcceptEnd(t)
  PROVE  IInv'
<1>0. PICK s \in Fds : s = call[t].s
  BY EndFinds DEF AcceptEnd
<1> DEFINE v == [vfd_tab_init_one(vfd_tab[s]) EXCEPT !.type = "socket"]
<1>1. TypeOK /\ Opened /\ Distinct /\ Kept /\ \A q \in Fds : Entry(q)
  BY DEF IInv
<1>2. Ends(t, {"accept"}) /\ UNCHANGED <<ktab, kfile, stray>> /\ pp_init(s, v, KFile(s).svc)
  BY <1>0 DEF AcceptEnd
<1>3. /\ ktab[s] \in Files /\ ktab[s] # 0 /\ KFile(s).kind = "conn" /\ vfd_tab[s] \in Entries
  BY <1>0, <1>2, EndFinds DEF CallOf
<1>4. v \in Entries /\ v.in_prog = 0
  BY <1>3 DEF Entries, vfd_tab_init_one
<1>5. KFile(s).svc \in PPs \cup {Nil}
  BY <1>1, <1>3 DEF KFile, TypeOK, KFiles
<1> HIDE DEF v
<1>6. PICK o \in Objs \cup {Nil}, w \in Entries : Takes(s, w, KFile(s).svc, o) /\ w.in_prog = 0
  BY <1>1, <1>2, <1>4, <1>5, PpInitTakes
<1>7. /\ vfd_tab' \in [Fds -> Entries] /\ heap' \in [Objs -> PPs \cup {Nil}]
      /\ own' \in [Fds -> Objs \cup {Nil}] /\ lost' \subseteq Objs
      /\ vfd_tab'[s] = w /\ own'[s] = o
      /\ \A q \in Fds \ {s} : vfd_tab'[q] = vfd_tab[q] /\ own'[q] = own[q]
  BY <1>1, <1>6, TakesTypes
<1>8. /\ Distinct' /\ Kept' /\ Entry(s)'
      /\ \A q \in Fds \ {s} : ~stray /\ own[q] # Nil => heap'[own[q]] = heap[own[q]]
  <2>1. ktab'[s] # 0 /\ UNCHANGED stray
    BY <1>2, <1>3
  <2> QED BY <1>1, <1>6, <2>1, TakesHeap
<1>9. Settled(s)'
  <2>1. KFile(s)' = KFile(s)
    BY <1>2 DEF KFile
  <2> QED BY <1>3, <1>6, <1>7, <2>1 DEF Settled, Takes
<1>10. Opened' /\ \A q \in Fds : SameFile(q)
  BY <1>1, <1>2 DEF Opened, SameFile
<1>11. kfile' \in [Files -> KFiles]
  BY <1>1, <1>2 DEF TypeOK
<1> QED BY <1>0, <1>2, <1>7, <1>8, <1>9, <1>10, <1>11, EndKeeps

(* dup(): the copy is followed by nobody. *)
LEMMA DupEndKeeps ==
  ASSUME IInv, NEW t \in Threads, dup_vfd(t)
  PROVE  IInv'
<1>0. PICK s \in Fds : s = call[t].s
  BY EndFinds, SMTT(40) DEF dup_vfd
<1> DEFINE w == [vfd_tab_init_one(vfd_tab[call[t].from]) EXCEPT !.type = "dup"]
           f == ktab[s]
           x == [kfile[f] EXCEPT !.via = IF @ = s THEN Nil ELSE @]
<1>1. TypeOK /\ Opened /\ Distinct /\ Kept
  BY DEF IInv
<1>2. /\ Ends(t, {"dup"}) /\ UNCHANGED <<ktab, heap, stray>> /\ own' = [own EXCEPT ![s] = Nil]
      /\ lost' = (lost \cup {own[s]}) \ {Nil}
      /\ vfd_tab' = [vfd_tab EXCEPT ![s] = w]
  BY <1>0 DEF dup_vfd
<1>3. f \in Files /\ f # 0 /\ vfd_tab[call[t].from] \in Entries
  BY <1>0, <1>2, EndFinds DEF CallOf
<1>4. w \in Entries /\ w.pp_dispatcher = Nil /\ w.in_prog = 0
  BY <1>3 DEF Entries, vfd_tab_init_one
<1>5. kfile' = [kfile EXCEPT ![f] = x]
  BY <1>0, <1>1, <1>3 DEF dup_vfd, TypeOK
<1>6. /\ x \in KFiles /\ x.kind = kfile[f].kind /\ x.svc = kfile[f].svc /\ x.failed = kfile[f].failed
      /\ x.via # s /\ \A q \in Fds \ {s} : x.via = q <=> kfile[f].via = q
  BY <1>1, <1>3 DEF TypeOK, KFiles
<1> HIDE DEF w, x
<1>7. kfile' \in [Files -> KFiles] /\ kfile'[f] = x /\ \A g \in Files \ {f} : kfile'[g] = kfile[g]
  BY <1>1, <1>3, <1>5, <1>6 DEF TypeOK
<1>8. /\ vfd_tab' \in [Fds -> Entries] /\ vfd_tab'[s] = w
      /\ \A q \in Fds \ {s} : vfd_tab'[q] = vfd_tab[q] /\ own'[q] = own[q]
      /\ own' \in [Fds -> Objs \cup {Nil}] /\ own'[s] = Nil
  BY <1>1, <1>2, <1>4 DEF TypeOK
<1>9. lost' \subseteq Objs
  BY <1>1, <1>2 DEF TypeOK
<1>10. Distinct'
  BY <1>1, <1>2, <1>8 DEF Distinct
<1>11. Kept'
  BY <1>1, <1>2, <1>8 DEF Kept
<1>12. \A q \in Fds \ {s} : SameFile(q)
  BY <1>1, <1>6, <1>7 DEF SameFile, TypeOK
<1>13. Opened'
  <2>1. ASSUME NEW g \in Files
        PROVE  kfile'[g].kind = kfile[g].kind /\ kfile'[g].svc = kfile[g].svc /\ kfile'[g].failed = kfile[g].failed
    BY <1>6, <1>7
  <2> QED BY <1>1, <1>2, <2>1 DEF Opened
<1>14. KFile(s)'.via # s
  BY <1>2, <1>6, <1>7 DEF KFile
<1>15. Entry(s)'
  BY <1>2, <1>3, <1>8 DEF Entry
<1>16. Settled(s)'
  BY <1>4, <1>8, <1>14 DEF Settled
<1>17. heap' \in [Objs -> PPs \cup {Nil}] /\ \A q \in Fds : ~stray /\ own[q] # Nil => heap'[own[q]] = heap[own[q]]
  BY <1>1, <1>2 DEF TypeOK
<1> QED BY <1>0, <1>2, <1>7, <1>8, <1>9, <1>10, <1>11, <1>12, <1>13, <1>15, <1>16, <1>17, EndKeeps

(* close(): the descriptor goes, and the file with its last one. *)
LEMMA CloseEndKeeps ==
  ASSUME IInv, NEW t \in Threads, CloseEnd(t)
  PROVE  IInv'
<1>0. PICK s \in Fds : s = call[t].s
  BY EndFinds DEF CloseEnd
<1>1. TypeOK /\ Calls /\ Opened /\ Distinct /\ Kept /\ \A q \in Fds : Entry(q) /\ Settled(q)
  BY DEF IInv
<1>2. /\ Ends(t, {"close"}) /\ ktab' = [ktab EXCEPT ![s] = 0] /\ kfile' = Release(s, ktab')
      /\ UNCHANGED <<vfd_tab, heap, own, lost, stray>>
  BY <1>0 DEF CloseEnd
<1>3. own[s] = Nil
  BY <1>0, <1>2, EndFinds DEF CallOf
<1>4. /\ Opened' /\ kfile' \in [Files -> KFiles] /\ ktab' \in [Fds -> Files \cup {0}]
      /\ \A q \in Fds : ktab'[q] # 0 => kfile'[ktab'[q]] = kfile[ktab'[q]]
  BY <1>1, <1>2, ReleaseKeeps
<1>5. ktab'[s] = 0 /\ \A q \in Fds \ {s} : ktab'[q] = ktab[q]
  BY <1>1, <1>2 DEF TypeOK
<1>6. /\ call' = [call EXCEPT ![t] = Idle] /\ UNCHANGED calls /\ call[t].op # "none"
      /\ call' \in [Threads -> Call] /\ call'[t].op = "none" /\ \A u \in Threads \ {t} : call'[u] = call[u]
  <2>1. Idle \in Call /\ Idle.op = "none"
    BY DEF Idle, Call, Fds
  <2> QED BY <1>1, <1>2, <2>1 DEF TypeOK, Ends
<1>7. TypeOK'
  BY <1>1, <1>2, <1>4, <1>6 DEF TypeOK
<1>8. \A q \in Fds \ {s} : SameFile(q)
  BY <1>4, <1>5 DEF SameFile
<1>9. ASSUME NEW u \in Threads, call'[u].op # "none" PROVE CallOf(u)'
  <2>1. u # t /\ call'[u] = call[u]
    BY <1>6, <1>9
  <2>2. call[u].s \in Fds \ {s} /\ ktab[call[u].s] # 0 /\ CallOf(u)
    BY <1>0, <1>1, <1>6, <1>9, <2>1 DEF Calls, CallOf, TypeOK, Call
  <2>3. SameFile(call[u].s) /\ ktab'[call[u].s] = ktab[call[u].s]
    BY <1>5, <1>8, <2>2
  <2>4. \A x \in Threads \ {u} : call'[x].op # "none" => call'[x] = call[x] /\ call[x].op # "none"
    BY <1>6
  <2> QED BY <1>2, <1>9, <2>1, <2>2, <2>3, <2>4 DEF CallOf, KFile, SameFile
<1>10. Calls'
  BY <1>9 DEF Calls, CallOf
<1>11. Distinct' /\ Kept'
  BY <1>1, <1>2, HeapFrame
<1>12. ASSUME NEW q \in Fds PROVE Entry(q)' /\ Settled(q)'
  <2>1. CASE q = s
    <3>1. ~Usable(q)'
      BY <1>5, <2>1 DEF Usable
    <3> QED BY <1>2, <1>3, <2>1, <3>1 DEF Entry, Settled
  <2>2. CASE q # s
    <3>1. Usable(q)' => Usable(q)
      BY <1>0, <1>5, <1>6, <2>2, UsableEnds
    <3> QED BY <1>1, <1>2, <1>5, <1>8, <2>2, <3>1, FdFrame
  <2> QED BY <2>1, <2>2
<1> QED BY <1>4, <1>7, <1>10, <1>11, <1>12 DEF IInv

-----------------------------------------------------------------------------
(* bind(), connect(), select() *)

(* What bind(), connect() and select() do to a descriptor that is open:    *)
(* the file it has, its entry and its state change; other descriptors may  *)
(* have the same file.                                                     *)
Event(t, s, file) ==
  /\ Begins(t) /\ Usable(s) /\ UNCHANGED <<ktab, call, stray>>
  /\ kfile' = [kfile EXCEPT ![ktab[s]] = file]
  /\ file.via = s \/ file = KFile(s)
  /\ KFile(s).kind = "conn" => file.kind = "conn"
  /\ file.kind \notin {"free", "sock"}
  /\ file.kind = "failed" => file.failed

EventTypes ==
  /\ vfd_tab' \in [Fds -> Entries] /\ heap' \in [Objs -> PPs \cup {Nil}]
  /\ own' \in [Fds -> Objs \cup {Nil}] /\ lost' \subseteq Objs

EventOthers(s) ==
  \A q \in Fds \ {s} : /\ vfd_tab'[q] = vfd_tab[q] /\ own'[q] = own[q]
                       /\ ~stray /\ own[q] # Nil => heap'[own[q]] = heap[own[q]]

EventShared(s) == \A q \in Fds \ {s} : Usable(q) /\ ktab[q] = ktab[s] => Settled(q)'

(* Such a call preserves the invariant when it leaves the entry of s, and  *)
(* those that have its file, settled.                                      *)
LEMMA EventKeeps ==
  ASSUME IInv, NEW t \in Threads, NEW s \in Fds, NEW file \in KFiles, Event(t, s, file),
         EventTypes, EventOthers(s), EventShared(s), Distinct', Kept', Entry(s)', Settled(s)'
  PROVE  IInv'
<1> USE DEF Event, EventTypes, EventOthers, EventShared
<1>1. TypeOK /\ Calls /\ Opened /\ \A q \in Fds : Entry(q) /\ Settled(q)
  BY DEF IInv
<1>2. ktab[s] \in Files /\ ktab[s] # 0
  BY <1>1 DEF TypeOK, Usable
<1>3. /\ kfile' \in [Files -> KFiles] /\ kfile'[ktab[s]] = file
      /\ \A g \in Files \ {ktab[s]} : kfile'[g] = kfile[g]
  BY <1>1, <1>2 DEF TypeOK
<1>4. calls' \in 0..MaxCalls
  BY <1>1, BeginTypes
<1>5. TypeOK'
  BY <1>1, <1>3, <1>4 DEF TypeOK
<1>6. ASSUME NEW u \in Threads PROVE CallOf(u)'
  <2> SUFFICES ASSUME call[u].op # "none" PROVE CallOf(u)'
    BY DEF CallOf
  <2>1. call[u].s \in Fds \ {s} /\ ktab[call[u].s] \in Files /\ CallOf(u)
    BY <1>1 DEF Calls, CallOf, TypeOK, Call, Usable
  <2>2. /\ kfile'[ktab[call[u].s]].via = call[u].s => kfile[ktab[call[u].s]].via = call[u].s
        /\ kfile[ktab[call[u].s]].kind = "conn" => kfile'[ktab[call[u].s]].kind = "conn"
    BY <1>3, <2>1 DEF KFile
  <2> QED BY <2>1, <2>2 DEF CallOf, KFile
<1>7. Opened'
  <2> SUFFICES ASSUME NEW g \in Files
               PROVE  /\ kfile'[g].kind # "free" <=> \E q \in Fds : ktab[q] = g
                      /\ kfile'[g].kind = "sock" => kfile'[g].svc = Nil /\ ~kfile'[g].failed
                      /\ kfile'[g].kind = "failed" => kfile'[g].failed
    BY DEF Opened
  <2>1. CASE g = ktab[s]
    BY <1>3, <2>1
  <2>2. CASE g # ktab[s]
    BY <1>1, <1>3, <2>2 DEF Opened
  <2> QED BY <2>1, <2>2
<1>8. ASSUME NEW q \in Fds \ {s} PROVE Entry(q)' /\ Settled(q)'
  <2>1. Usable(q)' <=> Usable(q)
    BY DEF Usable
  <2>2. CASE ktab[q] = ktab[s]
    <3>1. Entry(q)'
      BY <1>1 DEF Entry
    <3>2. Settled(q)'
      BY <2>1, <2>2 DEF Settled
    <3> QED BY <3>1, <3>2
  <2>3. CASE ktab[q] # ktab[s]
    <3>1. SameFile(q)
      BY <1>1, <1>3, <2>3 DEF SameFile, TypeOK
    <3> QED BY <1>1, <2>1, <3>1, FdFrame
  <2> QED BY <2>2, <2>3
<1>9. Calls'
  BY <1>6 DEF Calls
<1> QED BY <1>5, <1>7, <1>8, <1>9 DEF IInv

(* A socket that is bound or connected through s: what was true of the     *)
(* other descriptors it has remains true.                                  *)
LEMMA SharedFile ==
  ASSUME IInv, NEW s \in Fds, NEW q \in Fds \ {s}, Usable(s), Usable(q), ktab[q] = ktab[s],
         NEW file \in KFiles, kfile' = [kfile EXCEPT ![ktab[s]] = file], UNCHANGED ktab,
         vfd_tab'[q] = vfd_tab[q], own'[q] = own[q], file.via = s,
         \/ KFile(s).kind \in {"sock", "failed"} /\ file.kind \in {"conn", "pending"}
         \/ KFile(s).kind = "sock" /\ file.kind = "listen",
         KFile(s).failed => file.failed
  PROVE  Settled(q)'
<1>1. TypeOK /\ Opened /\ Settled(q)
  BY DEF IInv
<1>2. ktab[s] \in Files /\ KFile(q) = KFile(s) /\ KFile(q)' = file
  BY <1>1 DEF TypeOK, Usable, KFile
<1>3. /\ KFile(q).kind = "sock" => KFile(q).svc = Nil /\ ~KFile(q).failed
      /\ KFile(q).kind = "failed" => KFile(q).failed
  BY <1>1, <1>2 DEF Opened, KFile
<1>4. vfd_tab[q].in_prog \in {0, 1}
  BY <1>1 DEF TypeOK, Entries
<1>5. CASE KFile(s).kind = "sock"
  <2>1. own[q] = Nil /\ vfd_tab[q].in_prog = 0 /\ vfd_tab[q].pp_dispatcher = Nil
    BY <1>1, <1>2, <1>3, <1>4, <1>5 DEF Settled
  <2> QED BY <1>2, <2>1 DEF Settled
<1>6. CASE KFile(s).kind = "failed"
  <2>1. file.failed /\ file.kind \in {"conn", "pending"} /\ file.via # q
    BY <1>2, <1>3, <1>6
  <2> QED BY <1>2, <2>1 DEF Settled
<1> QED BY <1>5, <1>6

(* bind() gives the dispatcher of the service, without a state. *)
LEMMA BindKeeps ==
  ASSUME IInv, NEW t \in Threads, NEW s \in Fds, NEW svc \in Servers \cup {Nil}, bind(t, s, svc)
  PROVE  IInv'
<1> DEFINE file == File("listen", svc, s)
           w == [vfd_tab[s] EXCEPT !.pp_dispatcher = svc]
<1>1. TypeOK /\ Opened /\ Distinct /\ Kept /\ Entry(s) /\ Settled(s)
  BY DEF IInv
<1>2. /\ Begins(t) /\ Usable(s) /\ KFile(s).kind = "sock" /\ kfile' = [kfile EXCEPT ![ktab[s]] = file]
      /\ UNCHANGED <<ktab, heap, call, own, lost, stray>>
  BY DEF bind
<1>3. vfd_tab' = [vfd_tab EXCEPT ![s] = w]
  BY <1>1 DEF bind, TypeOK
<1>4. ktab[s] \in Files /\ ktab[s] # 0 /\ vfd_tab[s] \in Entries /\ vfd_tab[s].in_prog \in {0, 1}
  BY <1>1, <1>2 DEF TypeOK, Usable, Entries
<1>5. svc \in PPs \cup {Nil}
  BY DEF PPs
<1>6. file \in KFiles /\ file.kind = "listen" /\ file.svc = svc /\ file.via = s
  BY <1>5 DEF File, KFiles, Kinds
<1>7. w \in Entries /\ w.in_prog = vfd_tab[s].in_prog /\ w.pp_dispatcher = svc
  BY <1>4, <1>5 DEF Entries
<1> HIDE DEF file, w
<1>8. vfd_tab' \in [Fds -> Entries] /\ vfd_tab'[s] = w /\ \A q \in Fds \ {s} : vfd_tab'[q] = vfd_tab[q]
  BY <1>1, <1>3, <1>7 DEF TypeOK
<1>9. Distinct' /\ Kept'
  BY <1>1, <1>2, HeapFrame
<1>10. own[s] = Nil /\ vfd_tab[s].in_prog = 0 /\ ~KFile(s).failed
  BY <1>1, <1>2, <1>4 DEF Settled, Opened, KFile
<1>11. Entry(s)'
  BY <1>2, <1>4, <1>10 DEF Entry
<1>12. KFile(s)' = file
  BY <1>1, <1>2, <1>4 DEF KFile, TypeOK
<1>13. Settled(s)'
  BY <1>2, <1>6, <1>7, <1>8, <1>10, <1>12 DEF Settled
<1>14. \A q \in Fds \ {s} : Usable(q) /\ ktab[q] = ktab[s] => Settled(q)'
  BY <1>2, <1>6, <1>8, <1>10, SharedFile
<1>15. heap' \in [Objs -> PPs \cup {Nil}] /\ own' \in [Fds -> Objs \cup {Nil}] /\ lost' \subseteq Objs
  BY <1>1, <1>2 DEF TypeOK
<1>16. Event(t, s, file)
  BY <1>2, <1>6 DEF Event
<1>17. EventTypes
  BY <1>8, <1>15 DEF EventTypes
<1>18. EventOthers(s) /\ EventShared(s)
  BY <1>2, <1>8, <1>14 DEF EventOthers, EventShared
<1> QED BY <1>6, <1>9, <1>11, <1>13, <1>16, <1>17, <1>18, EventKeeps

(* connect() that does not succeed at once leaves a note in the entry. *)
LEMMA InProgressKeeps ==
  ASSUME IInv, NEW t \in Threads, NEW s \in Fds, NEW svc \in Clients \cup {Nil},
         connect_in_progress(t, s, svc)
  PROVE  IInv'
<1> DEFINE file == [KFile(s) EXCEPT !.kind = "pending", !.svc = svc, !.via = s]
           w == [vfd_tab[s] EXCEPT !.in_prog = 1]
<1>1. TypeOK /\ Opened /\ Distinct /\ Kept /\ Entry(s) /\ Settled(s)
  BY DEF IInv
<1>2. /\ Begins(t) /\ Usable(s) /\ KFile(s).kind \in {"sock", "failed"}
      /\ UNCHANGED <<ktab, heap, call, own, lost, stray>>
  BY DEF connect_in_progress
<1>3. ktab[s] \in Files /\ ktab[s] # 0 /\ vfd_tab[s] \in Entries /\ KFile(s) \in KFiles
  BY <1>1, <1>2 DEF TypeOK, Usable, KFile
<1>4. vfd_tab' = [vfd_tab EXCEPT ![s] = w] /\ kfile' = [kfile EXCEPT ![ktab[s]] = file]
  BY <1>1, <1>3 DEF connect_in_progress, TypeOK, KFile
<1>5. svc \in PPs \cup {Nil}
  BY DEF PPs
<1>6. file \in KFiles /\ file.kind = "pending" /\ file.svc = svc /\ file.via = s /\ file.failed = KFile(s).failed
  BY <1>3, <1>5 DEF KFiles, Kinds
<1>7. /\ w \in Entries /\ w.in_prog = 1 /\ w.pp_dispatcher = vfd_tab[s].pp_dispatcher
      /\ w.pp_data = vfd_tab[s].pp_data
  BY <1>3 DEF Entries
<1> HIDE DEF file, w
<1>8. vfd_tab' \in [Fds -> Entries] /\ vfd_tab'[s] = w /\ \A q \in Fds \ {s} : vfd_tab'[q] = vfd_tab[q]
  BY <1>1, <1>4, <1>7 DEF TypeOK
<1>9. Distinct' /\ Kept'
  BY <1>1, <1>2, HeapFrame
<1>10. Entry(s)'
  BY <1>1, <1>2, <1>7, <1>8 DEF Entry
<1>11. KFile(s)' = file
  BY <1>1, <1>2, <1>3, <1>4 DEF KFile, TypeOK
<1>12. Settled(s)'
  BY <1>6, <1>7, <1>8, <1>11 DEF Settled
<1>13. \A q \in Fds \ {s} : Usable(q) /\ ktab[q] = ktab[s] => Settled(q)'
  BY <1>2, <1>4, <1>6, <1>8, SharedFile, ZenonT(60)
<1>14. heap' \in [Objs -> PPs \cup {Nil}] /\ own' \in [Fds -> Objs \cup {Nil}] /\ lost' \subseteq Objs
  BY <1>1, <1>2 DEF TypeOK
<1>15. Event(t, s, file)
  BY <1>2, <1>4, <1>6 DEF Event
<1>16. EventTypes
  BY <1>8, <1>14 DEF EventTypes
<1>17. EventOthers(s) /\ EventShared(s)
  BY <1>2, <1>8, <1>13 DEF EventOthers, EventShared
<1> QED BY <1>6, <1>9, <1>10, <1>12, <1>15, <1>16, <1>17, EventKeeps

(* What connect_event() does to the entry of s. *)
LEMMA ConnectEvent ==
  ASSUME IInv, NEW s \in Fds, NEW file \in KFiles, connect_event(s, file), UNCHANGED <<ktab, stray>>, ktab[s] # 0
  PROVE  \E pp \in PPs \cup {Nil}, o \in Objs \cup {Nil}, w \in Entries :
           /\ Takes(s, w, pp, o) /\ w.in_prog = 0 /\ (file.kind = "conn" => pp = file.svc)
           /\ vfd_tab'[s] = w /\ own'[s] = o /\ Distinct' /\ Kept' /\ Entry(s)'
           /\ EventTypes /\ EventOthers(s)
<1> DEFINE v == [vfd_tab[s] EXCEPT !.in_prog = 0]
<1>1. TypeOK /\ Distinct /\ Kept /\ \A q \in Fds : Entry(q)
  BY DEF IInv
<1>2. v \in Entries /\ v.in_prog = 0
  BY <1>1 DEF TypeOK, Entries
<1>3. PICK pp \in IF file.kind = "conn" THEN {file.svc} ELSE Clients \cup {Nil} : pp_init(s, v, pp)
  BY DEF connect_event
<1>4. pp \in PPs \cup {Nil} /\ (file.kind = "conn" => pp = file.svc)
  BY <1>3 DEF PPs, KFiles
<1> HIDE DEF v
<1>5. PICK o \in Objs \cup {Nil}, w \in Entries : Takes(s, w, pp, o) /\ w.in_prog = 0
  BY <1>1, <1>2, <1>3, <1>4, PpInitTakes
<1>6. /\ vfd_tab' \in [Fds -> Entries] /\ heap' \in [Objs -> PPs \cup {Nil}]
      /\ own' \in [Fds -> Objs \cup {Nil}] /\ lost' \subseteq Objs
      /\ vfd_tab'[s] = w /\ own'[s] = o
      /\ \A q \in Fds \ {s} : vfd_tab'[q] = vfd_tab[q] /\ own'[q] = own[q]
  BY <1>1, <1>5, TakesTypes
<1>7. /\ Distinct' /\ Kept' /\ Entry(s)'
      /\ \A q \in Fds \ {s} : ~stray /\ own[q] # Nil => heap'[own[q]] = heap[own[q]]
  BY <1>1, <1>5, TakesHeap
<1>8. EventTypes /\ EventOthers(s)
  BY <1>6, <1>7 DEF EventTypes, EventOthers
<1> QED BY <1>4, <1>5, <1>6, <1>7, <1>8

(* connect() that succeeds at once. *)
LEMMA ConnectKeeps ==
  ASSUME IInv, NEW t \in Threads, NEW s \in Fds, NEW svc \in Clients \cup {Nil}, connect(t, s, svc)
  PROVE  IInv'
<1> DEFINE file == [KFile(s) EXCEPT !.kind = "conn", !.svc = svc, !.via = s]
<1>1. TypeOK /\ Opened
  BY DEF IInv
<1>2. /\ Begins(t) /\ Usable(s) /\ KFile(s).kind \in {"sock", "failed"}
      /\ kfile' = [kfile EXCEPT ![ktab[s]] = file] /\ connect_event(s, file)
      /\ UNCHANGED <<ktab, call, stray>>
  BY DEF connect
<1>3. ktab[s] \in Files /\ ktab[s] # 0 /\ KFile(s) \in KFiles
  BY <1>1, <1>2 DEF TypeOK, Usable, KFile
<1>4. file \in KFiles /\ file.kind = "conn" /\ file.svc = svc /\ file.via = s /\ file.failed = KFile(s).failed
  BY <1>3 DEF KFiles, Kinds, PPs
<1> HIDE DEF file
<1>5. PICK pp \in PPs \cup {Nil}, o \in Objs \cup {Nil}, w \in Entries :
           /\ Takes(s, w, pp, o) /\ w.in_prog = 0 /\ (file.kind = "conn" => pp = file.svc)
           /\ vfd_tab'[s] = w /\ own'[s] = o /\ Distinct' /\ Kept' /\ Entry(s)'
           /\ EventTypes /\ EventOthers(s)
  BY <1>2, <1>3, <1>4, ConnectEvent
<1>6. KFile(s)' = file
  BY <1>1, <1>2, <1>3 DEF KFile, TypeOK
<1>7. Settled(s)'
  BY <1>4, <1>5, <1>6 DEF Settled, Takes
<1>8. \A q \in Fds \ {s} : Usable(q) /\ ktab[q] = ktab[s] => Settled(q)'
  <2>1. \A q \in Fds \ {s} : vfd_tab'[q] = vfd_tab[q] /\ own'[q] = own[q]
    BY <1>5 DEF EventOthers
  <2> QED BY <1>2, <1>4, <2>1, SharedFile, ZenonT(60)
<1>9. Event(t, s, file)
  BY <1>2, <1>4 DEF Event
<1>10. EventShared(s)
  BY <1>8 DEF EventShared
<1> QED BY <1>4, <1>5, <1>7, <1>9, <1>10, EventKeeps

(* select() reports the end of a connect(). *)
LEMMA SelectKeeps ==
  ASSUME IInv, NEW t \in Threads, NEW s \in Fds, select(t, s)
  PROVE  IInv'
<1>1. TypeOK /\ Opened /\ \A q \in Fds : Settled(q)
  BY DEF IInv
<1>2. /\ Begins(t) /\ Usable(s) /\ KFile(s).kind # "pending" /\ vfd_tab[s].in_prog = 1
      /\ connect_event(s, KFile(s)) /\ UNCHANGED <<ktab, kfile, call, stray>>
  BY DEF select
<1>3. ktab[s] \in Files /\ ktab[s] # 0 /\ KFile(s) \in KFiles /\ kfile' = [kfile EXCEPT ![ktab[s]] = KFile(s)]
  BY <1>1, <1>2 DEF TypeOK, Usable, KFile
<1>4. KFile(s).kind \in {"failed", "conn"} /\ (KFile(s).kind = "failed" => KFile(s).failed)
  BY <1>1, <1>2, <1>3 DEF Settled, Opened, KFile
<1>5. PICK pp \in PPs \cup {Nil}, o \in Objs \cup {Nil}, w \in Entries :
           /\ Takes(s, w, pp, o) /\ w.in_prog = 0 /\ (KFile(s).kind = "conn" => pp = KFile(s).svc)
           /\ vfd_tab'[s] = w /\ own'[s] = o /\ Distinct' /\ Kept' /\ Entry(s)'
           /\ EventTypes /\ EventOthers(s)
  BY <1>2, <1>3, ConnectEvent
<1>6. \A q \in Fds : KFile(q)' = KFile(q)
  BY <1>2 DEF KFile
<1>7. Settled(s)'
  BY <1>4, <1>5, <1>6 DEF Settled, Takes
<1>8. EventShared(s)
  BY <1>1, <1>2, <1>5, <1>6 DEF EventShared, EventOthers, Settled, Usable
<1>9. PICK file \in KFiles : file = KFile(s)
  BY <1>3
<1>10. Event(t, s, file)
  BY <1>2, <1>3, <1>4, <1>9 DEF Event
<1> QED BY <1>5, <1>7, <1>8, <1>10, EventKeeps

(* The kernel ends a connect() that was in progress. *)
LEMMA ConnectedKeeps ==
  ASSUME IInv, NEW f \in Files, NEW kind \in {"conn", "failed"}, Connected(f, kind)
  PROVE  IInv'
<1> DEFINE x == [kfile[f] EXCEPT !.kind = kind, !.failed = @ \/ kind = "failed"]
<1>1. TypeOK /\ Calls /\ Opened /\ Distinct /\ Kept /\ \A q \in Fds : Entry(q) /\ Settled(q)
  BY DEF IInv
<1>2. kfile[f].kind = "pending" /\ UNCHANGED <<ktab, vfd_tab, heap, call, calls, own, lost, stray>>
  BY DEF Connected
<1>3. kfile' \in [Files -> KFiles] /\ \A g \in Files \ {f} : kfile'[g] = kfile[g]
  <2>1. kfile[f].failed \in BOOLEAN
    BY <1>1 DEF TypeOK, KFiles
  <2>2. x \in KFiles
    <3>1. (kfile[f].failed \/ kind = "failed") \in BOOLEAN
      BY <2>1
    <3> DEFINE b == kfile[f].failed \/ kind = "failed"
    <3>2. x = [kfile[f] EXCEPT !.kind = kind, !.failed = b]
      BY <1>1 DEF TypeOK, KFiles
    <3> HIDE DEF x, b
    <3>3. b \in BOOLEAN
      BY <3>1 DEF b
    <3>4. kfile[f] \in KFiles /\ kind \in Kinds
      BY <1>1 DEF TypeOK, Kinds
    <3> QED BY <3>2, <3>3, <3>4 DEF KFiles
  <2>3. kfile' = [kfile EXCEPT ![f] = x]
    BY <1>1 DEF Connected, TypeOK, KFiles
  <2> HIDE DEF x
  <2> QED BY <1>1, <2>2, <2>3 DEF TypeOK
<1>4. /\ kfile'[f].kind = kind /\ kfile'[f].svc = kfile[f].svc /\ kfile'[f].via = kfile[f].via
      /\ kfile[f].failed => kfile'[f].failed
      /\ kind = "failed" => kfile'[f].failed
  BY <1>1 DEF Connected, TypeOK, KFiles
<1>5. TypeOK'
  BY <1>1, <1>2, <1>3 DEF TypeOK
<1>6. Opened'
  <2> SUFFICES ASSUME NEW g \in Files
               PROVE  /\ kfile'[g].kind # "free" <=> \E q \in Fds : ktab[q] = g
                      /\ kfile'[g].kind = "sock" => kfile'[g].svc = Nil /\ ~kfile'[g].failed
                      /\ kfile'[g].kind = "failed" => kfile'[g].failed
    BY <1>2 DEF Opened
  <2>1. CASE g = f
    BY <1>1, <1>2, <1>4, <2>1 DEF Opened
  <2>2. CASE g # f
    BY <1>1, <1>3, <2>2 DEF Opened
  <2> QED BY <2>1, <2>2
<1>7. ASSUME NEW u \in Threads PROVE CallOf(u)'
  <2> SUFFICES ASSUME call[u].op # "none" PROVE CallOf(u)'
    BY <1>2 DEF CallOf
  <2>1. call[u].s \in Fds /\ ktab[call[u].s] \in Files /\ CallOf(u)
    BY <1>1 DEF Calls, CallOf, TypeOK, Call
  <2>2. /\ kfile'[ktab[call[u].s]].via = kfile[ktab[call[u].s]].via
        /\ kfile[ktab[call[u].s]].kind = "conn" => kfile'[ktab[call[u].s]].kind = "conn"
    BY <1>2, <1>3, <1>4, <2>1
  <2> QED BY <1>2, <2>1, <2>2 DEF CallOf, KFile
<1>8. Distinct' /\ Kept'
  BY <1>1, <1>2, HeapFrame
<1>9. ASSUME NEW q \in Fds PROVE Entry(q)' /\ Settled(q)'
  <2>1. Usable(q)' <=> Usable(q)
    BY <1>2 DEF Usable
  <2>2. CASE ktab[q] = f
    <3>1. KFile(q) = kfile[f] /\ KFile(q)' = kfile'[f]
      BY <1>2, <2>2 DEF KFile
    <3>2. Settled(q)'
      BY <1>1, <1>2, <1>4, <2>1, <3>1 DEF Settled
    <3> QED BY <1>1, <1>2, <3>2 DEF Entry
  <2>3. CASE ktab[q] # f
    <3>1. SameFile(q)
      BY <1>1, <1>3, <2>3 DEF SameFile, TypeOK
    <3> QED BY <1>1, <1>2, <2>1, <3>1, FdFrame
  <2> QED BY <2>2, <2>3
<1>10. Calls'
  BY <1>7 DEF Calls
<1> QED BY <1>5, <1>6, <1>8, <1>9, <1>10 DEF IInv

-----------------------------------------------------------------------------
(* Theorems *)

(* The invariant holds at first. *)
LEMMA InitInv == Init => IInv
<1> SUFFICES ASSUME Init PROVE IInv
  OBVIOUS
<1>1. PICK pp \in Servers \cup {Nil} :
        /\ kfile = [f \in Files |-> IF f # 1 THEN NoFile
                                    ELSE File(IF pp = Nil THEN "file" ELSE "listen", pp, 0)]
        /\ vfd_tab = [s \in Fds |-> IF s # 0 THEN ZeroEntry ELSE [ZeroEntry EXCEPT !.pp_dispatcher = pp]]
  BY DEF Init
<1>2. /\ ktab = [s \in Fds |-> IF s = 0 THEN 1 ELSE 0] /\ heap = [o \in Objs |-> Nil]
      /\ call = [t \in Threads |-> Idle] /\ calls = 0 /\ own = [s \in Fds |-> Nil] /\ lost = {}
  BY DEF Init
<1>3. stray \in BOOLEAN
  BY DEF Init
<1>4. 0 \in Fds /\ 1 \in Files /\ 0 \notin Files /\ pp \in PPs \cup {Nil}
  BY DEF Fds, Files, PPs
<1>5. /\ NoFile \in KFiles /\ NoFile.kind = "free"
      /\ File(IF pp = Nil THEN "file" ELSE "listen", pp, 0) \in KFiles
  BY <1>4 DEF NoFile, File, KFiles, Kinds
<1>6. kfile \in [Files -> KFiles] /\ \A f \in Files : f # 1 => kfile[f].kind = "free"
  BY <1>1, <1>5
<1>7. /\ kfile[1].kind \in {"file", "listen"} /\ kfile[1].svc = pp
  BY <1>1, <1>4 DEF File
<1>8. vfd_tab \in [Fds -> Entries] /\ vfd_tab[0].pp_dispatcher = pp /\ vfd_tab[0].in_prog = 0
  <2>1. ZeroEntry \in Entries /\ [ZeroEntry EXCEPT !.pp_dispatcher = pp] \in Entries
    BY <1>4 DEF ZeroEntry, Entries
  <2>2. [ZeroEntry EXCEPT !.pp_dispatcher = pp].in_prog = 0 /\ [ZeroEntry EXCEPT !.pp_dispatcher = pp].pp_dispatcher = pp
    BY DEF ZeroEntry
  <2> QED BY <1>1, <1>4, <2>1, <2>2
<1>9. call \in [Threads -> Call] /\ \A t \in Threads : call[t].op = "none"
  <2>1. Idle \in Call /\ Idle.op = "none"
    BY <1>4 DEF Idle, Call
  <2> QED BY <1>2, <2>1
<1>10. TypeOK
  <2>1. ktab \in [Fds -> Files \cup {0}] /\ heap \in [Objs -> PPs \cup {Nil}] /\ own \in [Fds -> Objs \cup {Nil}]
        /\ lost \subseteq Objs /\ calls \in 0..MaxCalls
    BY <1>2, <1>4
  <2> QED BY <1>3, <1>6, <1>8, <1>9, <2>1 DEF TypeOK
<1>11. Calls
  BY <1>9 DEF Calls, CallOf
<1>12. Opened
  <2>1. \A f \in Files : kfile[f].kind # "free" <=> f = 1
    BY <1>6, <1>7
  <2>2. \A f \in Files : (\E s \in Fds : ktab[s] = f) <=> f = 1
    BY <1>2, <1>4
  <2>3. \A f \in Files : kfile[f].kind # "sock" /\ kfile[f].kind # "failed"
    BY <1>6, <1>7
  <2> QED BY <2>1, <2>2, <2>3 DEF Opened
<1>13. Distinct /\ Kept
  BY <1>2 DEF Distinct, Kept
<1>14. ASSUME NEW s \in Fds PROVE Entry(s) /\ Settled(s)
  <2>1. Entry(s)
    BY <1>2 DEF Entry
  <2>2. Usable(s) => s = 0 /\ KFile(s) = kfile[1]
    BY <1>2 DEF Usable, KFile
  <2> QED BY <1>2, <1>7, <1>8, <2>1, <2>2 DEF Settled
<1> QED BY <1>10, <1>11, <1>12, <1>13, <1>14 DEF IInv

(* Every step keeps it. *)
LEMMA StepInv == IInv /\ [Next]_vars => IInv'
<1> SUFFICES ASSUME IInv, [Next]_vars PROVE IInv'
  OBVIOUS
<1>1. TypeOK
  BY DEF IInv
<1>2. ASSUME NEW t \in Threads, socket(t) \/ open(t) PROVE IInv'
  <2>1. ASSUME NEW kind \in {"sock", "file"}
        PROVE  /\ File(kind, Nil, Nil) \in KFiles /\ File(kind, Nil, Nil).kind = kind
               /\ File(kind, Nil, Nil).svc = Nil /\ File(kind, Nil, Nil).via = Nil
               /\ ~File(kind, Nil, Nil).failed
    BY DEF File, KFiles, Kinds
  <2>2. 0 \in Fds
    BY DEF Fds
  <2>3. CASE socket(t)
    BY <2>1, <2>2, <2>3, OpensKeeps DEF socket
  <2>4. CASE open(t)
    BY <2>1, <2>2, <2>4, OpensKeeps DEF open
  <2> QED BY <1>2, <2>3, <2>4
<1>3. ASSUME NEW t \in Threads, NEW s \in Fds, accept(t, s) PROVE IInv'
  <2> DEFINE file == File("conn", KFile(s).svc, NewFd)
  <2>1. Usable(s) /\ Opens(t, file, "accept", s)
    BY <1>3 DEF accept
  <2>2. NewFd \in Fds
    BY <2>1, NewFdFree DEF Opens, FreeFds
  <2>3. KFile(s).svc \in PPs \cup {Nil}
    BY <1>1, <2>1 DEF Usable, KFile, TypeOK, KFiles
  <2>4. file \in KFiles /\ file.kind = "conn"
    BY <2>2, <2>3 DEF File, KFiles, Kinds
  <2> HIDE DEF file
  <2> QED BY <2>1, <2>4, OpensKeeps
<1>4. ASSUME NEW t \in Threads, NEW s \in Fds, dup(t, s) PROVE IInv'
  <2>1. PICK d \in Fds : d = NewFd /\ ktab[d] = 0
    BY <1>4, NewFdFree DEF dup, FreeFds
  <2>2. /\ Begins(t) /\ Usable(s) /\ ktab' = [ktab EXCEPT ![d] = ktab[s]] /\ kfile' = kfile
        /\ call' = [call EXCEPT ![t] = [op |-> "dup", s |-> d, from |-> s]]
        /\ UNCHANGED <<vfd_tab, heap, own, lost, stray>>
    BY <1>4, <2>1 DEF dup
  <2>3. kfile' = Release(d, ktab')
    BY <2>1, <2>2 DEF Release
  <2> QED BY <2>1, <2>2, <2>3, DupKeeps
<1>5. ASSUME NEW t \in Threads, NEW s \in Fds, NEW d \in Fds, dup2(t, s, d) PROVE IInv'
  BY <1>5, DupKeeps DEF dup2
<1>6. CASE UNCHANGED vars
  <2>1. Calls' /\ Opened' /\ Distinct' /\ Kept' /\ TypeOK'
    BY <1>6 DEF vars, IInv, Calls, CallOf, KFile, Opened, Distinct, Kept, TypeOK
  <2>2. \A s \in Fds : Entry(s)' /\ Settled(s)'
    BY <1>6 DEF vars, IInv, Entry, Settled, Usable, KFile
  <2> QED BY <2>1, <2>2 DEF IInv
<1>7. ASSUME NEW t \in Threads, Thread(t) PROVE IInv'
  BY <1>2, <1>3, <1>4, <1>5, <1>7, OpenEndKeeps, AcceptEndKeeps, DupEndKeeps, CloseEndKeeps,
     SelectKeeps, CloseKeeps, BindKeeps, ConnectKeeps, InProgressKeeps DEF Thread
<1>8. ASSUME NEW f \in Files, NEW kind \in {"conn", "failed"}, Connected(f, kind) PROVE IInv'
  BY <1>8, ConnectedKeeps
<1> QED BY <1>6, <1>7, <1>8 DEF Next

(* The invariant holds in every state. *)
LEMMA Invariance == Spec => []IInv
BY InitInv, StepInv, PTL DEF Spec

(* The tables of the library and of the kernel keep their types. *)
THEOREM TypeCorrect == Spec => []TypeOK
<1>1. IInv => TypeOK
  BY DEF IInv
<1> QED BY <1>1, Invariance, PTL

(* A PP works on a live state that is its own and no other descriptor's,   *)
(* through every order of dup(), dup2(), close() and reuse by any number   *)
(* of threads.                                                             *)
THEOREM StateIsOwn == Spec => []OwnState
<1>1. IInv => OwnState
  <2> SUFFICES ASSUME IInv, ~stray, NEW s \in Fds, own[s] # Nil
               PROVE  /\ vfd_tab[s].pp_data = own[s] /\ heap[own[s]] # Nil
                      /\ \A q \in Fds \ {s} : own[q] # own[s]
    BY DEF OwnState
  <2> QED BY DEF IInv, Entry, Distinct
<1> QED BY <1>1, Invariance, PTL

(* A connection is followed by the PP of its service on the descriptor     *)
(* that made it.                                                           *)
THEOREM ConnectionsFollowed == Spec => []Followed
<1>1. IInv => Followed
  BY DEF IInv, Entry, Settled, Followed
<1> QED BY <1>1, Invariance, PTL

(* No PP is shown the bytes of another service. *)
THEOREM NoneMisfollowed == Spec => []NotMisfollowed
<1>1. IInv => NotMisfollowed
  BY DEF IInv, Settled, NotMisfollowed
<1> QED BY <1>1, Invariance, PTL

(* Every state that is allocated belongs to an open descriptor, or was     *)
(* forgotten by dup2() or a second connect().                              *)
THEOREM StateAccounted == Spec => []Accounted
<1>1. IInv => Accounted
  <2> SUFFICES ASSUME IInv, ~stray, NEW o \in Objs, heap[o] # Nil, o \notin lost
               PROVE  \E s \in Fds : own[s] = o /\ ktab[s] # 0
    BY DEF Accounted
  <2>1. PICK s \in Fds : own[s] = o
    BY DEF IInv, Kept
  <2> QED BY <2>1 DEF IInv, Entry
<1> QED BY <1>1, Invariance, PTL
=============================================================================
