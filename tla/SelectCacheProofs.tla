------------------------- MODULE SelectCacheProofs --------------------------
(***************************************************************************)
(* Proofs about SelectCache, for every number of threads and descriptors   *)
(* and whatever events each select() asks for.                             *)
(*                                                                         *)
(* A thread disturbs only the bits, the buffers and the kernel's events of *)
(* its own descriptors, unless an unlocked FD_CLR has raced; what holds of *)
(* a thread and a descriptor it serves (Wake, Real) is therefore a matter  *)
(* of that thread's steps alone.                                           *)
(***************************************************************************)
EXTENDS SelectCache, WellFoundedInduction, TLAPS

-----------------------------------------------------------------------------
(* The inductive invariant *)

(* Where a thread can be with what.  Events it asked for and bits it sets  *)
(* or clears are of its own descriptors; it may report an event of another *)
(* thread's descriptor, but it is told of its own ones only.               *)
Local(t) ==
  /\ \A e \in th[t].asked \cup th[t].toset \cup th[t].toclr : e[1] \in Own[t]
  /\ th[t].toset # {} => th[t].pc \in {"update", "bits"} /\ th[t].toclr = {}
  /\ th[t].toclr # {} => th[t].pc = "bits"
  /\ th[t].pc = "clr" => th[t].ev \in th[t].asked
  /\ th[t].pc \in {"connect", "ident"} =>
       th[t].ev \in Events /\ th[t].ev[1] \in conn /\ t \notin inits[th[t].ev[1]]
  /\ th[t].pc = "ident" => th[t].ev[1] \notin in_prog
  /\ th[t].pc = "told" =>
       th[t].ev \in Events /\ th[t].ev[1] \in Own[t] /\ th[t].ev[1] \notin in_prog

(* Only followed descriptors have bytes in a buffer, and the bit of one    *)
(* that has some is not about to be cleared.                               *)
Bytes(t, f) ==
  buf[f] > 0 => Followed(f) /\ <<f, VFD_SEL_READ>> \notin th[t].toclr

(* NoLostWakeup for one descriptor.  A thread that is about to report an   *)
(* event may forget it on the way, if it did not ask for it; then the bit  *)
(* is still there.                                                         *)
Wake(t, f) ==
  LET r == <<f, VFD_SEL_READ>>
  IN  buf[f] > 0 =>
        /\ ~(th[t].pc \in {"insel", "update"} /\ r \in th[t].asked)
        /\ \/ f \in vsel_data[VFD_SEL_READ] \/ r \in th[t].toset
           \/ th[t].pc \in {"clr", "report", "connect", "ident"} /\ th[t].ev = r /\ r \in th[t].asked
           \/ th[t].pc = "told" /\ th[t].ev = r

ReadyAt(f, k) == <<f, k>> \in kready \/ (k = VFD_SEL_READ /\ buf[f] > 0)

(* ReadyIsReal for one event: it is there also when the thread still has   *)
(* to set the bit, or is on its way to report it.                          *)
Real(t, f, k) ==
  /\ f \notin Shared
  /\ \/ f \in vsel_data[k] /\ <<f, k>> \notin th[t].toclr
     \/ <<f, k>> \in th[t].toset
     \/ th[t].pc \in {"clr", "report", "connect", "ident", "told"} /\ th[t].ev = <<f, k>>
  => ReadyAt(f, k)

Good(t) ==
  /\ Local(t)
  /\ \A f \in Own[t] : Bytes(t, f)
  /\ ~raced => \A f \in Own[t] : Wake(t, f) /\ \A k \in Kinds : Real(t, f, k)

(* A connection nobody sees as in progress any more has its processor, or  *)
(* a thread is at it; before that nobody has set it up.                    *)
Seen(f) ==
  /\ f \in in_prog => f \in conn
  /\ f \notin conn \/ f \in in_prog => inits[f] = {}
  /\ f \in conn /\ f \notin in_prog =>
       inits[f] # {} \/ \E u \in Threads : th[u].pc = "ident" /\ th[u].ev[1] = f

IInv == TypeOK /\ (\A t \in Threads : Good(t)) /\ (\A f \in Fds : Seen(f))

-----------------------------------------------------------------------------
(* Events and their order *)

(* The descriptors of a thread are its own. *)
LEMMA OwnFds ==
  /\ \A t \in Threads : Own[t] \subseteq Fds
  /\ \A t, u \in Threads : t # u => \A f \in Own[t] : f \notin Own[u]
<1>1. \A t \in Threads : Own[t] \subseteq Fds
  BY DEF Fds
<1>2. \A t, u \in Threads : t # u => \A f \in Own[t] : f \notin Own[u]
  BY OwnAssumption
<1> QED BY <1>1, <1>2

LEMMA EventPair ==
  /\ \A f \in Fds, k \in Kinds : <<f, k>> \in Events
  /\ \A e \in Events : e[1] \in Fds /\ e[2] \in Kinds /\ e = <<e[1], e[2]>>
  /\ VFD_SEL_READ \in Kinds /\ VFD_SEL_WRITE \in Kinds /\ VFD_SEL_READ # VFD_SEL_WRITE
BY DEF Events, Kinds, VFD_SEL_READ, VFD_SEL_WRITE

(* The scan of the cache finds an event if there is one. *)
LEMMA FirstIn ==
  ASSUME NEW S \in SUBSET Events, S # {}
  PROVE  First(S) \in S
<1> DEFINE R == OpToRel(<, Nat)
           P == {e[1] : e \in S}
<1>1. P \in SUBSET Nat /\ P # {}
  BY OwnAssumption, EventPair
<1>2. IsWellFoundedOn(R, Nat)
  BY NatLessThanWellFounded
<1>3. \A x, y \in Nat : <<y, x>> \in R <=> y < x
  BY DEF OpToRel
<1> HIDE DEF R, P
<1>4. PICK x \in P : \A y \in P : ~(<<y, x>> \in R)
  BY <1>1, <1>2, WFMin
<1>5. ASSUME NEW y \in P PROVE x \in Nat /\ y \in Nat /\ (x < y \/ x = y)
  <2>1. x \in Nat /\ y \in Nat
    BY <1>1
  <2>2. ~(y < x)
    BY <1>3, <1>4, <2>1
  <2> QED BY <2>1, <2>2
<1>6. \A e \in S : e[1] \in P /\ e[2] \in {1, 2} /\ e = <<e[1], e[2]>>
  BY EventPair DEF P, Kinds, VFD_SEL_READ, VFD_SEL_WRITE
<1>7. PICK d \in S : d[1] = x
  BY DEF P
<1>8. CASE <<x, 1>> \in S
  <2>1. ASSUME NEW f \in S PROVE <<x, 1>> = f \/ Before(<<x, 1>>, f)
    <3>1. f[1] \in Nat /\ (x < f[1] \/ x = f[1]) /\ f[2] \in {1, 2} /\ f = <<f[1], f[2]>>
      BY <1>5, <1>6
    <3> QED BY <3>1 DEF Before
  <2> QED BY <1>8, <2>1 DEF First
<1>9. CASE <<x, 1>> \notin S
  <2>1. d = <<x, 2>>
    BY <1>6, <1>7, <1>9
  <2>2. ASSUME NEW f \in S PROVE <<x, 2>> = f \/ Before(<<x, 2>>, f)
    <3>1. f[1] \in Nat /\ (x < f[1] \/ x = f[1]) /\ f[2] \in {1, 2} /\ f = <<f[1], f[2]>>
      BY <1>5, <1>6
    <3>2. x = f[1] => f[2] = 2
      BY <1>9, <3>1
    <3> QED BY <3>1, <3>2 DEF Before
  <2> QED BY <2>1, <2>2 DEF First
<1> QED BY <1>8, <1>9

-----------------------------------------------------------------------------
(* Steps of other threads and of the kernel *)

(* Nothing happens to descriptor f that its thread would have to know of. *)
Same(f) ==
  /\ buf'[f] = buf[f] /\ (f \in in_prog' => f \in in_prog) /\ (Followed(f) => Followed(f)')
  /\ ~raced' => \A k \in Kinds :
       /\ f \in vsel_data'[k] <=> f \in vsel_data[k]
       /\ <<f, k>> \in kready => f \in Shared \/ <<f, k>> \in kready'

Apart(t) ==
  /\ th'[t] = th[t] /\ (raced => raced')
  /\ conn \subseteq conn' /\ \A f \in conn : f \in in_prog' => f \in in_prog
  /\ \A f \in Fds : t \in inits'[f] => t \in inits[f]
  /\ \A f \in Own[t] : Same(f)

LEMMA GoodApart ==
  ASSUME NEW t \in Threads, Good(t), Apart(t)
  PROVE  Good(t)'
<1>1. th'[t] = th[t] /\ \A f \in Own[t] : Same(f)
  BY DEF Apart
<1>2. Local(t)'
  <2>1. /\ conn \subseteq conn' /\ \A f \in conn : f \in in_prog' => f \in in_prog
        /\ \A f \in Fds : t \in inits'[f] => t \in inits[f]
        /\ \A e \in Events : e[1] \in Fds
    BY EventPair DEF Apart
  <2> QED BY <1>1, <2>1 DEF Good, Local, Same
<1>3. \A f \in Own[t] : Bytes(t, f)'
  BY <1>1 DEF Good, Bytes, Same
<1>4. ASSUME ~raced', NEW f \in Own[t]
      PROVE  Wake(t, f)' /\ \A k \in Kinds : Real(t, f, k)'
  <2>1. ~raced /\ Wake(t, f) /\ \A k \in Kinds : Real(t, f, k)
    BY <1>4 DEF Good, Apart
  <2>2. /\ buf'[f] = buf[f] /\ th'[t] = th[t]
        /\ \A k \in Kinds : /\ f \in vsel_data'[k] <=> f \in vsel_data[k]
                            /\ <<f, k>> \in kready => f \in Shared \/ <<f, k>> \in kready'
    BY <1>1, <1>4 DEF Same
  <2>3. Wake(t, f)'
    BY <2>1, <2>2, EventPair DEF Wake
  <2>4. ASSUME NEW k \in Kinds PROVE Real(t, f, k)'
    BY <2>1, <2>2 DEF Real, ReadyAt
  <2> QED BY <2>3, <2>4
<1> QED BY <1>2, <1>3, <1>4 DEF Good

(* What a step of thread t has to be shown to do. *)
Steps(t) == TypeOK' /\ Good(t)' /\ \A u \in Threads \ {t} : Apart(u)

LEMMA StepsInv ==
  ASSUME IInv, NEW t \in Threads, Steps(t)
  PROVE  TypeOK' /\ \A u \in Threads : Good(u)'
BY GoodApart DEF IInv, Steps

LEMMA KernelInv ==
  ASSUME IInv, Kernel
  PROVE  TypeOK' /\ \A u \in Threads : Good(u)'
<1>0. TypeOK
  BY DEF IInv
<1>1. ASSUME NEW e \in Events, Arrive(e) PROVE TypeOK' /\ \A t \in Threads : Apart(t)
  <2>1. /\ e \in Events /\ kready' = kready \cup {e} /\ arrived' \in {arrived, arrived + 1}
        /\ arrived' = arrived + 1 => arrived < MaxEvents
        /\ UNCHANGED <<buf, vsel_data, lock, in_prog, th, conn, inits, raced>>
    BY <1>0, <1>1, SelectBounds DEF Arrive, TypeOK
  <2>2. arrived' \in 0..MaxEvents
    BY <1>0, <2>1, SelectBounds DEF TypeOK
  <2>3. TypeOK'
    BY <1>0, <2>1, <2>2 DEF TypeOK
  <2> QED BY <2>1, <2>3 DEF Apart, Same, Followed
<1>2. ASSUME NEW f \in Fds, Connected(f) PROVE TypeOK' /\ \A t \in Threads : Apart(t)
  <2>1. /\ kready' = kready \cup {<<f, VFD_SEL_WRITE>>}
        /\ UNCHANGED <<buf, vsel_data, lock, in_prog, th, conn, inits, raced, arrived>>
    BY <1>2 DEF Connected
  <2>2. TypeOK'
    BY <1>0, <2>1, EventPair DEF TypeOK
  <2> QED BY <2>1, <2>2 DEF Apart, Same, Followed
<1>3. ASSUME NEW f \in Fds, Steal(f) PROVE TypeOK' /\ \A t \in Threads : Apart(t)
  <2>1. /\ f \in Shared /\ kready' = kready \ {<<f, VFD_SEL_READ>>}
        /\ UNCHANGED <<buf, vsel_data, lock, in_prog, th, conn, inits, raced, arrived>>
    BY <1>3 DEF Steal
  <2>2. TypeOK'
    BY <1>0, <2>1 DEF TypeOK
  <2> QED BY <2>1, <2>2 DEF Apart, Same, Followed
<1>4. TypeOK' /\ \A t \in Threads : Apart(t)
  BY <1>1, <1>2, <1>3 DEF Kernel
<1> QED BY <1>4, GoodApart DEF IInv

-----------------------------------------------------------------------------
(* select() and poll() *)

(* A thread is at w. *)
Goes(t, w) ==
  /\ w \in Thread_ /\ th'[t] = w /\ \A u \in Threads \ {t} : th'[u] = th[u]
  /\ th' \in [Threads -> Thread_]

LEMMA GoesTo ==
  ASSUME TypeOK, NEW t \in Threads, NEW w \in Thread_, th' = [th EXCEPT ![t] = w]
  PROVE  Goes(t, w)
BY DEF Goes, TypeOK

LEMMA IdleType == Idle \in Thread_
BY DEF Idle, Thread_

(* Steps that only move the thread. *)
LEMMA OnlyMoves ==
  ASSUME IInv, NEW t \in Threads, NEW w \in Thread_, Goes(t, w), Good(t)',
         UNCHANGED <<kready, buf, vsel_data, in_prog, conn, inits, raced, arrived>>,
         lock' \in Threads \cup {None}
  PROVE  Steps(t)
<1>1. TypeOK'
  BY DEF IInv, TypeOK, Goes
<1>2. \A u \in Threads \ {t} : Apart(u)
  BY DEF Apart, Same, Goes, Followed
<1> QED BY <1>1, <1>2 DEF Steps

LEMMA FdClrLoadSteps ==
  ASSUME IInv, NEW t \in Threads, NEW a \in OwnAsks(t), FdClrLoad(t, a)
  PROVE  Steps(t)
<1>0. /\ TypeOK /\ Good(t) /\ th[t] \in Thread_ /\ a \subseteq Events
      /\ \A e \in a : e[1] \in Own[t]
  BY AsksAssumption DEF IInv, TypeOK, OwnAsks
<1> DEFINE e == First(a \cap Bits)
           w == [th[t] EXCEPT !.pc = "clr", !.asked = a, !.ev = e, !.word = vsel_data[e[2]]]
<1>1. e \in a /\ e \in Bits
  BY <1>0, FirstIn DEF FdClrLoad, Bits
<1> HIDE DEF e
<1>2. e \in Events /\ e[1] \in Own[t] /\ e[1] \in vsel_data[e[2]] /\ e[2] \in Kinds
  BY <1>0, <1>1, EventPair DEF Bits
<1>3. vsel_data[e[2]] \in SUBSET Fds
  BY <1>0, <1>2 DEF TypeOK
<1>4. w \in Thread_ /\ th[t].pc = "run"
  BY <1>0, <1>2, <1>3 DEF Thread_, FdClrLoad
<1>5. th' = [th EXCEPT ![t] = w]
  BY DEF FdClrLoad, e
<1>6. /\ w.pc = "clr" /\ w.asked = a /\ w.ev = e
      /\ w.toset = th[t].toset /\ w.toclr = th[t].toclr
  BY <1>0 DEF Thread_
<1> HIDE DEF w
<1>7. Goes(t, w)
  BY <1>0, <1>4, <1>5, GoesTo
<1>8. UNCHANGED <<kready, buf, vsel_data, lock, in_prog, conn, inits, raced, arrived>>
  BY DEF FdClrLoad
<1>9. Good(t)'
  <2>1. th[t].toset = {} /\ th[t].toclr = {}
    BY <1>0, <1>4 DEF Good, Local
  <2>2. Local(t)'
    BY <1>0, <1>1, <1>6, <1>7, <2>1 DEF Local, Goes
  <2>3. \A f \in Own[t] : Bytes(t, f)'
    BY <1>0, <1>6, <1>7, <1>8 DEF Good, Bytes, Goes, Followed
  <2>4. ASSUME ~raced, NEW f \in Own[t] PROVE Wake(t, f)'
    BY <1>0, <1>4, <1>6, <1>7, <1>8, <2>1, <2>4 DEF Good, Wake, Goes
  <2>5. ASSUME ~raced, NEW f \in Own[t], NEW k \in Kinds PROVE Real(t, f, k)'
    <3>1. e = <<f, k>> => f \in vsel_data[k]
      BY <1>2
    <3> QED BY <1>0, <1>4, <1>6, <1>7, <1>8, <2>1, <2>5, <3>1 DEF Good, Real, ReadyAt, Goes
  <2> QED BY <1>8, <2>2, <2>3, <2>4, <2>5 DEF Good
<1>10. lock' \in Threads \cup {None}
  BY <1>0, <1>8 DEF TypeOK
<1> QED BY <1>4, <1>7, <1>8, <1>9, <1>10, OnlyMoves

LEMMA FdClrStoreSteps ==
  ASSUME IInv, NEW t \in Threads, FdClrStore(t)
  PROVE  Steps(t)
<1>0. TypeOK /\ Good(t) /\ th[t] \in Thread_ /\ th[t].pc = "clr"
  BY DEF IInv, TypeOK, FdClrStore
<1> DEFINE e == th[t].ev
           w == [th[t] EXCEPT !.pc = "report", !.word = {}]
<1>1. e \in th[t].asked /\ e \in Events /\ e[1] \in Own[t] /\ e[2] \in Kinds
      /\ th[t].word \subseteq Fds /\ e = <<e[1], e[2]>>
  BY <1>0, EventPair DEF Good, Local, Thread_
<1>2. th' = [th EXCEPT ![t] = w]
  BY <1>0 DEF FdClrStore, TypeOK, Thread_
<1>3. w \in Thread_
  BY <1>0 DEF Thread_
<1>4. /\ w.pc = "report" /\ w.asked = th[t].asked /\ w.ev = e
      /\ w.toset = th[t].toset /\ w.toclr = th[t].toclr
  BY <1>0 DEF Thread_
<1> HIDE DEF w
<1>5. Goes(t, w)
  BY <1>0, <1>2, <1>3, GoesTo
<1>6. UNCHANGED <<kready, buf, lock, in_prog, conn, inits, arrived>>
  BY DEF FdClrStore
<1>7. /\ raced => raced'
      /\ ~raced' => vsel_data' = [vsel_data EXCEPT ![e[2]] = @ \ {e[1]}]
  BY DEF FdClrStore
<1>8. vsel_data' \in [Kinds -> SUBSET Fds]
  BY <1>0, <1>1 DEF FdClrStore, TypeOK
<1>9. raced' \in BOOLEAN
  BY <1>0 DEF FdClrStore, TypeOK
<1>10. TypeOK'
  BY <1>0, <1>5, <1>6, <1>8, <1>9 DEF TypeOK, Goes
<1>11. ASSUME ~raced', NEW f \in Fds, NEW k \in Kinds
       PROVE  f \in vsel_data'[k] <=> f \in vsel_data[k] /\ e # <<f, k>>
  BY <1>0, <1>1, <1>7, <1>11 DEF TypeOK
<1> HIDE DEF e
<1>12. ASSUME NEW u \in Threads \ {t} PROVE Apart(u)
  <2>1. ASSUME NEW f \in Own[u], NEW k \in Kinds PROVE f \in Fds /\ e # <<f, k>>
    BY <1>1, OwnFds
  <2>2. \A f \in Own[u] : Same(f)
    BY <1>6, <1>11, <2>1 DEF Same, Followed
  <2> QED BY <1>5, <1>6, <1>7, <2>2 DEF Apart, Goes
<1>13. Good(t)'
  <2>1. th[t].toset = {} /\ th[t].toclr = {}
    BY <1>0 DEF Good, Local
  <2>2. Local(t)'
    BY <1>0, <1>4, <1>5, <2>1 DEF Good, Local, Goes
  <2>3. \A f \in Own[t] : Bytes(t, f)'
    BY <1>0, <1>4, <1>5, <1>6 DEF Good, Bytes, Goes, Followed
  <2>4. ASSUME ~raced', NEW f \in Own[t] PROVE Wake(t, f)'
    <3>1. Wake(t, f) /\ f \in Fds
      BY <1>0, <1>7, <2>4, OwnFds DEF Good
    <3>2. f \in vsel_data'[VFD_SEL_READ] <=>
            f \in vsel_data[VFD_SEL_READ] /\ e # <<f, VFD_SEL_READ>>
      BY <1>11, <2>4, <3>1, EventPair
    <3>3. buf[f] > 0 => f \in vsel_data[VFD_SEL_READ] \/ e = <<f, VFD_SEL_READ>>
      BY <1>0, <2>1, <3>1 DEF Wake, e
    <3> QED BY <1>1, <1>4, <1>5, <1>6, <3>2, <3>3 DEF Wake, Goes
  <2>5. ASSUME ~raced', NEW f \in Own[t], NEW k \in Kinds PROVE Real(t, f, k)'
    <3>1. Real(t, f, k) /\ f \in Fds
      BY <1>0, <1>7, <2>5, OwnFds DEF Good
    <3>2. f \in vsel_data'[k] => f \in vsel_data[k]
      BY <1>11, <2>5, <3>1
    <3> QED BY <1>0, <1>4, <1>5, <1>6, <2>1, <3>1, <3>2 DEF Real, ReadyAt, Goes, e
  <2> QED BY <2>2, <2>3, <2>4, <2>5 DEF Good
<1> QED BY <1>10, <1>12, <1>13 DEF Steps

LEMMA SelectEnterSteps ==
  ASSUME IInv, NEW t \in Threads, NEW a \in OwnAsks(t), SelectEnter(t, a)
  PROVE  Steps(t)
<1>0. /\ TypeOK /\ Good(t) /\ th[t] \in Thread_ /\ a \subseteq Events
      /\ \A e \in a : e[1] \in Own[t]
  BY AsksAssumption DEF IInv, TypeOK, OwnAsks
<1> DEFINE w == [th[t] EXCEPT !.pc = "insel", !.asked = a]
<1>1. w \in Thread_ /\ th' = [th EXCEPT ![t] = w] /\ th[t].pc = "run"
  BY <1>0 DEF Thread_, SelectEnter
<1>2. /\ w.pc = "insel" /\ w.asked = a /\ w.ev = th[t].ev
      /\ w.toset = th[t].toset /\ w.toclr = th[t].toclr
  BY <1>0 DEF Thread_
<1> HIDE DEF w
<1>3. Goes(t, w)
  BY <1>0, <1>1, GoesTo
<1>4. UNCHANGED <<kready, buf, vsel_data, lock, in_prog, conn, inits, raced, arrived>>
  BY DEF SelectEnter
<1>5. ASSUME NEW f \in Own[t], <<f, VFD_SEL_READ>> \in a PROVE f \notin vsel_data[VFD_SEL_READ]
  <2>1. <<f, VFD_SEL_READ>> \notin Bits /\ f \in Fds
    BY <1>5, OwnFds DEF SelectEnter
  <2> QED BY <2>1, EventPair DEF Bits
<1>6. Good(t)'
  <2>1. th[t].toset = {} /\ th[t].toclr = {}
    BY <1>0, <1>1 DEF Good, Local
  <2>2. Local(t)'
    BY <1>0, <1>2, <1>3, <2>1 DEF Local, Goes
  <2>3. \A f \in Own[t] : Bytes(t, f)'
    BY <1>0, <1>2, <1>3, <1>4 DEF Good, Bytes, Goes, Followed
  <2>4. ASSUME ~raced, NEW f \in Own[t] PROVE Wake(t, f)'
    <3>1. buf[f] > 0 => f \in vsel_data[VFD_SEL_READ]
      BY <1>0, <1>1, <2>1, <2>4 DEF Good, Wake
    <3> QED BY <1>2, <1>3, <1>4, <1>5, <3>1 DEF Wake, Goes
  <2>5. ASSUME ~raced, NEW f \in Own[t], NEW k \in Kinds PROVE Real(t, f, k)'
    BY <1>0, <1>1, <1>2, <1>3, <1>4, <2>5 DEF Good, Real, ReadyAt, Goes
  <2> QED BY <1>4, <2>2, <2>3, <2>4, <2>5 DEF Good
<1>7. lock' \in Threads \cup {None}
  BY <1>0, <1>4 DEF TypeOK
<1> QED BY <1>1, <1>3, <1>4, <1>6, <1>7, OnlyMoves

LEMMA SelectWakeSteps ==
  ASSUME IInv, NEW t \in Threads, SelectWake(t)
  PROVE  Steps(t)
<1>0. TypeOK /\ Good(t) /\ th[t] \in Thread_ /\ th[t].pc = "insel"
  BY DEF IInv, TypeOK, SelectWake
<1> DEFINE w == [th[t] EXCEPT !.pc = "update", !.toset = th[t].asked \cap kready]
<1>1. w \in Thread_
  BY <1>0 DEF Thread_
<1>2. th' = [th EXCEPT ![t] = w]
  BY <1>0 DEF SelectWake, TypeOK, Thread_
<1>3. /\ w.pc = "update" /\ w.asked = th[t].asked /\ w.ev = th[t].ev
      /\ w.toset = th[t].asked \cap kready /\ w.toclr = th[t].toclr
  BY <1>0 DEF Thread_
<1> HIDE DEF w
<1>4. Goes(t, w)
  BY <1>0, <1>1, <1>2, GoesTo
<1>5. /\ UNCHANGED <<kready, buf, vsel_data, in_prog, conn, inits, raced, arrived>>
      /\ lock' \in Threads \cup {None}
  BY DEF SelectWake
<1>6. Good(t)'
  <2>1. th[t].toset = {} /\ th[t].toclr = {}
    BY <1>0 DEF Good, Local
  <2>2. Local(t)'
    BY <1>0, <1>3, <1>4, <2>1 DEF Good, Local, Goes
  <2>3. \A f \in Own[t] : Bytes(t, f)'
    BY <1>0, <1>3, <1>4, <1>5 DEF Good, Bytes, Goes, Followed
  <2>4. ASSUME ~raced, NEW f \in Own[t] PROVE Wake(t, f)'
    <3>1. /\ buf[f] > 0 => f \in vsel_data[VFD_SEL_READ]
          /\ buf[f] > 0 => <<f, VFD_SEL_READ>> \notin th[t].asked
      BY <1>0, <2>1, <2>4 DEF Good, Wake
    <3> QED BY <1>3, <1>4, <1>5, <3>1 DEF Wake, Goes
  <2>5. ASSUME ~raced, NEW f \in Own[t], NEW k \in Kinds PROVE Real(t, f, k)'
    BY <1>0, <1>3, <1>4, <1>5, <2>5 DEF Good, Real, ReadyAt, Goes
  <2> QED BY <1>5, <2>2, <2>3, <2>4, <2>5 DEF Good
<1> QED BY <1>1, <1>4, <1>5, <1>6, OnlyMoves

(* A thread that goes back to the application without an event. *)
LEMMA BackSteps ==
  ASSUME IInv, NEW t \in Threads, th' = [th EXCEPT ![t] = Idle],
         UNCHANGED <<kready, buf, vsel_data, lock, in_prog, conn, inits, raced, arrived>>,
         th[t].toset = {}, th[t].toclr = {},
         ~raced => \A f \in Own[t] : buf[f] > 0 => f \in vsel_data[VFD_SEL_READ]
  PROVE  Steps(t)
<1>0. TypeOK /\ Good(t)
  BY DEF IInv
<1>1. Goes(t, Idle)
  BY <1>0, GoesTo, IdleType
<1>2. /\ Idle.pc = "run" /\ Idle.asked = {} /\ Idle.ev = None
      /\ Idle.toset = {} /\ Idle.toclr = {}
  BY DEF Idle
<1>3. Good(t)'
  <2>2. Local(t)'
    BY <1>1, <1>2 DEF Local, Goes
  <2>3. \A f \in Own[t] : Bytes(t, f)'
    BY <1>0, <1>1, <1>2 DEF Good, Bytes, Goes, Followed
  <2>4. ASSUME ~raced, NEW f \in Own[t] PROVE Wake(t, f)'
    BY <1>1, <1>2, <2>4 DEF Wake, Goes
  <2>5. ASSUME ~raced, NEW f \in Own[t], NEW k \in Kinds PROVE Real(t, f, k)'
    BY <1>0, <1>1, <1>2, <2>5 DEF Good, Real, ReadyAt, Goes
  <2> QED BY <2>2, <2>3, <2>4, <2>5 DEF Good
<1>4. lock' \in Threads \cup {None}
  BY <1>0 DEF TypeOK
<1> QED BY <1>1, <1>3, <1>4, IdleType, OnlyMoves

LEMMA SelectTimeoutSteps ==
  ASSUME IInv, NEW t \in Threads, SelectTimeout(t)
  PROVE  Steps(t)
<1>0. TypeOK /\ Good(t) /\ th[t].pc = "insel"
  BY DEF IInv, SelectTimeout
<1>1. th[t].toset = {} /\ th[t].toclr = {}
  BY <1>0 DEF Good, Local
<1>2. ~raced => \A f \in Own[t] : buf[f] > 0 => f \in vsel_data[VFD_SEL_READ]
  BY <1>0, <1>1 DEF Good, Wake
<1>3. /\ th' = [th EXCEPT ![t] = Idle]
      /\ UNCHANGED <<kready, buf, vsel_data, lock, in_prog, conn, inits, raced, arrived>>
  BY DEF SelectTimeout
<1> QED BY <1>1, <1>2, <1>3, BackSteps

(* FD_SET and FD_CLR of all events of a set. *)
LEMMA SetsBits ==
  ASSUME TypeOK, NEW S \in SUBSET Events
  PROVE  /\ SetBits(S) \in [Kinds -> SUBSET Fds] /\ ClrBits(S) \in [Kinds -> SUBSET Fds]
         /\ \A f \in Fds, k \in Kinds :
              /\ f \in SetBits(S)[k] <=> f \in vsel_data[k] \/ <<f, k>> \in S
              /\ f \in ClrBits(S)[k] <=> f \in vsel_data[k] /\ <<f, k>> \notin S
BY DEF SetBits, ClrBits, TypeOK

LEMMA SelectUpdateSteps ==
  ASSUME IInv, NEW t \in Threads, SelectUpdate(t)
  PROVE  Steps(t)
<1>0. TypeOK /\ Good(t) /\ th[t] \in Thread_ /\ th[t].pc = "update"
  BY DEF IInv, TypeOK, SelectUpdate
<1> DEFINE e == First(th[t].toset)
           w == [th[t] EXCEPT !.toset = @ \ {e}]
<1>1. e \in th[t].toset /\ e \in Events
  BY <1>0, FirstIn DEF SelectUpdate, Thread_
<1>2. vsel_data' = SetBits({e})
  BY DEF SelectUpdate
<1>3. th' = [th EXCEPT ![t] = w]
  BY <1>0 DEF SelectUpdate, TypeOK, Thread_
<1> HIDE DEF e
<1>4. e[1] \in Own[t] /\ e[2] \in Kinds /\ e = <<e[1], e[2]>> /\ th[t].toclr = {}
  BY <1>0, <1>1, EventPair DEF Good, Local
<1>5. w \in Thread_
  BY <1>0 DEF Thread_
<1>6. /\ w.pc = "update" /\ w.asked = th[t].asked /\ w.ev = th[t].ev
      /\ w.toset = th[t].toset \ {e} /\ w.toclr = th[t].toclr
  BY <1>0 DEF Thread_
<1> HIDE DEF w
<1>7. Goes(t, w)
  BY <1>0, <1>3, <1>5, GoesTo
<1>8. /\ vsel_data' \in [Kinds -> SUBSET Fds]
      /\ \A f \in Fds, k \in Kinds : f \in vsel_data'[k] <=> f \in vsel_data[k] \/ <<f, k>> = e
  <2>1. {e} \in SUBSET Events
    BY <1>1
  <2>2. /\ SetBits({e}) \in [Kinds -> SUBSET Fds]
        /\ \A f \in Fds, k \in Kinds :
             f \in SetBits({e})[k] <=> f \in vsel_data[k] \/ <<f, k>> \in {e}
    BY <1>0, <2>1, SetsBits
  <2> QED BY <1>2, <2>2
<1>9. UNCHANGED <<kready, buf, lock, in_prog, conn, inits, raced, arrived>>
  BY DEF SelectUpdate
<1>10. TypeOK'
  BY <1>0, <1>7, <1>8, <1>9 DEF TypeOK, Goes
<1>11. ASSUME NEW u \in Threads \ {t} PROVE Apart(u)
  <2>1. ASSUME NEW f \in Own[u], NEW k \in Kinds PROVE f \in Fds /\ e # <<f, k>>
    BY <1>4, OwnFds
  <2>2. \A f \in Own[u] : Same(f)
    BY <1>8, <1>9, <2>1 DEF Same, Followed
  <2> QED BY <1>7, <1>9, <2>2 DEF Apart, Goes
<1>12. Good(t)'
  <2>2. Local(t)'
    BY <1>0, <1>4, <1>6, <1>7 DEF Good, Local, Goes
  <2>3. \A f \in Own[t] : Bytes(t, f)'
    BY <1>0, <1>6, <1>7, <1>9 DEF Good, Bytes, Goes, Followed
  <2>4. ASSUME ~raced, NEW f \in Own[t] PROVE Wake(t, f)'
    <3>1. Wake(t, f) /\ f \in Fds
      BY <1>0, <2>4, OwnFds DEF Good
    <3>2. \/ f \in vsel_data[VFD_SEL_READ] \/ <<f, VFD_SEL_READ>> \in th[t].toset
          => f \in vsel_data'[VFD_SEL_READ] \/ <<f, VFD_SEL_READ>> \in w.toset
      BY <1>6, <1>8, <3>1, EventPair
    <3> QED BY <1>0, <1>6, <1>7, <1>9, <3>1, <3>2 DEF Wake, Goes
  <2>5. ASSUME ~raced, NEW f \in Own[t], NEW k \in Kinds PROVE Real(t, f, k)'
    <3>1. Real(t, f, k) /\ f \in Fds
      BY <1>0, <2>5, OwnFds DEF Good
    <3> QED BY <1>0, <1>1, <1>4, <1>6, <1>7, <1>8, <1>9, <3>1 DEF Real, ReadyAt, Goes
  <2> QED BY <1>9, <2>2, <2>3, <2>4, <2>5 DEF Good
<1> QED BY <1>10, <1>11, <1>12 DEF Steps

LEMMA SelectFindSteps ==
  ASSUME IInv, NEW t \in Threads, SelectFind(t)
  PROVE  Steps(t)
<1>0. TypeOK /\ Good(t) /\ th[t] \in Thread_ /\ th[t].pc = "update" /\ th[t].toset = {}
  BY DEF IInv, TypeOK, SelectFind
<1> DEFINE S == Bits \cap Below(th[t].asked)
           e == IF S = {} THEN None ELSE First(S)
           w == [th[t] EXCEPT !.pc = "report", !.ev = e]
<1>1. e \in Events \cup {None} /\ \A f \in Fds, k \in Kinds : e = <<f, k>> => f \in vsel_data[k]
  <2>1. S \in SUBSET Events
    BY DEF Bits
  <2>2. CASE S = {}
    BY <2>2, AsksAssumption, EventPair
  <2>3. CASE S # {}
    <3>1. First(S) \in Bits /\ First(S) \in Events
      BY <2>1, <2>3, FirstIn
    <3> QED BY <2>3, <3>1, EventPair DEF Bits
  <2> QED BY <2>2, <2>3
<1>2. th' = [th EXCEPT ![t].pc = "report", ![t].ev = e]
  BY DEF SelectFind
<1> HIDE DEF e
<1>3. w \in Thread_ /\ th' = [th EXCEPT ![t] = w]
  BY <1>0, <1>1, <1>2 DEF Thread_, TypeOK
<1>4. /\ w.pc = "report" /\ w.asked = th[t].asked /\ w.ev = e
      /\ w.toset = th[t].toset /\ w.toclr = th[t].toclr
  BY <1>0 DEF Thread_
<1> HIDE DEF w
<1>5. Goes(t, w)
  BY <1>0, <1>3, GoesTo
<1>6. /\ UNCHANGED <<kready, buf, vsel_data, in_prog, conn, inits, raced, arrived>>
      /\ lock' \in Threads \cup {None}
  BY DEF SelectFind
<1>7. Good(t)'
  <2>1. th[t].toclr = {}
    BY <1>0 DEF Good, Local
  <2>2. Local(t)'
    BY <1>0, <1>4, <1>5, <2>1 DEF Good, Local, Goes
  <2>3. \A f \in Own[t] : Bytes(t, f)'
    BY <1>0, <1>4, <1>5, <1>6 DEF Good, Bytes, Goes, Followed
  <2>4. ASSUME ~raced, NEW f \in Own[t] PROVE Wake(t, f)'
    BY <1>0, <1>4, <1>5, <1>6, <2>4 DEF Good, Wake, Goes
  <2>5. ASSUME ~raced, NEW f \in Own[t], NEW k \in Kinds PROVE Real(t, f, k)'
    <3>1. Real(t, f, k) /\ f \in Fds
      BY <1>0, <2>5, OwnFds DEF Good
    <3> QED BY <1>0, <1>1, <1>4, <1>5, <1>6, <2>1, <3>1 DEF Real, ReadyAt, Goes
  <2> QED BY <1>6, <2>2, <2>3, <2>4, <2>5 DEF Good
<1> QED BY <1>3, <1>5, <1>6, <1>7, OnlyMoves

(* The return of select(): what the application is told of is its own, is  *)
(* there, and is no connect() in progress.                                 *)
LEMMA ReturnGood ==
  ASSUME IInv, NEW t \in Threads, th[t].pc \in {"report", "ident"}, Return(t),
         UNCHANGED <<kready, buf, vsel_data, raced>>,
         th[t].ev \in th[t].asked => th[t].ev[1] \notin in_prog',
         \A f \in Fds : Followed(f) => Followed(f)'
  PROVE  Good(t)' /\ \E w \in Thread_ : Goes(t, w)
<1>0. TypeOK /\ Good(t) /\ th[t] \in Thread_
  BY DEF IInv, TypeOK
<1>1. th[t].toset = {} /\ th[t].toclr = {}
  BY <1>0 DEF Good, Local
<1> DEFINE e == th[t].ev
           w == IF e \in th[t].asked THEN [Idle EXCEPT !.pc = "told", !.ev = e] ELSE Idle
<1>2. e \in th[t].asked => e \in Events /\ e[1] \in Own[t]
  BY <1>0 DEF Good, Local, Thread_
<1>3. /\ w.asked = {} /\ w.toset = {} /\ w.toclr = {} /\ w \in Thread_
      /\ w.pc = IF e \in th[t].asked THEN "told" ELSE "run"
      /\ w.ev = IF e \in th[t].asked THEN e ELSE None
  BY <1>2 DEF Idle, Thread_
<1>4. th' = [th EXCEPT ![t] = w]
  BY DEF Return
<1> HIDE DEF w
<1>5. Goes(t, w)
  BY <1>0, <1>3, <1>4, GoesTo
<1>6. Local(t)'
  BY <1>2, <1>3, <1>5 DEF Local, Goes
<1>7. \A f \in Own[t] : Bytes(t, f)'
  BY <1>0, <1>3, <1>5, OwnFds DEF Good, Bytes, Goes
<1>8. ASSUME ~raced, NEW f \in Own[t] PROVE Wake(t, f)'
  <2>1. Wake(t, f)
    BY <1>0, <1>8 DEF Good
  <2> QED BY <1>1, <1>3, <1>5, <2>1 DEF Wake, Goes
<1>9. ASSUME ~raced, NEW f \in Own[t], NEW k \in Kinds PROVE Real(t, f, k)'
  <2>1. Real(t, f, k)
    BY <1>0, <1>9 DEF Good
  <2>2. w.pc = "told" => w.ev = th[t].ev
    BY <1>3
  <2> QED BY <1>1, <1>3, <1>5, <2>1, <2>2 DEF Real, ReadyAt, Goes
<1> QED BY <1>3, <1>5, <1>6, <1>7, <1>8, <1>9 DEF Good

LEMMA SelectReturnSteps ==
  ASSUME IInv, NEW t \in Threads, SelectReturn(t)
  PROVE  Steps(t)
<1>0. TypeOK /\ Good(t) /\ th[t] \in Thread_ /\ th[t].pc = "report"
  BY DEF IInv, TypeOK, SelectReturn
<1>1. UNCHANGED <<kready, buf, vsel_data, lock, in_prog, conn, inits, raced, arrived>>
  BY DEF SelectReturn
<1>2. lock' \in Threads \cup {None}
  BY <1>0, <1>1 DEF TypeOK
<1>3. CASE th[t].ev # None /\ th[t].ev[1] \in in_prog
  <2> DEFINE w == [th[t] EXCEPT !.pc = "connect"]
  <2>1. th' = [th EXCEPT ![t] = w]
    BY <1>0, <1>3 DEF SelectReturn, TypeOK, Thread_
  <2>2. w \in Thread_ /\ w.pc = "connect" /\ w.asked = th[t].asked /\ w.ev = th[t].ev
        /\ w.toset = th[t].toset /\ w.toclr = th[t].toclr
    BY <1>0 DEF Thread_
  <2> HIDE DEF w
  <2>3. Goes(t, w)
    BY <1>0, <2>1, <2>2, GoesTo
  <2>4. /\ th[t].ev \in Events /\ th[t].ev[1] \in conn /\ t \notin inits[th[t].ev[1]]
    <3>1. th[t].ev \in Events
      BY <1>0, <1>3 DEF Thread_
    <3>2. Seen(th[t].ev[1])
      BY <3>1, EventPair DEF IInv
    <3> QED BY <1>3, <3>1, <3>2 DEF Seen
  <2>5. Good(t)'
    <3>1. Local(t)'
      BY <1>0, <1>1, <2>2, <2>3, <2>4 DEF Good, Local, Goes
    <3>2. \A f \in Own[t] : Bytes(t, f)'
      BY <1>0, <1>1, <2>2, <2>3 DEF Good, Bytes, Goes, Followed
    <3>3. ASSUME ~raced, NEW f \in Own[t] PROVE Wake(t, f)'
      BY <1>0, <1>1, <2>2, <2>3, <3>3 DEF Good, Wake, Goes
    <3>4. ASSUME ~raced, NEW f \in Own[t], NEW k \in Kinds PROVE Real(t, f, k)'
      BY <1>0, <1>1, <2>2, <2>3, <3>4 DEF Good, Real, ReadyAt, Goes
    <3> QED BY <1>1, <3>1, <3>2, <3>3, <3>4 DEF Good
  <2> QED BY <1>1, <1>2, <2>2, <2>3, <2>5, OnlyMoves
<1>4. CASE ~(th[t].ev # None /\ th[t].ev[1] \in in_prog)
  <2>1. Return(t)
    BY <1>4 DEF SelectReturn
  <2>2. th[t].ev \in th[t].asked => th[t].ev[1] \notin in_prog'
    BY <1>0, <1>1, <1>4, AsksAssumption DEF Thread_
  <2>3. \A f \in Fds : Followed(f) => Followed(f)'
    BY <1>1 DEF Followed
  <2>4. Good(t)' /\ \E w \in Thread_ : Goes(t, w)
    BY <1>0, <1>1, <2>1, <2>2, <2>3, ReturnGood
  <2> QED BY <1>1, <1>2, <2>4, OnlyMoves
<1> QED BY <1>3, <1>4

LEMMA connect_eventSteps ==
  ASSUME IInv, NEW t \in Threads, connect_event(t)
  PROVE  Steps(t)
<1>0. TypeOK /\ Good(t) /\ th[t] \in Thread_ /\ th[t].pc = "connect" /\ th[t].ev \in Events
  BY DEF IInv, TypeOK, Good, Local, connect_event
<1> DEFINE w == [th[t] EXCEPT !.pc = "ident"]
<1>1. /\ in_prog' = in_prog \ {th[t].ev[1]} /\ th' = [th EXCEPT ![t] = w]
      /\ UNCHANGED <<kready, buf, vsel_data, lock, conn, inits, raced, arrived>>
  BY <1>0 DEF connect_event, TypeOK, Thread_
<1>2. w \in Thread_ /\ w.pc = "ident" /\ w.asked = th[t].asked /\ w.ev = th[t].ev
      /\ w.toset = th[t].toset /\ w.toclr = th[t].toclr
  BY <1>0 DEF Thread_
<1> HIDE DEF w
<1>3. Goes(t, w)
  BY <1>0, <1>1, <1>2, GoesTo
<1>4. TypeOK'
  BY <1>0, <1>1, <1>3 DEF TypeOK, Goes
<1>5. \A u \in Threads \ {t} : Apart(u)
  BY <1>1, <1>3 DEF Apart, Same, Goes, Followed
<1>6. Good(t)'
  <2>1. Local(t)'
    BY <1>0, <1>1, <1>2, <1>3 DEF Good, Local, Goes
  <2>2. \A f \in Own[t] : Bytes(t, f)'
    BY <1>0, <1>1, <1>2, <1>3 DEF Good, Bytes, Goes, Followed
  <2>3. ASSUME ~raced, NEW f \in Own[t] PROVE Wake(t, f)'
    BY <1>0, <1>1, <1>2, <1>3, <2>3 DEF Good, Wake, Goes
  <2>4. ASSUME ~raced, NEW f \in Own[t], NEW k \in Kinds PROVE Real(t, f, k)'
    BY <1>0, <1>1, <1>2, <1>3, <2>4 DEF Good, Real, ReadyAt, Goes
  <2> QED BY <1>1, <2>1, <2>2, <2>3, <2>4 DEF Good
<1> QED BY <1>4, <1>5, <1>6 DEF Steps

LEMMA pp_id_connectSteps ==
  ASSUME IInv, NEW t \in Threads, pp_id_connect(t)
  PROVE  Steps(t)
<1>0. /\ TypeOK /\ Good(t) /\ th[t].pc = "ident" /\ th[t].ev \in Events
      /\ th[t].ev[1] \in conn /\ \A f \in Fds : Seen(f)
  BY DEF IInv, Good, Local, pp_id_connect
<1>1. /\ inits' = [inits EXCEPT ![th[t].ev[1]] = @ \cup {t}] /\ Return(t)
      /\ UNCHANGED <<kready, buf, vsel_data, lock, in_prog, conn, raced, arrived>>
  BY DEF pp_id_connect
<1>2. /\ inits' \in [Fds -> SUBSET Threads]
      /\ \A f \in Fds : inits[f] \subseteq inits'[f] /\ inits'[f] \subseteq inits[f] \cup {t}
  BY <1>0, <1>1, EventPair DEF TypeOK
<1>3. \A f \in Fds : Followed(f) => Followed(f)'
  BY <1>1, <1>2 DEF Followed
<1>4. th[t].ev[1] \notin in_prog
  BY <1>0 DEF Good, Local
<1>5. PICK w \in Thread_ : Good(t)' /\ Goes(t, w)
  BY <1>0, <1>1, <1>3, <1>4, ReturnGood
<1>6. TypeOK'
  BY <1>0, <1>1, <1>2, <1>5 DEF TypeOK, Goes
<1>7. ASSUME NEW u \in Threads \ {t} PROVE Apart(u)
  <2>1. \A f \in Own[u] : Same(f)
    BY <1>1, <1>3, OwnFds DEF Same
  <2> QED BY <1>1, <1>2, <1>5, <2>1 DEF Apart, Goes
<1> QED BY <1>5, <1>6, <1>7 DEF Steps

-----------------------------------------------------------------------------
(* The other calls *)

(* A call of kind k on f that leaves n reads' worth in the buffer, and     *)
(* will set the bits S or clear the bits C of f: what is left has its bit  *)
(* set, and what is no longer there has it cleared.                        *)
Effect(f, k, S, C, n) ==
  /\ \A e \in S \cup C : e[1] = f
  /\ buf' = [buf EXCEPT ![f] = n]
  /\ n > 0 => /\ Followed(f)' /\ <<f, VFD_SEL_READ>> \notin C
              /\ \/ <<f, VFD_SEL_READ>> \in S
                 \/ n = buf[f] /\ k # VFD_SEL_READ
  /\ kready' \subseteq kready
  /\ \A e \in kready : e[1] # f => e \in kready'
  /\ \A j \in Kinds : <<f, j>> \notin C /\ ReadyAt(f, j) => ReadyAt(f, j)'
  /\ \A j \in Kinds : <<f, j>> \in S => ReadyAt(f, j)'
  /\ \/ UNCHANGED <<in_prog, conn>>
     \/ f \notin conn /\ in_prog' = in_prog \cup {f} /\ conn' = conn \cup {f}
  /\ UNCHANGED <<vsel_data, lock, inits, raced, arrived>>

LEMMA CallSteps ==
  ASSUME IInv, NEW t \in Threads, NEW f \in Own[t], NEW k \in Kinds, Calls(t, f, k),
         NEW S \in SUBSET Events, NEW C \in SUBSET Events, S = {} \/ C = {}, Then(t, S, C),
         NEW n \in 0..MaxLeft, Effect(f, k, S, C, n)
  PROVE  Steps(t)
<1> USE DEF Effect
<1>0. TypeOK /\ Good(t) /\ f \in Fds /\ buf \in [Fds -> 0..MaxLeft]
  BY OwnFds DEF IInv, TypeOK
<1> DEFINE w == [Idle EXCEPT !.pc = "bits", !.toset = S, !.toclr = C]
<1>1. /\ w \in Thread_ /\ w.pc = "bits" /\ w.asked = {} /\ w.ev = None
      /\ w.toset = S /\ w.toclr = C
  BY DEF Idle, Thread_
<1>2. th' = [th EXCEPT ![t] = w]
  BY DEF Then
<1> HIDE DEF w
<1>3. Goes(t, w)
  BY <1>0, <1>1, <1>2, GoesTo
<1>4. buf' \in [Fds -> 0..MaxLeft] /\ buf'[f] = n /\ \A g \in Fds \ {f} : buf'[g] = buf[g]
  BY <1>0
<1>5. TypeOK'
  BY <1>0, <1>3, <1>4 DEF TypeOK, Goes
<1>6. ASSUME NEW u \in Threads \ {t} PROVE Apart(u)
  <2>1. ASSUME NEW g \in Own[u] PROVE g \in Fds /\ g # f
    BY OwnFds
  <2>2. ASSUME NEW g \in Own[u], NEW j \in Kinds, <<g, j>> \in kready PROVE <<g, j>> \in kready'
    BY <2>1, <2>2
  <2>3. \A g \in Own[u] : Same(g)
    BY <1>4, <2>1, <2>2 DEF Same, Followed
  <2> QED BY <1>3, <2>3 DEF Apart, Goes
<1>7. /\ th[t].toset = {} /\ th[t].toclr = {}
      /\ th[t].pc = "run" \/ (th[t].pc = "told" /\ th[t].ev = <<f, k>>)
  BY <1>0 DEF Good, Local, Calls
<1>8. Good(t)'
  <2>1. Local(t)'
    BY <1>1, <1>3 DEF Local, Goes
  <2>2. ASSUME NEW g \in Own[t] PROVE Bytes(t, g)'
    <3>1. CASE g = f
      BY <1>1, <1>3, <1>4, <3>1 DEF Bytes, Goes
    <3>2. CASE g # f
      <4>1. buf'[g] = buf[g] /\ <<g, VFD_SEL_READ>> \notin C
        BY <1>4, <3>2, OwnFds
      <4> QED BY <1>0, <1>1, <1>3, <4>1 DEF Good, Bytes, Goes, Followed
    <3> QED BY <3>1, <3>2
  <2>3. ASSUME ~raced, NEW g \in Own[t] PROVE Wake(t, g)'
    <3>1. Wake(t, g)
      BY <1>0, <2>3 DEF Good
    <3>2. CASE g = f
      <4>1. n > 0 /\ n = buf[f] /\ k # VFD_SEL_READ => f \in vsel_data[VFD_SEL_READ]
        BY <1>7, <3>1, <3>2 DEF Wake
      <4> QED BY <1>1, <1>3, <1>4, <3>2, <4>1 DEF Wake, Goes
    <3>3. CASE g # f
      <4>1. buf'[g] = buf[g] /\ <<f, k>> # <<g, VFD_SEL_READ>>
        BY <1>4, <3>3, OwnFds
      <4>2. buf[g] > 0 => g \in vsel_data[VFD_SEL_READ]
        BY <1>7, <3>1, <4>1 DEF Wake
      <4> QED BY <1>1, <1>3, <4>1, <4>2 DEF Wake, Goes
    <3> QED BY <3>2, <3>3
  <2>4. ASSUME ~raced, NEW g \in Own[t], NEW j \in Kinds PROVE Real(t, g, j)'
    <3>1. Real(t, g, j)
      BY <1>0, <2>4 DEF Good
    <3>2. CASE g = f
      BY <1>1, <1>3, <1>7, <3>1, <3>2 DEF Real, Goes
    <3>3. CASE g # f
      <4>1. ReadyAt(g, j) => ReadyAt(g, j)'
        <5>1. buf'[g] = buf[g] /\ (<<g, j>> \in kready => <<g, j>> \in kready')
          BY <1>4, <3>3, OwnFds
        <5> QED BY <5>1 DEF ReadyAt
      <4>2. <<g, j>> \notin S
        BY <3>3
      <4> QED BY <1>1, <1>3, <1>7, <3>1, <4>1, <4>2 DEF Real, Goes
    <3> QED BY <3>2, <3>3
  <2> QED BY <2>1, <2>2, <2>3, <2>4 DEF Good
<1> QED BY <1>5, <1>6, <1>8 DEF Steps

LEMMA virtual_readSteps ==
  ASSUME IInv, NEW t \in Threads, NEW f \in Own[t], virtual_read(t, f)
  PROVE  Steps(t)
<1> DEFINE r == <<f, VFD_SEL_READ>>
<1>0. TypeOK /\ f \in Fds /\ r \in Events /\ buf \in [Fds -> 0..MaxLeft] /\ buf[f] \in 0..MaxLeft
  BY OwnFds, EventPair DEF IInv, TypeOK
<1>1. PICK n \in 0..MaxLeft :
        /\ buf' = [buf EXCEPT ![f] = n]
        /\ \/ buf[f] > 0 /\ kready' = kready
           \/ kready' = kready \ {r} /\ buf[f] = 0
  <2>1. CASE buf[f] > 0 /\ buf' = [buf EXCEPT ![f] = @ - 1] /\ UNCHANGED kready
    <3>1. buf[f] - 1 \in 0..MaxLeft
      BY <1>0, <2>1, SelectBounds
    <3> QED BY <2>1, <3>1
  <2>2. CASE /\ buf[f] = 0 /\ \E left \in 0..MaxLeft : buf' = [buf EXCEPT ![f] = left]
             /\ kready' = kready \ {r}
    BY <2>2
  <2> QED BY <2>1, <2>2 DEF virtual_read
<1>2. buf'[f] = n /\ n \in Nat /\ n >= 0
  BY <1>0, <1>1
<1>3. /\ Followed(f) /\ Calls(t, f, VFD_SEL_READ) /\ VFD_SEL_READ \in Kinds
      /\ UNCHANGED <<vsel_data, lock, in_prog, conn, inits, raced, arrived>>
  BY EventPair DEF virtual_read
<1>4. /\ kready' \subseteq kready /\ \A e \in kready : e[1] # f => e \in kready'
      /\ \A j \in Kinds : j # VFD_SEL_READ /\ <<f, j>> \in kready => <<f, j>> \in kready'
  BY <1>1
<1>5. CASE n > 0
  <2>1. Then(t, {r}, {})
    BY <1>2, <1>5 DEF virtual_read
  <2>2. ASSUME NEW j \in Kinds, ReadyAt(f, j) \/ <<f, j>> \in {r} PROVE ReadyAt(f, j)'
    <3>1. CASE j = VFD_SEL_READ
      BY <1>2, <1>5, <3>1 DEF ReadyAt
    <3>2. CASE j # VFD_SEL_READ
      BY <1>4, <2>2, <3>2 DEF ReadyAt
    <3> QED BY <3>1, <3>2
  <2>3. {r} \in SUBSET Events /\ {} \in SUBSET Events /\ \A e \in {r} \cup {} : e[1] = f
    BY <1>0
  <2>4. UNCHANGED <<in_prog, conn>> /\ Followed(f)'
    BY <1>3 DEF Followed
  <2>5. Effect(f, VFD_SEL_READ, {r}, {}, n)
    BY <1>1, <1>3, <1>4, <2>2, <2>3, <2>4 DEF Effect
  <2> QED BY <1>3, <2>1, <2>3, <2>5, CallSteps
<1>6. CASE n = 0
  <2>1. Then(t, {}, {r})
    BY <1>2, <1>6 DEF virtual_read
  <2>2. ASSUME NEW j \in Kinds, <<f, j>> \notin {r}, ReadyAt(f, j) PROVE ReadyAt(f, j)'
    BY <1>4, <2>2 DEF ReadyAt
  <2>3. {r} \in SUBSET Events /\ {} \in SUBSET Events /\ \A e \in {} \cup {r} : e[1] = f
    BY <1>0
  <2>4. UNCHANGED <<in_prog, conn>> /\ ~(n > 0)
    BY <1>3, <1>6
  <2>5. Effect(f, VFD_SEL_READ, {}, {r}, n)
    BY <1>1, <1>3, <1>4, <2>2, <2>3, <2>4 DEF Effect
  <2> QED BY <1>3, <2>1, <2>3, <2>5, CallSteps
<1> QED BY <1>2, <1>5, <1>6

LEMMA virtual_read_nothingSteps ==
  ASSUME IInv, NEW t \in Threads, NEW f \in Own[t], virtual_read_nothing(t, f)
  PROVE  Steps(t)
<1>0. TypeOK /\ Good(t)
  BY DEF IInv
<1>1. /\ buf[f] = 0 /\ th' = [th EXCEPT ![t] = Idle]
      /\ UNCHANGED <<kready, buf, vsel_data, lock, in_prog, conn, inits, raced, arrived>>
      /\ th[t].pc = "run" \/ (th[t].pc = "told" /\ th[t].ev = <<f, VFD_SEL_READ>>)
  BY DEF virtual_read_nothing, Calls
<1>2. th[t].toset = {} /\ th[t].toclr = {}
  BY <1>0, <1>1 DEF Good, Local
<1>3. ASSUME ~raced, NEW g \in Own[t], buf[g] > 0 PROVE g \in vsel_data[VFD_SEL_READ]
  <2>1. g # f /\ Wake(t, g)
    BY <1>0, <1>1, <1>3 DEF Good
  <2> QED BY <1>1, <1>2, <1>3, <2>1 DEF Wake
<1> QED BY <1>1, <1>2, <1>3, BackSteps

LEMMA plain_readSteps ==
  ASSUME IInv, NEW t \in Threads, NEW f \in Own[t], plain_read(t, f)
  PROVE  Steps(t)
<1> DEFINE r == <<f, VFD_SEL_READ>>
<1>0. /\ TypeOK /\ Good(t) /\ f \in Fds /\ r \in Events /\ buf \in [Fds -> 0..MaxLeft]
      /\ VFD_SEL_READ \in Kinds
  BY OwnFds, EventPair DEF IInv, TypeOK
<1>1. /\ ~Followed(f) /\ Calls(t, f, VFD_SEL_READ) /\ kready' = kready \ {r}
      /\ Then(t, {}, {r})
      /\ UNCHANGED <<buf, vsel_data, lock, in_prog, conn, inits, raced, arrived>>
  BY DEF plain_read
<1>2. ~(buf[f] > 0)
  BY <1>0, <1>1 DEF Good, Bytes
<1>3. 0 \in 0..MaxLeft /\ buf[f] = 0 /\ ~(0 > 0)
  BY <1>0, <1>2, SelectBounds
<1>4. buf' = [buf EXCEPT ![f] = 0]
  BY <1>0, <1>1, <1>3
<1>5. ASSUME NEW j \in Kinds, <<f, j>> \notin {r}, ReadyAt(f, j) PROVE ReadyAt(f, j)'
  BY <1>1, <1>5 DEF ReadyAt
<1>6. /\ {r} \in SUBSET Events /\ {} \in SUBSET Events /\ \A e \in {} \cup {r} : e[1] = f
      /\ kready' \subseteq kready /\ \A e \in kready : e[1] # f => e \in kready'
      /\ UNCHANGED <<in_prog, conn>>
  BY <1>0, <1>1
<1>7. Effect(f, VFD_SEL_READ, {}, {r}, 0)
  BY <1>1, <1>3, <1>4, <1>5, <1>6 DEF Effect
<1> QED BY <1>0, <1>1, <1>3, <1>6, <1>7, CallSteps

LEMMA writeSteps ==
  ASSUME IInv, NEW t \in Threads, NEW f \in Own[t], write(t, f)
  PROVE  Steps(t)
<1> DEFINE w == <<f, VFD_SEL_WRITE>>
<1>0. /\ TypeOK /\ Good(t) /\ f \in Fds /\ w \in Events /\ buf \in [Fds -> 0..MaxLeft]
      /\ VFD_SEL_WRITE \in Kinds /\ VFD_SEL_WRITE # VFD_SEL_READ
  BY OwnFds, EventPair DEF IInv, TypeOK
<1>1. /\ Calls(t, f, VFD_SEL_WRITE) /\ kready' \in {kready, kready \ {w}}
      /\ Then(t, {}, {w})
      /\ UNCHANGED <<buf, vsel_data, lock, in_prog, conn, inits, raced, arrived>>
  BY DEF write
<1>2. /\ buf[f] \in 0..MaxLeft /\ buf' = [buf EXCEPT ![f] = buf[f]]
      /\ buf[f] > 0 => Followed(f)' /\ <<f, VFD_SEL_READ>> \notin {w}
  BY <1>0, <1>1 DEF Good, Bytes, Followed
<1>3. ASSUME NEW j \in Kinds, <<f, j>> \notin {w}, ReadyAt(f, j) PROVE ReadyAt(f, j)'
  BY <1>1, <1>3 DEF ReadyAt
<1>4. /\ {w} \in SUBSET Events /\ {} \in SUBSET Events /\ \A e \in {} \cup {w} : e[1] = f
      /\ kready' \subseteq kready /\ \A e \in kready : e[1] # f => e \in kready'
      /\ UNCHANGED <<in_prog, conn>>
  BY <1>0, <1>1
<1> HIDE DEF w
<1>5. PICK n \in 0..MaxLeft : n = buf[f]
  BY <1>2
<1>6. Effect(f, VFD_SEL_WRITE, {}, {w}, buf[f])
  BY <1>0, <1>1, <1>2, <1>3, <1>4 DEF Effect
<1> QED BY <1>0, <1>1, <1>4, <1>5, <1>6, CallSteps

LEMMA ReconnectSteps ==
  ASSUME IInv, NEW t \in Threads, NEW f \in Own[t], Reconnect(t, f)
  PROVE  Steps(t)
<1> DEFINE C == {<<f, k>> : k \in Kinds}
<1>0. f \in Fds /\ VFD_SEL_READ \in Kinds /\ 0 \in 0..MaxLeft /\ ~(0 > 0)
  BY OwnFds, EventPair, SelectBounds
<1>1. /\ Calls(t, f, VFD_SEL_READ) /\ buf' = [buf EXCEPT ![f] = 0]
      /\ kready' = kready \ C /\ f \notin conn
      /\ in_prog' = in_prog \cup {f} /\ conn' = conn \cup {f}
      /\ Then(t, {}, C) /\ UNCHANGED <<vsel_data, lock, inits, raced, arrived>>
  BY DEF Reconnect
<1>2. /\ C \in SUBSET Events /\ {} \in SUBSET Events /\ \A e \in {} \cup C : e[1] = f
      /\ \A j \in Kinds : <<f, j>> \in C
  BY <1>0, EventPair
<1> HIDE DEF C
<1>3. /\ kready' \subseteq kready /\ \A e \in kready : e[1] # f => e \in kready'
  BY <1>1, <1>2
<1>4. Effect(f, VFD_SEL_READ, {}, C, 0)
  BY <1>0, <1>1, <1>2, <1>3 DEF Effect
<1> QED BY <1>0, <1>1, <1>2, <1>4, CallSteps

LEMMA CacheBitsSteps ==
  ASSUME IInv, NEW t \in Threads, CacheBits(t)
  PROVE  Steps(t)
<1> DEFINE S == th[t].toset
           C == IF S # {} THEN {} ELSE th[t].toclr
<1>0. TypeOK /\ Good(t) /\ th[t].pc = "bits" /\ S \in SUBSET Events /\ th[t].toclr \in SUBSET Events
  BY DEF IInv, TypeOK, Thread_, CacheBits
<1>1. /\ vsel_data' = IF S # {} THEN SetBits(S) ELSE ClrBits(th[t].toclr)
      /\ th' = [th EXCEPT ![t] = Idle]
      /\ UNCHANGED <<kready, buf, lock, in_prog, conn, inits, raced, arrived>>
  BY DEF CacheBits
<1>2. /\ th[t].toclr = C /\ \A e \in S \cup C : e[1] \in Own[t]
  BY <1>0 DEF Good, Local
<1>3. /\ vsel_data' \in [Kinds -> SUBSET Fds]
      /\ \A f \in Fds, k \in Kinds :
           f \in vsel_data'[k] <=> <<f, k>> \in S \/ (f \in vsel_data[k] /\ <<f, k>> \notin C)
  <2>1. CASE S # {}
    BY <1>0, <1>1, <2>1, SetsBits
  <2>2. CASE S = {}
    BY <1>0, <1>1, <2>2, SetsBits
  <2> QED BY <2>1, <2>2
<1> HIDE DEF S, C
<1>4. Goes(t, Idle)
  BY <1>0, <1>1, GoesTo, IdleType
<1>5. /\ Idle.pc = "run" /\ Idle.asked = {} /\ Idle.ev = None
      /\ Idle.toset = {} /\ Idle.toclr = {}
  BY DEF Idle
<1>6. TypeOK'
  BY <1>0, <1>1, <1>3, <1>4 DEF TypeOK, Goes
<1>7. ASSUME NEW u \in Threads \ {t} PROVE Apart(u)
  <2>1. ASSUME NEW f \in Own[u], NEW k \in Kinds
        PROVE  f \in Fds /\ <<f, k>> \notin S /\ <<f, k>> \notin C
    BY <1>2, OwnFds
  <2>2. \A f \in Own[u] : Same(f)
    BY <1>1, <1>3, <2>1 DEF Same, Followed
  <2> QED BY <1>1, <1>4, <2>2 DEF Apart, Goes
<1>8. Good(t)'
  <2>2. Local(t)'
    BY <1>4, <1>5 DEF Local, Goes
  <2>3. \A f \in Own[t] : Bytes(t, f)'
    BY <1>0, <1>1, <1>4, <1>5 DEF Good, Bytes, Goes, Followed
  <2>4. ASSUME ~raced, NEW f \in Own[t] PROVE Wake(t, f)'
    <3>1. Wake(t, f) /\ Bytes(t, f) /\ f \in Fds
      BY <1>0, <2>4, OwnFds DEF Good
    <3>2. buf[f] > 0 => /\ <<f, VFD_SEL_READ>> \notin C
                        /\ f \in vsel_data[VFD_SEL_READ] \/ <<f, VFD_SEL_READ>> \in S
      BY <1>0, <1>2, <3>1 DEF Wake, Bytes, S
    <3>3. buf[f] > 0 => f \in vsel_data'[VFD_SEL_READ]
      BY <1>3, <3>1, <3>2, EventPair
    <3> QED BY <1>1, <1>4, <1>5, <3>3 DEF Wake, Goes
  <2>5. ASSUME ~raced, NEW f \in Own[t], NEW k \in Kinds PROVE Real(t, f, k)'
    <3>1. Real(t, f, k) /\ f \in Fds
      BY <1>0, <2>5, OwnFds DEF Good
    <3> QED BY <1>1, <1>2, <1>3, <1>4, <1>5, <3>1 DEF Real, ReadyAt, Goes, S
  <2> QED BY <1>1, <2>2, <2>3, <2>4, <2>5 DEF Good
<1> QED BY <1>6, <1>7, <1>8 DEF Steps

-----------------------------------------------------------------------------
(* The theorems *)

LEMMA InitInv == Init => IInv
<1> SUFFICES ASSUME Init PROVE IInv
  OBVIOUS
<1>1. TypeOK
  <2>1. /\ buf \in [Fds -> 0..MaxLeft] /\ vsel_data \in [Kinds -> SUBSET Fds]
        /\ conn \subseteq Fds /\ inits \in [Fds -> SUBSET Threads] /\ arrived \in 0..MaxEvents
    BY SelectBounds DEF Init
  <2>2. th \in [Threads -> Thread_]
    BY IdleType DEF Init
  <2>3. /\ kready \subseteq Events /\ in_prog \subseteq Fds /\ lock \in Threads \cup {None}
        /\ raced \in BOOLEAN
    BY DEF Init
  <2> QED BY <2>1, <2>2, <2>3 DEF TypeOK
<1>2. ASSUME NEW t \in Threads PROVE Good(t)
  <2>1. /\ th[t] = Idle /\ \A f \in Own[t] : ~(buf[f] > 0)
        /\ \A k \in Kinds : vsel_data[k] = {}
    BY OwnFds DEF Init
  <2>2. /\ Idle.pc = "run" /\ Idle.asked = {} /\ Idle.toset = {} /\ Idle.toclr = {}
    BY DEF Idle
  <2> QED BY <2>1, <2>2 DEF Good, Local, Bytes, Wake, Real
<1>3. \A f \in Fds : Seen(f)
  BY DEF Init, Seen
<1> QED BY <1>1, <1>2, <1>3 DEF IInv

(* Steps that leave connections alone. *)
LEMMA SeenSame ==
  ASSUME IInv, UNCHANGED <<in_prog, conn, inits>>,
         \A u \in Threads : th[u].pc = "ident" => th'[u].pc = "ident" /\ th'[u].ev = th[u].ev
  PROVE  \A f \in Fds : Seen(f)'
BY DEF IInv, Seen

LEMMA SeenInv ==
  ASSUME IInv, Next
  PROVE  \A f \in Fds : Seen(f)'
<1>0. TypeOK /\ (\A f \in Fds : Seen(f)) /\ \A u \in Threads : Good(u)
  BY DEF IInv
<1>1. CASE Kernel
  BY <1>1, SeenSame DEF Kernel, Arrive, Connected, Steal
<1>2. ASSUME NEW t \in Threads, Thread(t) PROVE \A f \in Fds : Seen(f)'
  <2>1. CASE connect_event(t)
    <3> DEFINE g == th[t].ev[1]
    <3>1. /\ in_prog' = in_prog \ {g} /\ UNCHANGED <<conn, inits>>
          /\ th' = [th EXCEPT ![t].pc = "ident"] /\ th[t].pc = "connect"
      BY <2>1 DEF connect_event
    <3>2. th'[t].pc = "ident" /\ th'[t].ev = th[t].ev /\ \A u \in Threads \ {t} : th'[u] = th[u]
      BY <1>0, <3>1 DEF TypeOK, Thread_
    <3> HIDE DEF g
    <3>3. ASSUME NEW f \in Fds PROVE Seen(f)'
      <4>1. CASE f = g
        BY <1>0, <3>1, <3>2, <4>1 DEF Seen, g
      <4>2. CASE f # g
        BY <1>0, <3>1, <3>2, <4>2 DEF Seen
      <4> QED BY <4>1, <4>2
    <3> QED BY <3>3
  <2>2. CASE pp_id_connect(t)
    <3> DEFINE g == th[t].ev[1]
    <3>1. /\ inits' = [inits EXCEPT ![g] = @ \cup {t}] /\ UNCHANGED <<conn, in_prog>>
          /\ th[t].pc = "ident" /\ Return(t)
      BY <2>2 DEF pp_id_connect
    <3>2. g \in Fds /\ g \in conn /\ g \notin in_prog
      BY <1>0, <3>1, EventPair DEF Good, Local
    <3>3. \A u \in Threads \ {t} : th'[u] = th[u]
      BY <1>0, <3>1 DEF Return, TypeOK
    <3> HIDE DEF g
    <3>4. \A f \in Fds : inits'[f] = IF f = g THEN inits[f] \cup {t} ELSE inits[f]
      BY <1>0, <3>1 DEF TypeOK
    <3>5. ASSUME NEW f \in Fds PROVE Seen(f)'
      <4>1. CASE f = g
        BY <3>1, <3>2, <3>4, <4>1 DEF Seen
      <4>2. CASE f # g
        <5>1. \A u \in Threads : th[u].pc = "ident" /\ th[u].ev[1] = f => u # t
          BY <4>2 DEF g
        <5> QED BY <1>0, <3>1, <3>3, <3>4, <4>2, <5>1 DEF Seen
      <4> QED BY <4>1, <4>2
    <3> QED BY <3>5
  <2>3. ASSUME NEW g \in Own[t], Reconnect(t, g) PROVE \A f \in Fds : Seen(f)'
    <3>1. /\ g \notin conn /\ conn' = conn \cup {g} /\ in_prog' = in_prog \cup {g}
          /\ inits' = inits /\ th[t].pc \in {"run", "told"}
          /\ \E w : th' = [th EXCEPT ![t] = w]
      BY <2>3 DEF Reconnect, Calls, Then
    <3>2. \A u \in Threads \ {t} : th'[u] = th[u]
      BY <1>0, <3>1 DEF TypeOK
    <3> QED BY <1>0, <3>1, <3>2 DEF Seen
  <2>4. ASSUME th[t].pc # "ident", UNCHANGED <<in_prog, conn, inits>>,
               \E w : th' = [th EXCEPT ![t] = w]
        PROVE  \A f \in Fds : Seen(f)'
    <3>1. \A u \in Threads \ {t} : th'[u] = th[u]
      BY <1>0, <2>4 DEF TypeOK
    <3> QED BY <2>4, <3>1, SeenSame
  <2>5. CASE FdClrStore(t) \/ SelectWake(t) \/ SelectUpdate(t) \/ SelectFind(t) \/ SelectReturn(t)
    BY <2>4, <2>5 DEF FdClrStore, SelectWake, SelectUpdate, SelectFind, SelectReturn, Return
  <2>6. CASE CacheBits(t) \/ SelectTimeout(t)
    BY <2>4, <2>6 DEF CacheBits, SelectTimeout
  <2>7. ASSUME NEW a \in OwnAsks(t), Select(t, a) PROVE \A f \in Fds : Seen(f)'
    BY <2>4, <2>7 DEF Select, FdClrLoad, SelectEnter
  <2>8. ASSUME NEW g \in Own[t], Serve(t, g) PROVE \A f \in Fds : Seen(f)'
    <3>1. \/ virtual_read(t, g) \/ virtual_read_nothing(t, g)
          \/ plain_read(t, g) \/ write(t, g)
      BY <2>8 DEF Serve
    <3> QED BY <2>4, <3>1 DEF virtual_read, virtual_read_nothing, plain_read, write, Calls, Then
  <2> QED BY <1>2, <2>1, <2>2, <2>3, <2>5, <2>6, <2>7, <2>8 DEF Thread, Inside
<1> QED BY <1>1, <1>2 DEF Next

LEMMA Invariance == Spec => []IInv
<1>1. ASSUME IInv, [Next]_vars PROVE IInv'
  <2>1. CASE Kernel
    <3>1. Next
      BY <2>1 DEF Next
    <3> QED BY <1>1, <2>1, <3>1, KernelInv, SeenInv DEF IInv
  <2>2. ASSUME NEW t \in Threads, Thread(t) PROVE IInv'
    <3>1. ASSUME Inside(t) PROVE Steps(t)
      BY <1>1, <3>1, FdClrStoreSteps, SelectWakeSteps, SelectUpdateSteps,
         SelectFindSteps, SelectReturnSteps, connect_eventSteps, pp_id_connectSteps,
         CacheBitsSteps DEF Inside
    <3>2. ASSUME SelectTimeout(t) PROVE Steps(t)
      BY <1>1, <3>2, SelectTimeoutSteps
    <3>3. ASSUME NEW a \in OwnAsks(t), Select(t, a) PROVE Steps(t)
      BY <1>1, <3>3, FdClrLoadSteps, SelectEnterSteps DEF Select
    <3>4. ASSUME NEW f \in Own[t], Serve(t, f) \/ Reconnect(t, f) PROVE Steps(t)
      BY <1>1, <3>4, virtual_readSteps, virtual_read_nothingSteps,
         plain_readSteps, writeSteps, ReconnectSteps DEF Serve
    <3>5. Steps(t)
      BY <2>2, <3>1, <3>2, <3>3, <3>4 DEF Thread
    <3>6. Next
      BY <2>2 DEF Next
    <3> QED BY <1>1, <3>5, <3>6, StepsInv, SeenInv DEF IInv
  <2>3. CASE UNCHANGED vars
    BY <1>1, <2>3 DEF vars, IInv, TypeOK, Good, Local, Bytes, Wake, Real, ReadyAt, Seen, Followed
  <2> QED BY <1>1, <2>1, <2>2, <2>3 DEF Next
<1> QED BY <1>1, InitInv, PTL DEF Spec

(* Type correctness of the cache and of the threads that use it. *)
THEOREM TypeCorrect == Spec => []TypeOK
<1>1. IInv => TypeOK
  BY DEF IInv
<1> QED BY <1>1, Invariance, PTL

(* No thread sleeps in select() on a descriptor whose buffer holds bytes,  *)
(* and its next select() will report it, for every number of threads and   *)
(* descriptors, as long as no unlocked FD_CLR has raced another update.    *)
THEOREM WakeupsKept == Spec => []NoLostWakeup
<1>1. ASSUME IInv, ~raced, NEW t \in Threads, NEW f \in Own[t], buf[f] > 0
      PROVE  LET r == <<f, VFD_SEL_READ>>
             IN  /\ ~(th[t].pc \in {"insel", "update"} /\ r \in th[t].asked)
                 /\ r \in Bits \/ Telling(t, r) \/ r \in th[t].toset
  <2>1. Wake(t, f) /\ f \in Fds
    BY <1>1, OwnFds DEF IInv, Good
  <2>2. f \in vsel_data[VFD_SEL_READ] => <<f, VFD_SEL_READ>> \in Bits
    BY <2>1, EventPair DEF Bits
  <2> QED BY <1>1, <2>1, <2>2 DEF Wake, Telling
<1>2. IInv => NoLostWakeup
  BY <1>1 DEF NoLostWakeup
<1> QED BY <1>2, Invariance, PTL

(* What is in the cache or was reported can be read or written at once,    *)
(* for every number of threads and descriptors, until such a race.         *)
THEOREM ReportsAreReal == Spec => []ReadyIsReal
<1>1. ASSUME IInv, ~raced, NEW t \in Threads, NEW e \in (Own[t] \ Shared) \X Kinds,
             (e \in Bits /\ e \notin th[t].toclr) \/ (th[t].pc = "told" /\ th[t].ev = e)
      PROVE  Ready(e)
  <2>1. e[1] \in Own[t] /\ e[1] \notin Shared /\ e[2] \in Kinds /\ e = <<e[1], e[2]>>
    OBVIOUS
  <2>2. Real(t, e[1], e[2])
    BY <1>1, <2>1 DEF IInv, Good
  <2>3. e \in Bits => e[1] \in vsel_data[e[2]]
    BY DEF Bits
  <2> QED BY <1>1, <2>1, <2>2, <2>3 DEF Real, ReadyAt, Ready
<1>2. IInv => ReadyIsReal
  BY <1>1 DEF ReadyIsReal
<1> QED BY <1>2, Invariance, PTL

(* Whichever thread meets the end of a connect() first, and however many  *)
(* threads are at it: when the application hears of it, connect_event() has *)
(* set up the protocol processor or another thread is still between the    *)
(* two halves of connect_event(); no race of the cache undoes that.        *)
THEOREM ConnectsSeen == Spec => []ConnectSeen
<1>1. ASSUME IInv, NEW t \in Threads, th[t].pc = "told", th[t].ev[1] \in conn
      PROVE  LET f == th[t].ev[1]
             IN  /\ f \notin in_prog
                 /\ \/ inits[f] # {}
                    \/ \E u \in Threads \ {t} : th[u].pc = "ident" /\ th[u].ev[1] = f
  <2>1. th[t].ev \in Events /\ th[t].ev[1] \notin in_prog /\ Seen(th[t].ev[1])
    BY <1>1, EventPair DEF IInv, Good, Local
  <2> QED BY <1>1, <2>1 DEF Seen
<1>2. IInv => ConnectSeen
  BY <1>1 DEF IInv, Good, Local, ConnectSeen
<1> QED BY <1>2, Invariance, PTL
=============================================================================
