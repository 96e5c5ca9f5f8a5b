------------------------- MODULE VirtualReadProofs -------------------------
(***************************************************************************)
(* Proofs about VirtualRead, for every buffer size, PP and bound.          *)
(*                                                                         *)
(* The inductive invariant IInv says how the indices of vfd_t relate to    *)
(* each other, to the PP and to the stream.  One lemma per function of     *)
(* vfd.c says what that function does to it.                               *)
(***************************************************************************)
EXTENDS VirtualRead, TLAPS

(* rcv is the first n bytes of connection c. *)
Prefix(rcv, c, n) == rcv = [i \in 1..n |-> <<c, i>>]

(* w holds the last rbuflen of the first k bytes of connection c. *)
Holds(w, c, k) ==
  /\ w \in Vfd
  /\ w.rbufofs <= w.rbuflen /\ w.rlastlen <= w.rbuflen /\ w.rbuflen <= k
  /\ \A i \in 0..w.rbuflen-1 : w.rbuf[i] = <<c, k - w.rbuflen + i + 1>>

(* The application may have what the PP has consumed; while the PP wants   *)
(* more, all there is.                                                     *)
Released(w, asked) ==
  /\ w.ppwantmore = 0 => w.rlastlen + w.tosend = w.rbufofs /\ asked = 0
  /\ w.ppwantmore = 1 => /\ w.rlastlen + w.tosend = w.rbuflen
                         /\ w.rbufofs <= w.rlastlen
                         /\ asked = w.rbuflen - w.rbufofs
                         /\ asked \in 1..MaxNeed-1

Opened ==
  /\ Holds(v, conn, kread)
  /\ Released(v, pp.asked)
  /\ pp.parsed = kread - v.rbuflen + v.rbufofs
  /\ Prefix(received, conn, kread - v.rbuflen + v.rlastlen)

(* The one way to a failed assertion: the PP has claimed more than there   *)
(* is.                                                                     *)
Claimed ==
  app = "aborted" => v.tosend # 0 /\ v.rlastlen < VBUFSIZE /\ pp.parsed > kread

IInv == TypeOK /\ (isopen => Opened) /\ Claimed

USE VbufsizeAssumption, MaxNeedAssumption, ReselectAssumption, BoundsAssumption

-----------------------------------------------------------------------------
(* A record with the fields of vfd_t, each of its type, is a Vfd. *)
LEMMA VfdIntro ==
  ASSUME NEW w,
         w = [rbuf |-> w.rbuf, rbuflen |-> w.rbuflen, rbufofs |-> w.rbufofs,
              rlastlen |-> w.rlastlen, tosend |-> w.tosend, ppwantmore |-> w.ppwantmore],
         w.rbuf \in [0..VBUFSIZE-1 -> Bytes], w.rbuflen \in 0..VBUFSIZE,
         w.rbufofs \in 0..VBUFSIZE, w.rlastlen \in 0..VBUFSIZE,
         w.tosend \in 0..VBUFSIZE, w.ppwantmore \in {0, 1}
  PROVE  w \in Vfd
BY DEF Vfd

(* The fields of a Vfd that holds part of the stream. *)
LEMMA HoldsElim ==
  ASSUME NEW w, NEW c, NEW k \in Nat, Holds(w, c, k)
  PROVE  /\ w \in Vfd
         /\ w.rbuf \in [0..VBUFSIZE-1 -> Bytes]
         /\ w.rbuflen \in 0..VBUFSIZE /\ w.rbufofs \in 0..VBUFSIZE
         /\ w.rlastlen \in 0..VBUFSIZE /\ w.tosend \in 0..VBUFSIZE
         /\ w.ppwantmore \in {0, 1}
         /\ w.rbufofs <= w.rbuflen /\ w.rlastlen <= w.rbuflen /\ w.rbuflen <= k
BY DEF Holds, Vfd

(* buf_shift() drops a prefix and keeps the rest.  Called when nothing is  *)
(* owed to the application and the PP cannot go on, it leaves exactly the  *)
(* bytes the PP asked for more of.                                         *)
LEMMA ShiftLemma ==
  ASSUME NEW w, NEW c, NEW k \in Nat, NEW asked,
         Holds(w, c, k), Released(w, asked), w.tosend = 0,
         ~(w.rbufofs < w.rbuflen /\ w.ppwantmore = 0)
  PROVE  /\ Holds(buf_shift(w), c, k)
         /\ Released(buf_shift(w), asked)
         /\ buf_shift(w).rbufofs = 0 /\ buf_shift(w).tosend = 0
         /\ buf_shift(w).rbuflen = w.rbuflen - w.rbufofs
         /\ buf_shift(w).rlastlen = w.rlastlen - w.rbufofs
         /\ buf_shift(w).rlastlen = buf_shift(w).rbuflen
         /\ buf_shift(w).rbuflen = asked
         /\ buf_shift(w).ppwantmore = w.ppwantmore
<1> DEFINE begin  == Min(w.rbufofs, w.rlastlen)
           tomove == w.rbuflen - begin
           s      == buf_shift(w)
<1>1. /\ w \in Vfd
      /\ w.rbuf \in [0..VBUFSIZE-1 -> Bytes]
      /\ w.rbuflen \in 0..VBUFSIZE /\ w.rbufofs \in 0..VBUFSIZE
      /\ w.rlastlen \in 0..VBUFSIZE /\ w.tosend \in 0..VBUFSIZE
      /\ w.ppwantmore \in {0, 1}
      /\ w.rbufofs <= w.rbuflen /\ w.rlastlen <= w.rbuflen /\ w.rbuflen <= k
  BY HoldsElim
<1>2. begin = w.rbufofs
  BY <1>1 DEF Released, Min
<1>3. /\ w.ppwantmore = 0 => w.rbufofs = w.rbuflen /\ asked = 0
      /\ w.ppwantmore = 1 => asked = w.rbuflen - w.rbufofs
      /\ w.rlastlen = w.rbuflen
  BY <1>1 DEF Released
<1>4. s = [w EXCEPT
        !.rbuf = [i \in 0..VBUFSIZE-1 |->
                    IF i < tomove THEN w.rbuf[i + begin] ELSE w.rbuf[i]],
        !.rbufofs  = w.rbufofs - begin,
        !.rbuflen  = w.rbuflen - begin,
        !.rlastlen = w.rlastlen - begin]
  BY <1>1 DEF buf_shift, Vfd
<1> HIDE DEF begin, s
<1>5. /\ s.rbuf = [i \in 0..VBUFSIZE-1 |->
                     IF i < tomove THEN w.rbuf[i + begin] ELSE w.rbuf[i]]
      /\ s.rbufofs = 0 /\ s.rbuflen = w.rbuflen - w.rbufofs
      /\ s.rlastlen = w.rlastlen - w.rbufofs
      /\ s.tosend = 0 /\ s.ppwantmore = w.ppwantmore
  BY <1>1, <1>2, <1>4 DEF Vfd
<1>6. s.rbuf \in [0..VBUFSIZE-1 -> Bytes]
  BY <1>1, <1>2, <1>5, SMTT(40)
<1>7. s \in Vfd
  <2>1. s = [rbuf |-> s.rbuf, rbuflen |-> s.rbuflen, rbufofs |-> s.rbufofs,
             rlastlen |-> s.rlastlen, tosend |-> s.tosend, ppwantmore |-> s.ppwantmore]
    BY <1>1, <1>4 DEF Vfd
  <2> QED BY <2>1, <1>1, <1>2, <1>3, <1>5, <1>6, SMTT(60) DEF Vfd
<1>8. \A i \in 0..s.rbuflen-1 : s.rbuf[i] = <<c, k - s.rbuflen + i + 1>>
  <2> TAKE i \in 0..s.rbuflen-1
  <2>1. i \in 0..VBUFSIZE-1 /\ i < tomove /\ i + begin \in 0..w.rbuflen-1
    BY <1>1, <1>2, <1>5, SMTT(60)
  <2>2. s.rbuf[i] = w.rbuf[i + begin]
    BY <2>1, <1>5
  <2>3. w.rbuf[i + begin] = <<c, k - w.rbuflen + (i + begin) + 1>>
    BY <2>1 DEF Holds
  <2>4. k - w.rbuflen + (i + begin) + 1 = k - s.rbuflen + i + 1
    BY <1>1, <1>2, <1>5, SMTT(40)
  <2> QED BY <2>2, <2>3, <2>4
<1>9. Holds(s, c, k)
  <2>1. s.rbufofs <= s.rbuflen /\ s.rlastlen <= s.rbuflen /\ s.rbuflen <= k
    BY <1>1, <1>3, <1>5
  <2> QED BY <2>1, <1>7, <1>8 DEF Holds
<1>10. Released(s, asked)
  BY <1>1, <1>3, <1>5 DEF Released
<1> QED BY <1>1, <1>3, <1>5, <1>9, <1>10 DEF s

(* The kernel's bytes land right behind the ones the buffer holds. *)
LEMMA FillLemma ==
  ASSUME NEW w, NEW r \in 1..Space(w),
         kread \in Nat, conn \in 0..MaxConns, kread + r <= MaxSent,
         Holds(w, conn, kread)
  PROVE  /\ Holds(fill(w, r), conn, kread + r)
         /\ fill(w, r).rbuflen = w.rbuflen + r
         /\ fill(w, r).rbufofs = w.rbufofs /\ fill(w, r).rlastlen = w.rlastlen
         /\ fill(w, r).tosend = w.tosend /\ fill(w, r).ppwantmore = w.ppwantmore
<1> DEFINE f == fill(w, r)
<1>1. /\ w \in Vfd
      /\ w.rbuf \in [0..VBUFSIZE-1 -> Bytes]
      /\ w.rbuflen \in 0..VBUFSIZE /\ w.rbufofs \in 0..VBUFSIZE
      /\ w.rlastlen \in 0..VBUFSIZE /\ w.tosend \in 0..VBUFSIZE
      /\ w.ppwantmore \in {0, 1}
      /\ w.rbufofs <= w.rbuflen /\ w.rlastlen <= w.rbuflen /\ w.rbuflen <= kread
  BY HoldsElim
<1>a. /\ VBUFSIZE \in Nat /\ MaxSent \in Nat /\ MaxNeed \in Nat
      /\ w.rbuflen \in 0..VBUFSIZE /\ w.rbufofs \in 0..VBUFSIZE
      /\ w.rlastlen \in 0..VBUFSIZE /\ w.tosend \in 0..VBUFSIZE
      /\ w.rbufofs <= w.rbuflen /\ w.rlastlen <= w.rbuflen /\ w.rbuflen <= kread
  BY <1>1
<1>2. r \in Nat /\ 1 <= r /\ w.rbuflen + r <= VBUFSIZE
  BY <1>1, SMTT(40) DEF Space
<1>3. f = [w EXCEPT
       !.rbuf = [i \in 0..VBUFSIZE-1 |->
                   IF w.rbuflen <= i /\ i < w.rbuflen + r
                   THEN <<conn, kread + 1 + i - w.rbuflen>> ELSE w.rbuf[i]],
       !.rbuflen = w.rbuflen + r]
  BY <1>1 DEF fill, BS!Byte, Vfd
<1> HIDE DEF f
<1>4. /\ f = [rbuf |-> f.rbuf, rbuflen |-> f.rbuflen, rbufofs |-> f.rbufofs,
              rlastlen |-> f.rlastlen, tosend |-> f.tosend, ppwantmore |-> f.ppwantmore]
      /\ f.rbuf = [i \in 0..VBUFSIZE-1 |->
                   IF w.rbuflen <= i /\ i < w.rbuflen + r
                   THEN <<conn, kread + 1 + i - w.rbuflen>> ELSE w.rbuf[i]]
      /\ f.rbuflen = w.rbuflen + r
      /\ f.rbufofs = w.rbufofs /\ f.rlastlen = w.rlastlen
      /\ f.tosend = w.tosend /\ f.ppwantmore = w.ppwantmore
  BY <1>1, <1>3 DEF Vfd
<1>b. f.rbuflen = w.rbuflen + r
  BY <1>4
<1>5. f.rbuf \in [0..VBUFSIZE-1 -> Bytes]
  <2>1. \A i \in 0..VBUFSIZE-1 : w.rbuflen <= i /\ i < w.rbuflen + r
          => kread + 1 + i - w.rbuflen \in 0..MaxSent
    BY <1>a, <1>2
  <2>2. \A i \in 0..VBUFSIZE-1 : f.rbuf[i] \in Bytes
    <3> TAKE i \in 0..VBUFSIZE-1
    <3>1. CASE w.rbuflen <= i /\ i < w.rbuflen + r
      BY <3>1, <2>1, <1>4, SMTT(40) DEF Bytes
    <3>2. CASE ~(w.rbuflen <= i /\ i < w.rbuflen + r)
      BY <3>2, <1>1, <1>4, ZenonT(60)
    <3> QED BY <3>1, <3>2
  <2> QED BY <2>2, <1>4
<1>6. f \in Vfd
  <2>1. f.rbuflen \in 0..VBUFSIZE
    BY <1>a, <1>2, <1>4, SMTT(60)
  <2> QED BY <2>1, <1>1, <1>4, <1>5, VfdIntro
<1>7. \A i \in 0..f.rbuflen-1 : f.rbuf[i] = <<conn, (kread + r) - f.rbuflen + i + 1>>
  <2> TAKE i \in 0..f.rbuflen-1
  <2>1. i \in 0..VBUFSIZE-1 /\ i < w.rbuflen + r
        /\ (kread + r) - f.rbuflen + i + 1 = kread - w.rbuflen + i + 1
    BY <1>a, <1>2, <1>b
  <2>2. CASE w.rbuflen <= i
    <3>1. f.rbuf[i] = <<conn, kread + 1 + i - w.rbuflen>>
      BY <2>1, <2>2, <1>4
    <3>2. kread + 1 + i - w.rbuflen = kread - w.rbuflen + i + 1
      BY <2>1, <1>1, SMTT(60)
    <3> QED BY <3>1, <3>2, <2>1
  <2>3. CASE ~(w.rbuflen <= i)
    <3>1. f.rbuf[i] = w.rbuf[i] /\ i \in 0..w.rbuflen-1
      <4>1. i \in 0..w.rbuflen-1
        BY <2>1, <2>3, <1>a
      <4> QED BY <4>1, <2>1, <2>3, <1>4
    <3>2. w.rbuf[i] = <<conn, kread - w.rbuflen + i + 1>>
      BY <3>1 DEF Holds
    <3> QED BY <3>1, <3>2, <2>1
  <2> QED BY <2>2, <2>3
<1>8. Holds(f, conn, kread + r)
  <2>1. f.rbufofs <= f.rbuflen /\ f.rlastlen <= f.rbuflen /\ f.rbuflen <= kread + r
    BY <1>1, <1>2, <1>4, SMTT(60)
  <2> QED BY <2>1, <1>6, <1>7 DEF Holds
<1> QED BY <1>4, <1>8 DEF f

(* present_pp() on a buffer whose unconsumed part is more than what the PP *)
(* last asked about: something is released, and a boundary the PP finds    *)
(* lies ahead of the application.                                          *)
LEMMA PresentLemma ==
  ASSUME NEW w, NEW c, NEW k \in Nat, Holds(w, c, k),
         pp.asked \in Nat, w.rlastlen = w.rbufofs + pp.asked, w.rlastlen < w.rbuflen,
         NEW a \in pp_read(w.rbuflen - w.rbufofs), a <= w.rbuflen - w.rbufofs
  PROVE  LET p == present_pp(w, a)
         IN  /\ Holds(p, c, k)
             /\ Released(p, IF a < 0 THEN w.rbuflen - w.rbufofs ELSE 0)
             /\ p.rbuf = w.rbuf
             /\ p.rbuflen = w.rbuflen /\ p.rlastlen = w.rlastlen
             /\ p.tosend \in 1..VBUFSIZE
             /\ p.rlastlen + p.tosend <= p.rbuflen
             /\ a < 0 => p.rbufofs = w.rbufofs
             /\ ~(a < 0) => /\ p.rbufofs = w.rbufofs + a
                            /\ p.rlastlen + p.tosend = p.rbufofs
<1> DEFINE p == present_pp(w, a)
           amt == w.rbuflen - w.rbufofs
<1>1. /\ w \in Vfd
      /\ w.rbuf \in [0..VBUFSIZE-1 -> Bytes]
      /\ w.rbuflen \in 0..VBUFSIZE /\ w.rbufofs \in 0..VBUFSIZE
      /\ w.rlastlen \in 0..VBUFSIZE /\ w.tosend \in 0..VBUFSIZE
      /\ w.ppwantmore \in {0, 1}
      /\ w.rbufofs <= w.rbuflen /\ w.rlastlen <= w.rbuflen /\ w.rbuflen <= k
  BY HoldsElim
<1>a. /\ VBUFSIZE \in Nat /\ MaxSent \in Nat /\ MaxNeed \in Nat
      /\ w.rbuflen \in 0..VBUFSIZE /\ w.rbufofs \in 0..VBUFSIZE
      /\ w.rlastlen \in 0..VBUFSIZE /\ w.tosend \in 0..VBUFSIZE
      /\ w.rbufofs <= w.rbuflen /\ w.rlastlen <= w.rbuflen /\ w.rbuflen <= k
  BY <1>1
<1>2. w.rbuflen # w.rbufofs /\ amt \in 1..VBUFSIZE
  BY <1>1, SMTT(40)
<1>3. /\ a \in Int
      /\ a < 0 => amt < MaxNeed
      /\ ~(a < 0) => a \in 1..amt /\ a > pp.asked
  BY <1>2 DEF pp_read
<1>4. CASE a < 0
  <2>1. p = [w EXCEPT !.tosend = w.rbuflen - w.rlastlen, !.ppwantmore = 1]
    BY <1>2, <1>4 DEF present_pp
  <2> HIDE DEF p
  <2>2. /\ p = [rbuf |-> p.rbuf, rbuflen |-> p.rbuflen, rbufofs |-> p.rbufofs,
                rlastlen |-> p.rlastlen, tosend |-> p.tosend, ppwantmore |-> p.ppwantmore]
        /\ p.rbuf = w.rbuf
        /\ p.rbuflen = w.rbuflen /\ p.rbufofs = w.rbufofs /\ p.rlastlen = w.rlastlen
        /\ p.tosend = w.rbuflen - w.rlastlen /\ p.ppwantmore = 1
    BY <1>1, <2>1 DEF Vfd
  <2>a. p.tosend \in 0..VBUFSIZE /\ p.tosend \in 1..VBUFSIZE /\ p.rlastlen + p.tosend <= p.rbuflen
    BY <1>a, <2>2
  <2>3. p \in Vfd
    BY <1>1, <2>2, <2>a, VfdIntro
  <2>4. Holds(p, c, k)
    BY <2>2, <2>3 DEF Holds
  <2>5. Released(p, amt)
    BY <1>a, <1>2, <1>3, <1>4, <2>2 DEF Released
  <2> QED BY <1>4, <2>2, <2>a, <2>4, <2>5 DEF p
<1>5. CASE ~(a < 0)
  <2>1. p = [w EXCEPT !.rbufofs = w.rbufofs + a,
                      !.tosend = w.rbufofs + a - w.rlastlen, !.ppwantmore = 0]
    BY <1>1, <1>2, <1>5 DEF present_pp, Vfd
  <2> HIDE DEF p
  <2>2. /\ p = [rbuf |-> p.rbuf, rbuflen |-> p.rbuflen, rbufofs |-> p.rbufofs,
                rlastlen |-> p.rlastlen, tosend |-> p.tosend, ppwantmore |-> p.ppwantmore]
        /\ p.rbuf = w.rbuf
        /\ p.rbuflen = w.rbuflen /\ p.rbufofs = w.rbufofs + a /\ p.rlastlen = w.rlastlen
        /\ p.tosend = w.rbufofs + a - w.rlastlen /\ p.ppwantmore = 0
    BY <1>1, <2>1 DEF Vfd
  <2>3. /\ p.rbufofs \in 0..VBUFSIZE /\ p.rbufofs <= p.rbuflen
        /\ p.tosend \in 0..VBUFSIZE /\ p.tosend \in 1..VBUFSIZE
        /\ p.rlastlen + p.tosend <= p.rbuflen
        /\ p.rlastlen + p.tosend = p.rbufofs
    BY <1>a, <1>2, <1>3, <1>5, <2>2
  <2>4. p \in Vfd
    BY <1>1, <2>2, <2>3, VfdIntro
  <2>5. Holds(p, c, k)
    BY <2>2, <2>3, <2>4 DEF Holds
  <2>6. Released(p, 0)
    BY <2>2, <2>3 DEF Released
  <2> QED BY <1>5, <2>2, <2>3, <2>5, <2>6 DEF p
<1> QED BY <1>4, <1>5

(* The first m bytes of a connection followed by the next n. *)
LEMMA ConcatLemma ==
  ASSUME NEW c, NEW m \in Nat, NEW n \in Nat
  PROVE  [i \in 1..m |-> <<c, i>>] \o [j \in 1..n |-> <<c, m + j>>]
           = [i \in 1..(m + n) |-> <<c, i>>]
<1> DEFINE S == [i \in 1..m |-> <<c, i>>]
           T == [j \in 1..n |-> <<c, m + j>>]
           U == [i \in 1..(m + n) |-> <<c, i>>]
           B == {<<c, x>> : x \in Nat}
<1>1. S \in Seq(B) /\ T \in Seq(B) /\ U \in Seq(B)
  OBVIOUS
<1>2. Len(S) = m /\ Len(T) = n /\ Len(U) = m + n
  OBVIOUS
<1>3. S \o T \in Seq(B) /\ Len(S \o T) = m + n
  BY <1>1, <1>2
<1>4. \A i \in 1..(m + n) : (S \o T)[i] = U[i]
  <2> TAKE i \in 1..(m + n)
  <2>1. (S \o T)[i] = IF i <= m THEN S[i] ELSE T[i - m]
    BY <1>1, <1>2, SMTT(40)
  <2>2. CASE i <= m
    BY <2>1, <2>2
  <2>3. CASE ~(i <= m)
    <3>1. i - m \in 1..n /\ m + (i - m) = i
      BY <2>3
    <3> QED BY <2>1, <2>3, <3>1
  <2> QED BY <2>2, <2>3
<1>5. U \in Seq(B) /\ Len(U) = m + n
  BY <1>1, <1>2
<1> HIDE DEF S, T, U, B
<1>6. S \o T = U
  BY <1>3, <1>4, <1>5, SMTT(40)
<1> QED BY <1>6 DEF S, T, U

(* buf_ret() hands the next bytes of the stream to the application, at     *)
(* least one and at most tosend.                                           *)
LEMMA RetLemma ==
  ASSUME NEW w, NEW c, NEW k \in Nat, NEW asked, NEW len \in 1..MaxLen,
         Holds(w, c, k), Released(w, asked),
         w.tosend \in 1..VBUFSIZE, w.rlastlen + w.tosend <= w.rbuflen,
         Prefix(received, c, k - w.rbuflen + w.rlastlen),
         buf_ret(w, len)
  PROVE  /\ Holds(v', c, k) /\ Released(v', asked)
         /\ v'.rbuflen = w.rbuflen /\ v'.rbufofs = w.rbufofs
         /\ v'.rlastlen > w.rlastlen
         /\ v'.rlastlen <= w.rlastlen + w.tosend
         /\ Prefix(received', c, k - v'.rbuflen + v'.rlastlen)
         /\ readable' = (v'.rlastlen # v'.rbuflen)
<1> DEFINE n == Min(len, w.tosend)
           m == k - w.rbuflen + w.rlastlen
<1>1. /\ w \in Vfd
      /\ w.rbuf \in [0..VBUFSIZE-1 -> Bytes]
      /\ w.rbuflen \in 0..VBUFSIZE /\ w.rbufofs \in 0..VBUFSIZE
      /\ w.rlastlen \in 0..VBUFSIZE /\ w.tosend \in 0..VBUFSIZE
      /\ w.ppwantmore \in {0, 1}
      /\ w.rbufofs <= w.rbuflen /\ w.rlastlen <= w.rbuflen /\ w.rbuflen <= k
  BY HoldsElim
<1>a. /\ VBUFSIZE \in Nat /\ MaxSent \in Nat /\ MaxNeed \in Nat
      /\ w.rbuflen \in 0..VBUFSIZE /\ w.rbufofs \in 0..VBUFSIZE
      /\ w.rlastlen \in 0..VBUFSIZE /\ w.tosend \in 0..VBUFSIZE
      /\ w.rbufofs <= w.rbuflen /\ w.rlastlen <= w.rbuflen /\ w.rbuflen <= k
  BY <1>1
<1>2. n \in Nat /\ 1 <= n /\ n <= w.tosend /\ m \in Nat
  BY <1>a DEF Min
<1>c. w.rlastlen + w.tosend <= w.rbuflen
  OBVIOUS
<1>3. /\ received' = received \o [j \in 1..n |-> w.rbuf[w.rlastlen + j - 1]]
      /\ v' = [w EXCEPT !.rlastlen = w.rlastlen + n, !.tosend = w.tosend - n]
      /\ readable' = (w.rlastlen + n # w.rbuflen)
  BY <1>1 DEF buf_ret, Vfd
<1> HIDE DEF n
<1>4. /\ v' = [rbuf |-> v'.rbuf, rbuflen |-> v'.rbuflen, rbufofs |-> v'.rbufofs,
               rlastlen |-> v'.rlastlen, tosend |-> v'.tosend, ppwantmore |-> v'.ppwantmore]
      /\ v'.rbuf = w.rbuf
      /\ v'.rbuflen = w.rbuflen /\ v'.rbufofs = w.rbufofs
      /\ v'.rlastlen = w.rlastlen + n /\ v'.tosend = w.tosend - n
      /\ v'.ppwantmore = w.ppwantmore
  BY <1>1, <1>3 DEF Vfd
<1>b. /\ v'.rbuflen = w.rbuflen /\ v'.rbufofs = w.rbufofs
      /\ v'.rlastlen = w.rlastlen + n /\ v'.tosend = w.tosend - n
      /\ v'.ppwantmore = w.ppwantmore
  BY <1>4
<1>5. /\ v'.rlastlen \in 0..VBUFSIZE /\ v'.tosend \in 0..VBUFSIZE
      /\ v'.rlastlen <= v'.rbuflen
      /\ v'.rlastlen > w.rlastlen /\ v'.rlastlen <= w.rlastlen + w.tosend
      /\ v'.rlastlen + v'.tosend = w.rlastlen + w.tosend
      /\ k - v'.rbuflen + v'.rlastlen = m + n
  <2> HIDE DEF m
  <2>1. w.rlastlen + n \in 0..VBUFSIZE /\ w.tosend - n \in 0..VBUFSIZE
    <3>1. w.rlastlen \in Nat /\ w.tosend \in Nat /\ w.rbuflen \in Nat
          /\ w.rbuflen <= VBUFSIZE /\ w.tosend <= VBUFSIZE
      BY <1>a
    <3>2. 0 <= w.rlastlen + n /\ w.rlastlen + n <= VBUFSIZE
      BY <3>1, <1>2, <1>c
    <3>3. 0 <= w.tosend - n /\ w.tosend - n <= VBUFSIZE
      BY <3>1, <1>2
    <3> QED BY <3>1, <3>2, <3>3, <1>2
  <2>2. w.rlastlen + n <= w.rbuflen /\ w.rlastlen + n > w.rlastlen
        /\ w.rlastlen + n <= w.rlastlen + w.tosend
    BY <1>a, <1>2, <1>c
  <2>3. (w.rlastlen + n) + (w.tosend - n) = w.rlastlen + w.tosend
    BY <1>a, <1>2
  <2>4. k - w.rbuflen + (w.rlastlen + n) = m + n
    BY <1>a, <1>2 DEF m
  <2> QED BY <2>1, <2>2, <2>3, <2>4, <1>b
<1>6. v' \in Vfd
  BY <1>1, <1>4, <1>5, VfdIntro
<1>7. Holds(v', c, k)
  BY <1>4, <1>5, <1>6 DEF Holds
<1>8. Released(v', asked)
  <2>1. w.rbufofs <= w.rlastlen => w.rbufofs <= v'.rlastlen
    BY <1>a, <1>2, <1>b
  <2> QED BY <2>1, <1>b, <1>5 DEF Released
<1>9. [j \in 1..n |-> w.rbuf[w.rlastlen + j - 1]] = [j \in 1..n |-> <<c, m + j>>]
  <2>1. ASSUME NEW j \in 1..n
        PROVE  w.rbuf[w.rlastlen + j - 1] = <<c, m + j>>
    <3>1. /\ w.rlastlen + j - 1 \in 0..w.rbuflen-1
          /\ k - w.rbuflen + (w.rlastlen + j - 1) + 1 = m + j
      <4>1. w.rlastlen \in Nat /\ w.tosend \in Nat /\ w.rbuflen \in Nat /\ j \in Nat
            /\ 1 <= j /\ j <= n
        BY <1>a, <1>2
      <4>2. 0 <= w.rlastlen + j - 1 /\ w.rlastlen + j - 1 <= w.rbuflen - 1
        BY <4>1, <1>2, <1>c
      <4>3. k - w.rbuflen + (w.rlastlen + j - 1) + 1 = m + j
        BY <4>1
      <4> QED BY <4>1, <4>2, <4>3
    <3> QED BY <3>1 DEF Holds
  <2> QED BY <2>1
<1>10. received' = [i \in 1..(m + n) |-> <<c, i>>]
  <2> HIDE DEF m
  <2>1. received = [i \in 1..m |-> <<c, i>>]
    BY DEF m, Prefix
  <2>2. [i \in 1..m |-> <<c, i>>] \o [j \in 1..n |-> <<c, m + j>>]
          = [i \in 1..(m + n) |-> <<c, i>>]
    BY <1>2, ConcatLemma
  <2> QED BY <2>1, <2>2, <1>3, <1>9
<1> QED BY <1>3, <1>b, <1>5, <1>7, <1>8, <1>10 DEF Prefix

-----------------------------------------------------------------------------
(* The types of what Opened relates. *)
LEMMA OpenedTypes ==
  ASSUME NEW w, NEW c \in 0..MaxConns, NEW k \in 0..MaxSent, NEW asked,
         Holds(w, c, k), Released(w, asked)
  PROVE  LET m == k - w.rbuflen + w.rlastlen
         IN  /\ k - w.rbuflen + w.rbufofs \in Nat
             /\ asked \in 0..VBUFSIZE
             /\ m \in 0..k
             /\ [i \in 1..m |-> <<c, i>>] \in Seq(Bytes)
             /\ Len([i \in 1..m |-> <<c, i>>]) = m
<1> DEFINE m == k - w.rbuflen + w.rlastlen
<1>1. /\ w.rbuflen \in 0..VBUFSIZE /\ w.rbufofs \in 0..VBUFSIZE
      /\ w.rlastlen \in 0..VBUFSIZE /\ w.tosend \in 0..VBUFSIZE
      /\ w.ppwantmore \in {0, 1}
      /\ w.rbufofs <= w.rbuflen /\ w.rlastlen <= w.rbuflen /\ w.rbuflen <= k
  BY HoldsElim
<1>2. k - w.rbuflen + w.rbufofs \in Nat /\ m \in 0..k
  BY <1>1
<1>3. asked \in 0..VBUFSIZE
  BY <1>1 DEF Released
<1> HIDE DEF m
<1>4. \A i \in 1..m : <<c, i>> \in Bytes
  BY <1>2 DEF Bytes
<1>5. [i \in 1..m |-> <<c, i>>] \in Seq(Bytes) /\ Len([i \in 1..m |-> <<c, i>>]) = m
  BY <1>2, <1>4
<1> QED BY <1>2, <1>3, <1>5 DEF m

(* What a read() that returns bytes does. *)
ReadResult ==
  /\ TypeOK' /\ Opened' /\ IsolatedStep /\ BS!BDeliver
  /\ isopen' /\ app' = "run" /\ readable' = (v'.rlastlen # v'.rbuflen)

(* What a read() does in which the PP claims more than there is. *)
AbortResult ==
  /\ TypeOK' /\ Claimed' /\ IsolatedStep /\ BS!BClose
  /\ ~isopen' /\ app' = "aborted" /\ readable' = FALSE

(* The common end of the three ways through virtual_read(): w is the entry *)
(* when buf_ret() is called, k what the kernel has given by then.          *)
LEMMA ReturnLemma ==
  ASSUME TypeOK, isopen, Prefix(received, conn, Len(received)),
         NEW w, NEW k \in 0..sent, NEW len \in 1..MaxLen,
         Holds(w, conn, k), Released(w, pp'.asked),
         w.tosend \in 1..VBUFSIZE, w.rlastlen + w.tosend <= w.rbuflen,
         Len(received) = k - w.rbuflen + w.rlastlen,
         pp' \in [parsed : Int, asked : Int],
         pp'.parsed = k - w.rbuflen + w.rbufofs,
         \/ /\ pp'.parsed = pp.parsed
            /\ pp.parsed <= Len(received) \/ w.rlastlen + w.tosend <= w.rbufofs
         \/ pp.parsed <= Len(received) /\ w.rlastlen + w.tosend <= w.rbufofs,
         buf_ret(w, len), kread' = k, app' = "run", UNCHANGED <<net, eof>>
  PROVE  ReadResult
<1>1. /\ Holds(v', conn, k) /\ Released(v', pp'.asked)
      /\ v'.rbuflen = w.rbuflen /\ v'.rbufofs = w.rbufofs
      /\ v'.rlastlen > w.rlastlen
      /\ v'.rlastlen <= w.rlastlen + w.tosend
      /\ Prefix(received', conn, k - v'.rbuflen + v'.rlastlen)
      /\ readable' = (v'.rlastlen # v'.rbuflen)
  <2>1. k \in Nat
    BY DEF TypeOK
  <2>2. Prefix(received, conn, k - w.rbuflen + w.rlastlen)
    OBVIOUS
  <2> QED BY <2>1, <2>2, RetLemma
<1>2. /\ conn' = conn /\ isopen' = isopen /\ sent' = sent /\ shut' = shut /\ eof' = eof
      /\ conn \in 0..MaxConns /\ sent \in 0..MaxSent /\ k \in 0..MaxSent
  BY DEF TypeOK, net
<1> DEFINE m == k - v'.rbuflen + v'.rlastlen
<1>3. /\ k - v'.rbuflen + v'.rbufofs \in Nat
      /\ pp'.asked \in 0..VBUFSIZE
      /\ m \in 0..k
      /\ received' \in Seq(Bytes) /\ Len(received') = m
  BY <1>1, <1>2, OpenedTypes DEF Prefix
<1>4. Opened'
  BY <1>1, <1>2 DEF Opened
<1>5. TypeOK'
  <2>1. v' \in Vfd
    BY <1>1 DEF Holds
  <2>2. pp'.parsed \in Nat
    BY <1>1, <1>3
  <2>3. pp' \in [parsed : Nat, asked : 0..VBUFSIZE]
    BY <1>3, <2>2
  <2>4. readable' \in BOOLEAN
    BY <1>1
  <2>5. kread' \in 0..sent' /\ app' \in {"run", "told", "insel", "aborted"}
        /\ app' # "aborted"
    BY <1>2
  <2> QED BY <1>2, <1>3, <2>1, <2>3, <2>4, <2>5 DEF TypeOK
<1>6. /\ w.rbuflen \in 0..VBUFSIZE /\ w.rbufofs \in 0..VBUFSIZE
      /\ w.rlastlen \in 0..VBUFSIZE /\ w.tosend \in 0..VBUFSIZE
      /\ w.rbuflen <= k /\ k \in Nat
  BY <1>2, HoldsElim
<1>7. /\ Len(received) < Len(received')
      /\ Len(received') <= k - w.rbuflen + (w.rlastlen + w.tosend)
  <2>1. v'.rlastlen \in Nat
    BY <1>1, HoldsElim, <1>6, SMTT(40)
  <2>2. /\ v'.rbuflen = w.rbuflen /\ v'.rlastlen > w.rlastlen
        /\ v'.rlastlen <= w.rlastlen + w.tosend
    BY <1>1
  <2>3. /\ Len(received) = k - w.rbuflen + w.rlastlen
        /\ Len(received') = k - w.rbuflen + v'.rlastlen
    BY <1>3, <2>2
  <2>4. k - w.rbuflen + w.rlastlen < k - w.rbuflen + v'.rlastlen
    BY <1>6, <2>1, <2>2, SMTT(60)
  <2>5. k - w.rbuflen + v'.rlastlen <= k - w.rbuflen + (w.rlastlen + w.tosend)
    <3>a. w.rbuflen \in Int /\ w.rlastlen \in Int /\ w.tosend \in Int /\ k \in Int
      BY <1>6, SMTT(40)
    <3>1. /\ k - w.rbuflen \in Int /\ v'.rlastlen \in Int
          /\ w.rlastlen + w.tosend \in Int
      BY <3>a, <2>1, SMTT(60)
    <3>2. \A d, x, y \in Int : x <= y => d + x <= d + y
      OBVIOUS
    <3> QED BY <3>1, <3>2, <2>2, SMTT(60)
  <2> QED BY <2>3, <2>4, <2>5
<1>8. IsolatedStep
  <2>1. w.rlastlen + w.tosend <= w.rbufofs => Len(received') <= pp'.parsed
    <3>1. Len(received') \in Nat
      BY <1>3
    <3>2. w.rlastlen + w.tosend <= w.rbufofs =>
            k - w.rbuflen + (w.rlastlen + w.tosend) <= k - w.rbuflen + w.rbufofs
      BY <1>6, SMTT(60)
    <3>3. pp'.parsed = k - w.rbuflen + w.rbufofs
      OBVIOUS
    <3>4. /\ k - w.rbuflen + (w.rlastlen + w.tosend) \in Int
          /\ k - w.rbuflen + w.rbufofs \in Int
      BY <1>6, SMTT(60)
    <3> QED BY <1>7, <3>1, <3>2, <3>3, <3>4
  <2>2. Len(received) \in Nat /\ Len(received') \in Nat /\ pp'.parsed \in Int
    BY <1>3, <1>6
  <2> QED BY <1>7, <2>1, <2>2 DEF IsolatedStep
<1>9. BS!BDeliver
  <2>1. received' = BS!Stream(conn, Len(received'))
    BY <1>1, <1>3 DEF Prefix, BS!Stream, BS!Byte
  <2>2. Len(received') <= sent
    BY <1>2, <1>3, SMTT(40) DEF TypeOK
  <2> QED BY <1>2, <1>7, <2>1, <2>2 DEF BS!BDeliver
<1> QED BY <1>1, <1>2, <1>4, <1>5, <1>8, <1>9 DEF ReadResult

(* What Opened says, with every index an integer. *)
LEMMA OpenedElim ==
  ASSUME IInv, isopen
  PROVE  /\ Opened
         /\ kread \in Nat /\ kread \in 0..sent /\ sent \in 0..MaxSent
         /\ conn \in 0..MaxConns
         /\ v.rbuflen \in Nat /\ v.rbufofs \in Nat /\ v.rlastlen \in Nat
         /\ v.tosend \in Nat /\ v.tosend <= VBUFSIZE /\ v.ppwantmore \in {0, 1}
         /\ v.rbuflen <= VBUFSIZE
         /\ v.rbufofs <= v.rbuflen /\ v.rlastlen <= v.rbuflen /\ v.rbuflen <= kread
         /\ pp.parsed = kread - v.rbuflen + v.rbufofs
         /\ pp.parsed \in Nat /\ pp.asked \in Nat
         /\ Len(received) = kread - v.rbuflen + v.rlastlen
         /\ Prefix(received, conn, Len(received))
<1>1. Opened /\ kread \in Nat /\ conn \in 0..MaxConns /\ kread \in 0..MaxSent
      /\ kread \in 0..sent /\ sent \in 0..MaxSent /\ pp.parsed \in Nat /\ pp.asked \in Nat
  BY DEF IInv, TypeOK
<1>2. Holds(v, conn, kread) /\ Released(v, pp.asked)
      /\ pp.parsed = kread - v.rbuflen + v.rbufofs
      /\ Prefix(received, conn, kread - v.rbuflen + v.rlastlen)
  BY <1>1 DEF Opened
<1>3. /\ v.rbuflen \in 0..VBUFSIZE /\ v.rbufofs \in 0..VBUFSIZE
      /\ v.rlastlen \in 0..VBUFSIZE /\ v.tosend \in 0..VBUFSIZE
      /\ v.ppwantmore \in {0, 1}
      /\ v.rbufofs <= v.rbuflen /\ v.rlastlen <= v.rbuflen /\ v.rbuflen <= kread
  BY <1>1, <1>2, HoldsElim
<1>4. Len(received) = kread - v.rbuflen + v.rlastlen
  BY <1>1, <1>2, OpenedTypes DEF Prefix
<1> QED BY <1>1, <1>2, <1>3, <1>4, SMTT(40)

(* The first short loop. *)
LEMMA Short1Lemma ==
  ASSUME IInv, NEW len \in 1..MaxLen, ReadShort1(len)
  PROVE  ReadResult
<1>1. /\ isopen /\ v.tosend # 0 /\ buf_ret(v, len) /\ app' = "run"
      /\ UNCHANGED <<net, eof>> /\ kread' = kread /\ pp' = pp
  BY DEF ReadShort1, Reading
<1>2. /\ Opened
      /\ kread \in Nat /\ kread \in 0..sent
      /\ v.rbuflen \in Nat /\ v.rbufofs \in Nat /\ v.rlastlen \in Nat
      /\ v.tosend \in Nat /\ v.tosend <= VBUFSIZE /\ v.ppwantmore \in {0, 1}
      /\ v.rbufofs <= v.rbuflen /\ v.rlastlen <= v.rbuflen /\ v.rbuflen <= kread
      /\ pp.parsed = kread - v.rbuflen + v.rbufofs
      /\ Len(received) = kread - v.rbuflen + v.rlastlen
      /\ Prefix(received, conn, Len(received))
  BY <1>1, OpenedElim
<1>3. Holds(v, conn, kread) /\ Released(v, pp.asked)
  BY <1>2 DEF Opened
<1>4. v.tosend \in 1..VBUFSIZE /\ v.rlastlen + v.tosend <= v.rbuflen
  BY <1>1, <1>2, <1>3, SMTT(40) DEF Released
<1>5. pp.parsed <= Len(received) \/ v.rlastlen + v.tosend <= v.rbufofs
  BY <1>2, <1>3, SMTT(60) DEF Released
<1>6. TypeOK /\ pp' \in [parsed : Int, asked : Int]
  <2>1. TypeOK /\ pp \in [parsed : Nat, asked : 0..VBUFSIZE]
    BY DEF IInv, TypeOK
  <2> QED BY <2>1, <1>1
<1>7. Released(v, pp'.asked) /\ pp'.parsed = kread - v.rbuflen + v.rbufofs
      /\ pp'.parsed = pp.parsed
  BY <1>1, <1>2, <1>3
<1> QED BY <1>1, <1>2, <1>3, <1>4, <1>5, <1>6, <1>7, ReturnLemma

(* PpAnswers() and present_pp() together, on a buffer w that holds the     *)
(* first k bytes, when the PP claims no more than it was shown.            *)
LEMMA AnswerLemma ==
  ASSUME NEW w, NEW k \in Nat, NEW a \in pp_read(w.rbuflen - w.rbufofs),
         a <= w.rbuflen - w.rbufofs,
         Holds(w, conn, k), TypeOK,
         w.rlastlen = w.rbufofs + pp.asked, w.rlastlen < w.rbuflen,
         pp.parsed = k - w.rbuflen + w.rbufofs,
         Len(received) = k - w.rbuflen + w.rlastlen,
         PpAnswers(w.rbuflen - w.rbufofs, a)
  PROVE  LET p == present_pp(w, a)
         IN  /\ Holds(p, conn, k) /\ Released(p, pp'.asked)
             /\ p.tosend \in 1..VBUFSIZE /\ p.rlastlen + p.tosend <= p.rbuflen
             /\ Len(received) = k - p.rbuflen + p.rlastlen
             /\ pp' \in [parsed : Int, asked : Int]
             /\ pp'.parsed = k - p.rbuflen + p.rbufofs
             /\ \/ /\ pp'.parsed = pp.parsed
                   /\ pp.parsed <= Len(received) \/ p.rlastlen + p.tosend <= p.rbufofs
                \/ pp.parsed <= Len(received) /\ p.rlastlen + p.tosend <= p.rbufofs
<1> DEFINE p == present_pp(w, a)
<1>1. /\ w.rbuflen \in 0..VBUFSIZE /\ w.rbufofs \in 0..VBUFSIZE
      /\ w.rlastlen \in 0..VBUFSIZE /\ w.rbufofs <= w.rbuflen /\ w.rbuflen <= k
  BY HoldsElim
<1>2. /\ pp \in [parsed : Nat, asked : 0..VBUFSIZE]
      /\ pp.asked \in Nat /\ pp.parsed \in Nat
  BY DEF TypeOK
<1>3. /\ Holds(p, conn, k)
      /\ Released(p, IF a < 0 THEN w.rbuflen - w.rbufofs ELSE 0)
      /\ p.rbuflen = w.rbuflen /\ p.rlastlen = w.rlastlen
      /\ p.tosend \in 1..VBUFSIZE
      /\ p.rlastlen + p.tosend <= p.rbuflen
      /\ a < 0 => p.rbufofs = w.rbufofs
      /\ ~(a < 0) => p.rbufofs = w.rbufofs + a /\ p.rlastlen + p.tosend = p.rbufofs
  BY <1>2, PresentLemma
<1>4. pp.parsed <= Len(received)
  BY <1>1, <1>2, SMTT(60)
<1>5. a \in Int
  BY <1>1 DEF pp_read
<1> HIDE DEF p
<1>6. CASE a < 0
  <2>1. pp' = [pp EXCEPT !.asked = w.rbuflen - w.rbufofs]
    BY <1>6 DEF PpAnswers
  <2>2. /\ pp'.parsed = pp.parsed /\ pp'.asked = w.rbuflen - w.rbufofs
        /\ pp' \in [parsed : Int, asked : Int]
    <3>1. w.rbuflen - w.rbufofs \in Int
      BY <1>1
    <3>2. pp' = [parsed |-> pp.parsed, asked |-> w.rbuflen - w.rbufofs]
      BY <1>2, <2>1
    <3> QED BY <1>2, <3>1, <3>2
  <2> QED BY <1>3, <1>4, <1>6, <2>2 DEF p
<1>7. CASE ~(a < 0)
  <2>1. pp' = [parsed |-> pp.parsed + a, asked |-> 0]
    BY <1>7 DEF PpAnswers
  <2>2. /\ pp'.parsed = pp.parsed + a /\ pp'.asked = 0
        /\ pp' \in [parsed : Int, asked : Int]
    BY <1>2, <1>5, <2>1
  <2>3. pp'.parsed = k - p.rbuflen + p.rbufofs
    <3>1. p.rbuflen = w.rbuflen /\ p.rbufofs = w.rbufofs + a
      BY <1>3, <1>7
    <3>2. w.rbuflen \in Int /\ w.rbufofs \in Int
      BY <1>1
    <3>3. (k - w.rbuflen + w.rbufofs) + a = k - w.rbuflen + (w.rbufofs + a)
      BY <3>2, <1>5
    <3> QED BY <3>1, <3>3, <2>2
  <2>4. p.rlastlen + p.tosend <= p.rbufofs
    BY <1>1, <1>3, <1>5, <1>7, SMTT(40)
  <2> QED BY <1>3, <1>4, <1>7, <2>2, <2>3, <2>4 DEF p
<1> QED BY <1>6, <1>7

(* Where the entry is as AnswerLemma leaves it, no assertion fails. *)
LEMMA AssertedLemma ==
  ASSUME NEW p, NEW c, NEW k \in Nat, NEW len, Holds(p, c, k),
         p.tosend \in 1..VBUFSIZE, p.rlastlen + p.tosend <= p.rbuflen,
         Return(p, len)
  PROVE  buf_ret(p, len) /\ app' = "run" /\ UNCHANGED <<net, eof>>
<1>1. /\ p.rbuflen \in 0..VBUFSIZE /\ p.rbufofs \in 0..VBUFSIZE
      /\ p.rlastlen \in 0..VBUFSIZE /\ p.rbufofs <= p.rbuflen
  BY HoldsElim
<1>2. p.tosend # 0 /\ p.rlastlen < VBUFSIZE
  BY <1>1
<1>3. Asserted(p)
  BY <1>1, <1>2 DEF Asserted
<1> QED BY <1>3 DEF Return, net

(* A PP that claims more than it was shown: the assertion at the end of    *)
(* read() fails, and the application gets none of the bytes.               *)
LEMMA OverLemma ==
  ASSUME TypeOK, isopen, NEW w, NEW k \in 0..sent, NEW len,
         NEW a \in pp_read(w.rbuflen - w.rbufofs), a > w.rbuflen - w.rbufofs,
         Holds(w, conn, k),
         w.rlastlen = w.rbufofs + pp.asked, w.rlastlen < w.rbuflen,
         pp.parsed = k - w.rbuflen + w.rbufofs,
         Len(received) = k - w.rbuflen + w.rlastlen,
         PpAnswers(w.rbuflen - w.rbufofs, a),
         Return(present_pp(w, a), len), kread' = k
  PROVE  AbortResult
<1> DEFINE p == present_pp(w, a)
<1>0. /\ pp \in [parsed : Nat, asked : 0..VBUFSIZE] /\ pp.asked \in Nat /\ pp.parsed \in Nat
      /\ k \in Nat /\ VBUFSIZE \in Nat
  BY DEF TypeOK
<1>1. /\ w \in Vfd
      /\ w.rbuflen \in 0..VBUFSIZE /\ w.rbufofs \in 0..VBUFSIZE
      /\ w.rlastlen \in 0..VBUFSIZE
      /\ w.rbufofs <= w.rbuflen /\ w.rlastlen <= w.rbuflen /\ w.rbuflen <= k
  BY <1>0, HoldsElim
<1>2. a \in Nat /\ ~(a < 0) /\ w.rbuflen # w.rbufofs
  BY <1>0, <1>1 DEF pp_read
<1>3. p = [w EXCEPT !.rbufofs = w.rbufofs + a,
                    !.tosend = w.rbufofs + a - w.rlastlen, !.ppwantmore = 0]
  BY <1>1, <1>2 DEF present_pp, Vfd
<1>4. /\ p.rbufofs = w.rbufofs + a /\ p.rbuflen = w.rbuflen /\ p.rlastlen = w.rlastlen
      /\ p.tosend = w.rbufofs + a - w.rlastlen
  BY <1>1, <1>3 DEF Vfd
<1> HIDE DEF p
<1>5. w.rbufofs + a > w.rbuflen
  BY <1>1, <1>2
<1>6. p.tosend # 0 /\ p.rlastlen < VBUFSIZE /\ ~(p.rbufofs <= p.rbuflen)
  BY <1>1, <1>2, <1>4, <1>5
<1>7. /\ v' = p /\ app' = "aborted" /\ isopen' = FALSE /\ readable' = FALSE
      /\ UNCHANGED <<received, conn, sent, shut, eof>>
  BY <1>6 DEF Return, Asserted, p
<1>8. pp' = [parsed |-> pp.parsed + a, asked |-> 0]
  BY <1>2 DEF PpAnswers
<1>9. pp'.parsed = pp.parsed + a /\ pp' \in [parsed : Nat, asked : 0..VBUFSIZE]
  BY <1>0, <1>2, <1>8
<1>10. pp'.parsed > k
  <2>1. pp'.parsed = (k - w.rbuflen + w.rbufofs) + a
    BY <1>9
  <2>2. k \in Int /\ w.rbuflen \in Int /\ w.rbufofs \in Int /\ a \in Int
    BY <1>0, <1>1, <1>2
  <2>3. (k - w.rbuflen + w.rbufofs) + a > k
    BY <2>2, <1>5
  <2> QED BY <2>1, <2>3
<1>11. TypeOK'
  <2>1. kread' \in 0..sent'
    BY <1>7
  <2> QED BY <1>7, <1>9, <2>1 DEF TypeOK
<1>12. Claimed'
  BY <1>6, <1>7, <1>10 DEF Claimed
<1>13. IsolatedStep
  <2>1. Len(received) \in Int /\ Len(received) < pp'.parsed
        /\ pp.parsed \in Int /\ Len(received') = Len(received)
    BY <1>0, <1>1, <1>7, <1>9, <1>10
  <2>2. pp'.parsed \in Int
    BY <1>9
  <2> QED BY <2>1, <2>2 DEF IsolatedStep
<1>14. BS!BClose
  BY <1>7 DEF BS!BClose
<1> QED BY <1>7, <1>11, <1>12, <1>13, <1>14 DEF AbortResult

(* The second short loop. *)
LEMMA Short2Lemma ==
  ASSUME IInv, NEW len \in 1..MaxLen, ReadShort2(len)
  PROVE  ReadResult \/ AbortResult
<1> DEFINE amt == v.rbuflen - v.rbufofs
<1>1. /\ isopen /\ v.tosend = 0 /\ PpCanWork /\ kread' = kread
  BY DEF ReadShort2, Reading
<1>2. PICK a \in pp_read(amt) : PpAnswers(amt, a) /\ Return(present_pp(v, a), len)
  BY DEF ReadShort2
<1>3. /\ Opened
      /\ kread \in Nat /\ kread \in 0..sent
      /\ v.rbuflen \in Nat /\ v.rbufofs \in Nat /\ v.rlastlen \in Nat
      /\ v.tosend \in Nat
      /\ pp.parsed = kread - v.rbuflen + v.rbufofs
      /\ Len(received) = kread - v.rbuflen + v.rlastlen
      /\ Prefix(received, conn, Len(received))
  BY <1>1, OpenedElim
<1>4. Holds(v, conn, kread) /\ Released(v, pp.asked) /\ TypeOK
  BY <1>3 DEF Opened, IInv
<1>5. v.rlastlen = v.rbufofs + pp.asked /\ v.rlastlen < v.rbuflen
  BY <1>1, <1>3, <1>4 DEF PpCanWork, Released
<1>o. CASE a > v.rbuflen - v.rbufofs
  <2>1. AbortResult
    BY <1>1, <1>2, <1>3, <1>4, <1>5, <1>o, OverLemma
  <2> QED BY <2>1
<1> DEFINE p == present_pp(v, a)
<1>w. SUFFICES ASSUME ~(a > v.rbuflen - v.rbufofs) PROVE ReadResult
  BY <1>o
<1>le. a <= v.rbuflen - v.rbufofs
  BY <1>3, <1>w DEF pp_read
<1>6. /\ Holds(p, conn, kread) /\ Released(p, pp'.asked)
      /\ p.tosend \in 1..VBUFSIZE /\ p.rlastlen + p.tosend <= p.rbuflen
      /\ Len(received) = kread - p.rbuflen + p.rlastlen
      /\ pp' \in [parsed : Int, asked : Int]
      /\ pp'.parsed = kread - p.rbuflen + p.rbufofs
      /\ \/ /\ pp'.parsed = pp.parsed
            /\ pp.parsed <= Len(received) \/ p.rlastlen + p.tosend <= p.rbufofs
         \/ pp.parsed <= Len(received) /\ p.rlastlen + p.tosend <= p.rbufofs
  BY <1>2, <1>3, <1>4, <1>5, <1>le, AnswerLemma
<1> HIDE DEF p
<1>r. Return(p, len)
  BY <1>2 DEF p
<1>7. buf_ret(p, len) /\ app' = "run" /\ UNCHANGED <<net, eof>>
  BY <1>3, <1>6, <1>r, AssertedLemma
<1> QED BY <1>1, <1>3, <1>4, <1>6, <1>7, ReturnLemma

(* The refill: shift, real_read(), PP, return. *)
LEMMA RefillLemma ==
  ASSUME IInv, NEW len \in 1..MaxLen, ReadRefill(len)
  PROVE  ReadResult \/ AbortResult
<1> DEFINE w == buf_shift(v)
<1>1. /\ isopen /\ v.tosend = 0 /\ ~PpCanWork
  BY DEF ReadRefill, MustRefill, Reading
<1>2. PICK r \in 1..Min(Space(w), sent - kread) :
        /\ kread' = kread + r
        /\ \E a \in pp_read(fill(w, r).rbuflen - fill(w, r).rbufofs) :
             /\ PpAnswers(fill(w, r).rbuflen - fill(w, r).rbufofs, a)
             /\ Return(present_pp(fill(w, r), a), len)
  BY DEF ReadRefill
<1> DEFINE f == fill(w, r)
           k == kread + r
<1>3. PICK a \in pp_read(f.rbuflen - f.rbufofs) :
        PpAnswers(f.rbuflen - f.rbufofs, a) /\ Return(present_pp(f, a), len)
  BY <1>2
<1>4. /\ Opened
      /\ kread \in Nat /\ kread \in 0..sent /\ sent \in 0..MaxSent /\ conn \in 0..MaxConns
      /\ v.rbuflen \in Nat /\ v.rbufofs \in Nat /\ v.rlastlen \in Nat
      /\ v.tosend \in Nat
      /\ pp.parsed = kread - v.rbuflen + v.rbufofs
      /\ pp.asked \in Nat
      /\ Len(received) = kread - v.rbuflen + v.rlastlen
      /\ Prefix(received, conn, Len(received))
  BY <1>1, OpenedElim
<1>5. Holds(v, conn, kread) /\ Released(v, pp.asked) /\ TypeOK
  BY <1>4 DEF Opened, IInv
<1>6. /\ Holds(w, conn, kread)
      /\ w.rbufofs = 0 /\ w.tosend = 0
      /\ w.rbuflen = v.rbuflen - v.rbufofs
      /\ w.rlastlen = v.rlastlen - v.rbufofs
      /\ w.rlastlen = w.rbuflen
      /\ w.rbuflen = pp.asked
  <2>1. ~(v.rbufofs < v.rbuflen /\ v.ppwantmore = 0)
    BY <1>1 DEF PpCanWork
  <2>2. v.tosend = 0 /\ kread \in Nat /\ Holds(v, conn, kread) /\ Released(v, pp.asked)
    BY <1>1, <1>4, <1>5
  <2>3. /\ Holds(buf_shift(v), conn, kread)
        /\ buf_shift(v).rbufofs = 0 /\ buf_shift(v).tosend = 0
        /\ buf_shift(v).rbuflen = v.rbuflen - v.rbufofs
        /\ buf_shift(v).rlastlen = v.rlastlen - v.rbufofs
        /\ buf_shift(v).rlastlen = buf_shift(v).rbuflen
        /\ buf_shift(v).rbuflen = pp.asked
    BY <2>1, <2>2, ShiftLemma, ZenonT(30)
  <2> QED BY <2>3
<1> HIDE DEF w
<1>7. w.rbuflen \in 0..VBUFSIZE /\ w.rbuflen <= kread
  BY <1>4, <1>6, HoldsElim
<1>8. /\ r \in 1..Space(w) /\ r \in Nat /\ 1 <= r /\ r <= sent - kread
  BY <1>4, <1>7, SMTT(60) DEF Min, Space
<1>9. k \in Nat /\ k \in 0..sent /\ k <= MaxSent
  BY <1>4, <1>8
<1>10. /\ Holds(f, conn, k)
       /\ f.rbuflen = w.rbuflen + r
       /\ f.rbufofs = w.rbufofs /\ f.rlastlen = w.rlastlen
  BY <1>4, <1>6, <1>8, <1>9, FillLemma
<1> HIDE DEF f
<1>a. /\ v.rbuflen \in Nat /\ v.rbufofs \in Nat /\ v.rlastlen \in Nat /\ kread \in Nat
      /\ w.rbuflen = v.rbuflen - v.rbufofs /\ w.rlastlen = v.rlastlen - v.rbufofs
      /\ w.rlastlen = w.rbuflen /\ w.rbuflen = pp.asked /\ w.rbufofs = 0
      /\ f.rbuflen = w.rbuflen + r
      /\ f.rbufofs = w.rbufofs /\ f.rlastlen = w.rlastlen
      /\ w.rbuflen \in Nat /\ r \in Nat /\ 1 <= r
  BY <1>4, <1>6, <1>7, <1>8, <1>10
<1>11. f.rlastlen = f.rbufofs + pp.asked /\ f.rlastlen < f.rbuflen
  BY <1>a
<1>12. pp.parsed = k - f.rbuflen + f.rbufofs /\ Len(received) = k - f.rbuflen + f.rlastlen
  <2>1. /\ pp.parsed = kread - v.rbuflen + v.rbufofs
        /\ Len(received) = kread - v.rbuflen + v.rlastlen
    BY <1>4
  <2>2. /\ kread - v.rbuflen + v.rbufofs = k - f.rbuflen + f.rbufofs
        /\ kread - v.rbuflen + v.rlastlen = k - f.rbuflen + f.rlastlen
    BY <1>a
  <2> HIDE DEF k
  <2> QED BY <2>1, <2>2
<1>15. kread' = k
  BY <1>2 DEF k
<1> HIDE DEF k
<1>o. CASE a > f.rbuflen - f.rbufofs
  <2>1. AbortResult
    BY <1>1, <1>3, <1>5, <1>9, <1>10, <1>11, <1>12, <1>15, <1>o, OverLemma
  <2> QED BY <2>1
<1>w. SUFFICES ASSUME ~(a > f.rbuflen - f.rbufofs) PROVE ReadResult
  BY <1>o
<1>le. a <= f.rbuflen - f.rbufofs
  BY <1>a, <1>w DEF pp_read
<1> DEFINE p == present_pp(f, a)
<1>13. /\ Holds(p, conn, k) /\ Released(p, pp'.asked)
       /\ p.tosend \in 1..VBUFSIZE /\ p.rlastlen + p.tosend <= p.rbuflen
       /\ Len(received) = k - p.rbuflen + p.rlastlen
       /\ pp' \in [parsed : Int, asked : Int]
       /\ pp'.parsed = k - p.rbuflen + p.rbufofs
       /\ \/ /\ pp'.parsed = pp.parsed
             /\ pp.parsed <= Len(received) \/ p.rlastlen + p.tosend <= p.rbufofs
          \/ pp.parsed <= Len(received) /\ p.rlastlen + p.tosend <= p.rbufofs
  BY <1>3, <1>5, <1>9, <1>10, <1>11, <1>12, <1>le, AnswerLemma
<1>r. Return(p, len)
  BY <1>3
<1> HIDE DEF p
<1>14. buf_ret(p, len) /\ app' = "run" /\ UNCHANGED <<net, eof>>
  BY <1>9, <1>13, <1>r, AssertedLemma
<1> QED BY <1>1, <1>4, <1>5, <1>9, <1>13, <1>14, <1>15, ReturnLemma

(* A read() that finds nothing only shifts the buffer, which is empty for  *)
(* the application.                                                        *)
LEMMA ShiftOnlyLemma ==
  ASSUME IInv, MustRefill, v' = buf_shift(v),
         UNCHANGED <<net, received, kread, pp>>
  PROVE  /\ Opened' /\ v' \in Vfd
         /\ v.rlastlen = v.rbuflen /\ v'.rlastlen = v'.rbuflen
         /\ buf_shift(v).rbuflen = pp.asked /\ (pp.asked = 0 \/ pp.asked < MaxNeed)
         /\ Len(received) = kread
<1>1. isopen /\ v.tosend = 0 /\ ~(v.rbufofs < v.rbuflen /\ v.ppwantmore = 0)
  BY DEF MustRefill, Reading, PpCanWork
<1>2. /\ Opened
      /\ kread \in Nat
      /\ v.rbuflen \in Nat /\ v.rbufofs \in Nat /\ v.rlastlen \in Nat
      /\ v.rbufofs <= v.rbuflen /\ v.rlastlen <= v.rbuflen
      /\ v.ppwantmore \in {0, 1}
      /\ pp.parsed = kread - v.rbuflen + v.rbufofs
      /\ Len(received) = kread - v.rbuflen + v.rlastlen
      /\ Prefix(received, conn, Len(received))
  BY <1>1, OpenedElim
<1>3. Holds(v, conn, kread) /\ Released(v, pp.asked)
  BY <1>2 DEF Opened
<1>4. kread \in Nat /\ v.tosend = 0
  BY <1>1, <1>2
<1>5. /\ Holds(buf_shift(v), conn, kread)
      /\ Released(buf_shift(v), pp.asked)
      /\ buf_shift(v).rbufofs = 0
      /\ buf_shift(v).rbuflen = v.rbuflen - v.rbufofs
      /\ buf_shift(v).rlastlen = v.rlastlen - v.rbufofs
      /\ buf_shift(v).rlastlen = buf_shift(v).rbuflen
      /\ buf_shift(v).rbuflen = pp.asked
  BY <1>1, <1>3, <1>4, ShiftLemma, ZenonT(30)
<1>6. v' = buf_shift(v) /\ conn' = conn /\ kread' = kread /\ pp' = pp /\ received' = received
  BY DEF net
<1>7. v.rlastlen = v.rbuflen
  BY <1>1, <1>2, <1>3 DEF Released
<1>8. /\ pp.parsed = kread - v'.rbuflen + v'.rbufofs
      /\ Len(received) = kread - v'.rbuflen + v'.rlastlen
      /\ Len(received) = kread
  <2>1. /\ v'.rbuflen = v.rbuflen - v.rbufofs /\ v'.rbufofs = 0
        /\ v'.rlastlen = v.rlastlen - v.rbufofs
    BY <1>5, <1>6
  <2>2. /\ kread - v.rbuflen + v.rbufofs = kread - v'.rbuflen + v'.rbufofs
        /\ kread - v.rbuflen + v.rlastlen = kread - v'.rbuflen + v'.rlastlen
        /\ kread - v.rbuflen + v.rlastlen = kread
    BY <1>2, <1>7, <2>1
  <2> QED BY <1>2, <2>2
<1>9. Opened'
  <2>1. Holds(v', conn', kread') /\ Released(v', pp'.asked)
    BY <1>5, <1>6
  <2>2. pp'.parsed = kread' - v'.rbuflen + v'.rbufofs
    BY <1>6, <1>8
  <2>3. Prefix(received', conn', kread' - v'.rbuflen + v'.rlastlen)
    BY <1>2, <1>6, <1>8
  <2> QED BY <2>1, <2>2, <2>3 DEF Opened
<1>10. pp.asked = 0 \/ pp.asked < MaxNeed
  BY <1>2, <1>3 DEF Released
<1>11. v' \in Vfd
  BY <1>5, <1>6 DEF Holds
<1> QED BY <1>5, <1>6, <1>7, <1>8, <1>9, <1>10, <1>11

(* The table starts empty, which vfd_tab_init() sees to. *)
LEMMA InitInv == Init => IInv
<1> SUFFICES ASSUME Init PROVE IInv
  OBVIOUS
<1>1. ZeroVfd \in Vfd
  <2>1. <<0, 0>> \in Bytes
    BY DEF Bytes
  <2>2. [i \in 0..VBUFSIZE-1 |-> <<0, 0>>] \in [0..VBUFSIZE-1 -> Bytes]
    BY <2>1
  <2> QED BY <2>2 DEF ZeroVfd, Vfd, BS!Byte
<1>2. /\ conn \in 0..MaxConns /\ sent \in 0..MaxSent /\ kread \in 0..sent
  BY DEF Init
<1>6. isopen \in BOOLEAN /\ shut \in BOOLEAN /\ eof \in BOOLEAN /\ readable \in BOOLEAN
  BY DEF Init
<1>3. received \in Seq(Bytes)
  BY DEF Init
<1>4. pp \in [parsed : Nat, asked : 0..VBUFSIZE]
  BY DEF Init
<1>5. ~isopen /\ v \in Vfd /\ app = "run"
  BY <1>1 DEF Init
<1> QED BY <1>2, <1>3, <1>4, <1>5, <1>6 DEF IInv, TypeOK, Claimed

(* accept(): nothing of an earlier connection is left but dead bytes. *)
LEMMA AcceptLemma ==
  ASSUME IInv, Accept
  PROVE  IInv'
<1>1. /\ v' = vfd_tab_init_one(v) /\ conn' = conn + 1 /\ sent' = 0 /\ kread' = 0
      /\ shut' = FALSE /\ isopen' = TRUE /\ eof' = FALSE
      /\ received' = << >> /\ pp' = [parsed |-> 0, asked |-> 0]
      /\ readable' = readable /\ app' = app /\ conn < MaxConns
      /\ app # "aborted"
  BY DEF Accept
<1>2. v \in Vfd /\ conn \in 0..MaxConns /\ readable \in BOOLEAN
      /\ app \in {"run", "told", "insel", "aborted"}
  BY <1>1 DEF IInv, TypeOK
<1>3. /\ v' = [rbuf |-> v.rbuf, rbuflen |-> 0, rbufofs |-> 0, rlastlen |-> 0,
               tosend |-> 0, ppwantmore |-> 0]
      /\ v.rbuf \in [0..VBUFSIZE-1 -> Bytes]
  BY <1>1, <1>2 DEF vfd_tab_init_one, Vfd
<1>4. v' \in Vfd
  BY <1>3 DEF Vfd
<1>5. Holds(v', conn', kread') /\ Released(v', pp'.asked)
  BY <1>1, <1>3, <1>4 DEF Holds, Released
<1>6. pp'.parsed = kread' - v'.rbuflen + v'.rbufofs
  BY <1>1, <1>3
<1>7. Prefix(received', conn', kread' - v'.rbuflen + v'.rlastlen)
  <2>1. kread' - v'.rbuflen + v'.rlastlen = 0
    BY <1>1, <1>3
  <2>2. << >> = [i \in 1..0 |-> <<conn', i>>]
    OBVIOUS
  <2> QED BY <1>1, <2>1, <2>2 DEF Prefix
<1>8. Opened'
  BY <1>5, <1>6, <1>7 DEF Opened
<1>9. TypeOK'
  <2>1. received' \in Seq(Bytes) /\ conn' \in 0..MaxConns
        /\ pp' \in [parsed : Nat, asked : 0..VBUFSIZE]
    BY <1>1, <1>2
  <2>2. sent' \in 0..MaxSent /\ kread' \in 0..sent'
    BY <1>1
  <2>3. isopen' \in BOOLEAN /\ shut' \in BOOLEAN /\ eof' \in BOOLEAN
    BY <1>1
  <2> QED BY <1>1, <1>2, <1>4, <2>1, <2>2, <2>3 DEF TypeOK
<1> QED BY <1>1, <1>8, <1>9 DEF IInv, Claimed

(* close() leaves rlastlen and tosend behind, which accept() clears. *)
LEMMA CloseLemma ==
  ASSUME IInv, close
  PROVE  IInv'
<1>1. v \in Vfd
  BY DEF IInv, TypeOK, close
<1>2. v' = [v EXCEPT !.rbufofs = 0, !.rbuflen = 0]
  BY DEF close
<1>3. v' = [rbuf |-> v.rbuf, rbuflen |-> 0, rbufofs |-> 0, rlastlen |-> v.rlastlen,
            tosend |-> v.tosend, ppwantmore |-> v.ppwantmore]
  BY <1>1, <1>2 DEF Vfd
<1>4. v' \in Vfd
  BY <1>1, <1>3 DEF Vfd
<1> QED BY <1>4 DEF IInv, TypeOK, Claimed, close

(* IInv is inductive. *)
LEMMA NextInv ==
  ASSUME IInv, [Next]_vars
  PROVE  IInv'
<1>1. CASE Send
  <2>1. sent' \in 0..MaxSent /\ kread' \in 0..sent'
    BY <1>1 DEF Send, IInv, TypeOK, Claimed
  <2> QED BY <2>1, <1>1 DEF Send, IInv, TypeOK, Claimed, Opened
<1>2. CASE Shut
  BY <1>2 DEF Shut, IInv, TypeOK, Claimed, Opened
<1>3. CASE Accept
  BY <1>3, AcceptLemma
<1>4. CASE close
  BY <1>4, CloseLemma
<1>5. CASE ReadSome
  <2>1. ReadResult \/ AbortResult
    BY <1>5, Short1Lemma, Short2Lemma, RefillLemma DEF ReadSome
  <2>2. CASE ReadResult
    BY <2>2 DEF ReadResult, IInv, Claimed
  <2>3. CASE AbortResult
    BY <2>3 DEF AbortResult, IInv
  <2> QED BY <2>1, <2>2, <2>3
<1>6. CASE ReadEof
  <2>1. Opened' /\ v' \in Vfd
    BY <1>6, ShiftOnlyLemma DEF ReadEof
  <2> QED BY <1>6, <2>1 DEF ReadEof, IInv, TypeOK, Claimed, net
<1>7. CASE ReadNothing
  <2>1. Opened' /\ v' \in Vfd
    BY <1>7, ShiftOnlyLemma DEF ReadNothing
  <2> QED BY <1>7, <2>1 DEF ReadNothing, IInv, TypeOK, Claimed, net
<1>8. CASE SelectCached
  BY <1>8 DEF SelectCached, Selecting, IInv, TypeOK, Claimed, Opened, net
<1>9. CASE SelectEnter
  BY <1>9 DEF SelectEnter, Selecting, IInv, TypeOK, Claimed, Opened, net
<1>10. CASE SelectWake
  BY <1>10 DEF SelectWake, IInv, TypeOK, Claimed, Opened, net
<1>11. CASE SelectTimeout
  BY <1>11 DEF SelectTimeout, IInv, TypeOK, Claimed, Opened, net
<1>12. CASE UNCHANGED vars
  BY <1>12 DEF vars, IInv, TypeOK, Claimed, Opened
<1> QED
  BY <1>1, <1>2, <1>3, <1>4, <1>5, <1>6, <1>7, <1>8, <1>9, <1>10, <1>11, <1>12
  DEF Next, AppStep

(* IInv holds in every run of the read path. *)
LEMMA Invariance == Spec => []IInv
<1> QED BY InitInv, NextInv, PTL DEF Spec

(* Type correctness of the read path: in particular the indices into rbuf  *)
(* stay in the buffer, for every PP, also one that wants more than a       *)
(* buffer.                                                                 *)
THEOREM TypeCorrect == Spec => []TypeOK
<1>1. IInv => TypeOK
  BY DEF IInv
<1> QED BY <1>1, Invariance, PTL

(* The PP follows the stream and the assertions of vfd.c hold, for every   *)
(* buffer size, PP, read length and sequence of connections, but for the   *)
(* PP that claims bytes the kernel has not delivered, which aborts.        *)
THEOREM PpFollowsStream == Spec => [](PpAligned /\ BufAsserts)
<1>1. ASSUME IInv PROVE PpAligned /\ BufAsserts
  <2>a. app = "aborted" => v.tosend # 0 /\ v.rlastlen < VBUFSIZE /\ pp.parsed > kread
    BY <1>1 DEF IInv, Claimed
  <2>o. CASE ~isopen
    BY <2>a, <2>o DEF PpAligned, BufAsserts
  <2>s. SUFFICES ASSUME isopen PROVE PpAligned /\ BufAsserts
    BY <2>o
  <2>1. /\ Opened /\ kread \in Nat
        /\ v.rbuflen \in Nat /\ v.rbufofs \in Nat /\ v.rlastlen \in Nat
        /\ v.tosend \in Nat /\ v.ppwantmore \in {0, 1} /\ v.rbuflen <= VBUFSIZE
        /\ v.rbufofs <= v.rbuflen /\ v.rlastlen <= v.rbuflen /\ v.rbuflen <= kread
        /\ pp.parsed = kread - v.rbuflen + v.rbufofs
    BY <1>1, <2>s, OpenedElim
  <2>2. Holds(v, conn, kread) /\ Released(v, pp.asked)
    BY <2>1 DEF Opened
  <2>3. v.rlastlen + v.tosend <= v.rbuflen
    BY <2>1, <2>2 DEF Released
  <2>4. BufAsserts
    <3>1. v.tosend # 0 => v.rlastlen < VBUFSIZE
      BY <2>1, <2>3
    <3> QED BY <2>a, <2>1, <2>3, <3>1 DEF BufAsserts
  <2>5. ASSUME NEW i \in v.rbufofs..v.rbuflen-1
        PROVE  v.rbuf[i] = <<conn, pp.parsed + 1 + i - v.rbufofs>>
    <3>1. /\ i \in 0..v.rbuflen-1
          /\ kread - v.rbuflen + i + 1 = pp.parsed + 1 + i - v.rbufofs
      BY <2>1
    <3>2. v.rbuf[i] = <<conn, kread - v.rbuflen + i + 1>>
      BY <2>2, <3>1 DEF Holds
    <3> QED BY <3>1, <3>2
  <2>6. pp.parsed + (v.rbuflen - v.rbufofs) = kread
    BY <2>1
  <2>7. PpAligned
    BY <2>5, <2>6 DEF PpAligned, BS!Byte
  <2> QED BY <2>4, <2>7
<1> QED BY <1>1, Invariance, PTL

(* The assertions of buf_ret(), virtual_read() and read(), by themselves:  *)
(* the only process that dies by one is that of a PP that claims more than *)
(* the kernel has delivered.                                               *)
THEOREM AssertionsHold == Spec => []BufAsserts
<1> QED BY PpFollowsStream, PTL

(* Message isolation for every PP: no read() returns bytes of both sides   *)
(* of a boundary, and no boundary is found behind the application.         *)
THEOREM Isolation == Spec => IsolatedReads
<1>1. ASSUME IInv, [Next]_vars PROVE [IsolatedStep]_vars
  <2>1. CASE ReadSome
    <3>1. ReadResult \/ AbortResult
      BY <1>1, <2>1, Short1Lemma, Short2Lemma, RefillLemma DEF ReadSome
    <3> QED BY <3>1 DEF ReadResult, AbortResult
  <2>2. CASE UNCHANGED vars
    BY <2>2
  <2>3. CASE Accept
    <3>1. conn' # conn
      BY <1>1, <2>3 DEF Accept, IInv, TypeOK
    <3> QED BY <3>1 DEF IsolatedStep
  <2>4. ASSUME received' = received, pp' = pp PROVE IsolatedStep
    <3>1. pp.parsed \in Int /\ Len(received) \in Int
      BY <1>1 DEF IInv, TypeOK
    <3> QED BY <2>4, <3>1 DEF IsolatedStep
  <2> QED BY <1>1, <2>1, <2>2, <2>3, <2>4
      DEF Next, AppStep, Send, Shut, close, ReadEof, ReadNothing, SelectCached,
          SelectEnter, SelectWake, SelectTimeout
<1> QED BY <1>1, Invariance, PTL DEF Spec, IsolatedReads

(* If no PP asks for more than a buffer, a read() that returns 0 is at the *)
(* end of the stream.                                                      *)
LEMMA EofLemma ==
  ASSUME IInv, ReadEof, MaxNeed <= VBUFSIZE
  PROVE  shut /\ Len(received) = sent
<1>1. /\ MustRefill /\ v' = buf_shift(v) /\ UNCHANGED <<net, received, kread, pp>>
      /\ Space(buf_shift(v)) = 0 \/ (shut /\ kread = sent)
  BY DEF ReadEof
<1>2. /\ buf_shift(v).rbuflen = pp.asked /\ (pp.asked = 0 \/ pp.asked < MaxNeed)
      /\ Len(received) = kread
  BY <1>1, ShiftOnlyLemma
<1>3. Space(buf_shift(v)) # 0
  <2>1. pp.asked \in Nat
    BY DEF IInv, TypeOK
  <2> QED BY <1>2, <2>1 DEF Space
<1> QED BY <1>1, <1>2, <1>3

(* VirtualRead implements ByteStream, for every buffer size and every PP   *)
(* that asks for at most a buffer: read() through libbtrace.so is the      *)
(* kernel's read().                                                        *)
THEOREM Refinement ==
  ASSUME MaxNeed <= VBUFSIZE
  PROVE  Spec => RefinesByteStream
<1>1. Init => BS!BInit
  BY DEF Init, BS!BInit
<1>2. ASSUME IInv, [Next]_vars PROVE [BS!BNext]_(BS!bvars)
  <2>1. CASE Send
    <3>1. sent' \in Nat /\ sent' > sent
      BY <1>2, <2>1 DEF Send, IInv, TypeOK
    <3> QED BY <2>1, <3>1 DEF Send, BS!BSend, BS!BNext
  <2>2. CASE Shut
    BY <2>2 DEF Shut, BS!BShut, BS!BNext
  <2>3. CASE Accept
    BY <2>3 DEF Accept, BS!BOpen, BS!BNext
  <2>4. CASE close
    BY <2>4 DEF close, BS!BClose, BS!BNext
  <2>5. CASE ReadSome
    <3>1. ReadResult \/ AbortResult
      BY <1>2, <2>5, Short1Lemma, Short2Lemma, RefillLemma DEF ReadSome
    <3> QED BY <3>1 DEF ReadResult, AbortResult, BS!BNext
  <2>6. CASE ReadEof
    <3>1. shut /\ Len(received) = sent
      BY <1>2, <2>6, EofLemma
    <3> QED BY <2>6, <3>1 DEF ReadEof, MustRefill, Reading, net, BS!BEof, BS!BNext
  <2>7. CASE ReadNothing
    BY <2>7 DEF ReadNothing, net, BS!bvars
  <2>8. CASE SelectCached
    BY <2>8 DEF SelectCached, net, BS!bvars
  <2>9. CASE SelectEnter
    BY <2>9 DEF SelectEnter, net, BS!bvars
  <2>10. CASE SelectWake
    BY <2>10 DEF SelectWake, net, BS!bvars
  <2>11. CASE SelectTimeout
    BY <2>11 DEF SelectTimeout, net, BS!bvars
  <2>12. CASE UNCHANGED vars
    BY <2>12 DEF vars, BS!bvars
  <2> QED
    BY <1>2, <2>1, <2>2, <2>3, <2>4, <2>5, <2>6, <2>7, <2>8, <2>9, <2>10, <2>11, <2>12
    DEF Next, AppStep
<1> QED BY <1>1, <1>2, Invariance, PTL DEF Spec, RefinesByteStream, BS!BSpec

-----------------------------------------------------------------------------
(* select() *)

(* What makes ReadyIsReal inductive. *)
SelInv == ReadyIsReal /\ (app = "insel" => isopen)

(* A descriptor reported readable is readable, for every PP and buffer.    *)
THEOREM ReadyTheorem == Spec => []ReadyIsReal
<1>1. Init => SelInv
  BY DEF Init, SelInv, ReadyIsReal
<1>2. ASSUME IInv, SelInv, [Next]_vars PROVE SelInv'
  <2>0. kread \in Int /\ sent \in Int
    BY <1>2 DEF IInv, TypeOK
  <2>1. CASE Send
    BY <1>2, <2>0, <2>1 DEF Send, SelInv, ReadyIsReal
  <2>2. CASE Shut
    BY <1>2, <2>2 DEF Shut, SelInv, ReadyIsReal
  <2>3. CASE Accept
    BY <1>2, <2>3 DEF Accept, SelInv, ReadyIsReal
  <2>4. CASE close
    BY <1>2, <2>4 DEF close, SelInv, ReadyIsReal
  <2>5. CASE ReadSome
    <3>0. ReadResult \/ AbortResult
      BY <1>2, <2>5, Short1Lemma, Short2Lemma, RefillLemma DEF ReadSome
    <3>a. CASE AbortResult
      BY <3>a DEF AbortResult, SelInv, ReadyIsReal
    <3>1. SUFFICES ASSUME ReadResult PROVE SelInv'
      BY <3>0, <3>a
    <3>2. isopen' /\ app' = "run" /\ readable' = (v'.rlastlen # v'.rbuflen)
          /\ v'.rlastlen <= v'.rbuflen /\ v' \in Vfd
      BY <3>1 DEF ReadResult, Opened, Holds
    <3>3. v'.rlastlen # v'.rbuflen => v'.rlastlen < v'.rbuflen
      BY <3>2 DEF Vfd
    <3> QED BY <3>2, <3>3 DEF SelInv, ReadyIsReal
  <2>6. CASE ReadEof
    <3>1. v.rlastlen = v.rbuflen /\ v.rbuflen \in Int
      BY <1>2, <2>6, ShiftOnlyLemma
      DEF ReadEof, MustRefill, Reading, IInv, TypeOK, Vfd
    <3> QED BY <1>2, <2>6, <3>1 DEF ReadEof, net, SelInv, ReadyIsReal
  <2>7. CASE ReadNothing
    <3>1. v.rlastlen = v.rbuflen /\ v.rbuflen \in Int
      BY <1>2, <2>7, ShiftOnlyLemma
      DEF ReadNothing, MustRefill, Reading, IInv, TypeOK, Vfd
    <3>2. ~readable
      BY <1>2, <2>0, <2>7, <3>1 DEF ReadNothing, SelInv, ReadyIsReal
    <3> QED BY <2>7, <3>2 DEF ReadNothing, SelInv, ReadyIsReal
  <2>8. CASE SelectCached
    BY <1>2, <2>8 DEF SelectCached, net, SelInv, ReadyIsReal
  <2>9. CASE SelectEnter
    BY <1>2, <2>9 DEF SelectEnter, Selecting, net, SelInv, ReadyIsReal
  <2>10. CASE SelectWake
    BY <1>2, <2>10 DEF SelectWake, net, SelInv, ReadyIsReal
  <2>11. CASE SelectTimeout
    BY <1>2, <2>11 DEF SelectTimeout, net, SelInv, ReadyIsReal
  <2>12. CASE UNCHANGED vars
    BY <1>2, <2>12 DEF vars, SelInv, ReadyIsReal
  <2> QED
    BY <1>2, <2>1, <2>2, <2>3, <2>4, <2>5, <2>6, <2>7, <2>8, <2>9, <2>10, <2>11, <2>12
    DEF Next, AppStep
<1>3. SelInv => ReadyIsReal
  BY DEF SelInv
<1> QED BY <1>1, <1>2, <1>3, Invariance, PTL DEF Spec

(* An application that reads after each select() that reports the          *)
(* descriptor never waits in select() for bytes that are in the buffer.    *)
THEOREM WakeupTheorem ==
  ASSUME Reselect = FALSE
  PROVE  Spec => []NoLostWakeup
<1>1. Init => NoLostWakeup
  BY DEF Init, NoLostWakeup
<1>2. ASSUME IInv, NoLostWakeup, [Next]_vars PROVE NoLostWakeup'
  <2>1. CASE ReadSome
    <3>0. ReadResult \/ AbortResult
      BY <1>2, <2>1, Short1Lemma, Short2Lemma, RefillLemma DEF ReadSome
    <3>a. CASE AbortResult
      BY <3>a DEF AbortResult, NoLostWakeup
    <3>1. SUFFICES ASSUME ReadResult PROVE NoLostWakeup'
      BY <3>0, <3>a
    <3>2. app' = "run" /\ readable' = (v'.rlastlen # v'.rbuflen) /\ v' \in Vfd
      BY <3>1 DEF ReadResult, Opened, Holds
    <3>3. v'.rlastlen < v'.rbuflen => v'.rlastlen # v'.rbuflen
      BY <3>2 DEF Vfd
    <3> QED BY <3>2, <3>3 DEF NoLostWakeup
  <2>2. CASE Accept
    <3>1. v'.rlastlen = 0 /\ v'.rbuflen = 0
      <4>1. v \in Vfd
        BY <1>2, <2>2 DEF IInv, TypeOK, Accept
      <4> QED BY <2>2, <4>1 DEF Accept, vfd_tab_init_one, Vfd
    <3> QED BY <3>1 DEF NoLostWakeup
  <2>3. CASE close
    BY <2>3 DEF close, NoLostWakeup
  <2>4. CASE ReadEof
    <3>1. v'.rlastlen = v'.rbuflen /\ v' \in Vfd
      BY <1>2, <2>4, ShiftOnlyLemma DEF ReadEof
    <3>2. ~(v'.rlastlen < v'.rbuflen)
      BY <3>1 DEF Vfd
    <3> QED BY <3>2 DEF NoLostWakeup
  <2>5. CASE ReadNothing
    <3>1. v'.rlastlen = v'.rbuflen /\ v' \in Vfd
      BY <1>2, <2>5, ShiftOnlyLemma DEF ReadNothing
    <3>2. ~(v'.rlastlen < v'.rbuflen)
      BY <3>1 DEF Vfd
    <3> QED BY <3>2 DEF NoLostWakeup
  <2>6. CASE SelectEnter
    <3>1. ~readable /\ app = "run" /\ isopen /\ isopen' = isopen /\ v' = v
      BY <2>6 DEF SelectEnter, Selecting, net
    <3> QED BY <1>2, <3>1 DEF NoLostWakeup
  <2>7. CASE Send \/ Shut \/ UNCHANGED vars
    BY <1>2, <2>7 DEF Send, Shut, vars, NoLostWakeup
  <2>8. CASE SelectCached \/ SelectWake \/ SelectTimeout
    BY <1>2, <2>8 DEF SelectCached, SelectWake, SelectTimeout, net, NoLostWakeup
  <2> QED BY <1>2, <2>1, <2>2, <2>3, <2>4, <2>5, <2>6, <2>7, <2>8 DEF Next, AppStep
<1> QED BY <1>1, <1>2, Invariance, PTL DEF Spec
=============================================================================
