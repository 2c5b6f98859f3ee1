---------------------------- MODULE SessionProofs ----------------------------
(***************************************************************************)
(* Proofs about Session, for any sizes of buffers, queues and packets, any *)
(* number of packets and any interleaving of sends, completions, reads and *)
(* failures: the bytes between the two ends are the stream, in order and   *)
(* whole, until the sender throws bytes away; packets are received in      *)
(* order; one send is under way at a time and nobody touches its bytes;    *)
(* and no read is posted into a full buffer.                               *)
(***************************************************************************)
EXTENDS Session, CircularQueueProofs, FiniteSetTheorems, WellFoundedInduction

(* Induction, stated for a set: the least number not in it would have a    *)
(* predecessor in it.                                                      *)

\* Induction over the naturals for a set: what holds 0 and every successor holds them all.
LEMMA Induction ==
  ASSUME NEW S, 0 \in S, \A n \in Nat : n \in S => n + 1 \in S
  PROVE  Nat \subseteq S
<1> DEFINE R == OpToRel(<, Nat)
           T == Nat \ S
<1>1. R = {ss \in Nat \X Nat : ss[1] < ss[2]}
  BY DEF OpToRel
<1>2. IsWellFoundedOn(R, Nat)
  BY NatLessThanWellFounded
<1> SUFFICES ASSUME T # {} PROVE FALSE
  OBVIOUS
<1>3. T \subseteq Nat
  OBVIOUS
<1> HIDE DEF R, T
<1>4. PICK x \in T : \A y \in T : ~(<<y, x>> \in R)
  BY <1>2, <1>3, WFMin
<1>5. x \in Nat /\ x \notin S /\ x # 0
  BY DEF T
<1>6. x - 1 \in Nat /\ <<x - 1, x>> \in R
  BY <1>1, <1>5
<1>7. x - 1 \in S
  BY <1>4, <1>6 DEF T
<1>8. (x - 1) + 1 \in S
  BY <1>6, <1>7
<1> QED
  BY <1>5, <1>8

-----------------------------------------------------------------------------
(* Sequences, cut in two.                                                  *)

\* A sequence cut after its k-th element: both parts, and that they make it up again.
LEMMA CutInTwo ==
  ASSUME NEW S, NEW s \in Seq(S), NEW k \in 0..Len(s)
  PROVE  /\ SubSeq(s, 1, k) \in Seq(S) /\ Len(SubSeq(s, 1, k)) = k
         /\ \A i \in 1..k : SubSeq(s, 1, k)[i] = s[i]
         /\ Drop(s, k) \in Seq(S) /\ Len(Drop(s, k)) = Len(s) - k
         /\ \A i \in 1..Len(s) - k : Drop(s, k)[i] = s[k + i]
         /\ SubSeq(s, 1, k) \o Drop(s, k) = s
<1>1. Len(s) \in Nat /\ \A i \in 1..Len(s) : s[i] \in S
  OBVIOUS
<1>2. /\ SubSeq(s, 1, k) \in Seq(S) /\ Len(SubSeq(s, 1, k)) = k
      /\ \A i \in 1..k : SubSeq(s, 1, k)[i] = s[i]
  <2>1. \A i \in 1..k : s[i] \in S
    BY <1>1
  <2>2. /\ SubSeq(s, 1, k) \in Seq(S)
        /\ Len(SubSeq(s, 1, k)) = IF 1 <= k THEN k - 1 + 1 ELSE 0
        /\ \A i \in 1..(k - 1 + 1) : SubSeq(s, 1, k)[i] = s[1 + i - 1]
    BY <2>1, SubSeqProperties
  <2> HIDE DEF Drop
  <2>3. k \in Nat
    BY <1>1
  <2> QED
    BY <2>2, <2>3
<1>3. /\ Drop(s, k) \in Seq(S) /\ Len(Drop(s, k)) = Len(s) - k
      /\ \A i \in 1..Len(s) - k : Drop(s, k)[i] = s[k + i]
  <2>1. \A i \in (k + 1)..Len(s) : s[i] \in S
    BY <1>1
  <2>2. /\ SubSeq(s, k + 1, Len(s)) \in Seq(S)
        /\ Len(SubSeq(s, k + 1, Len(s))) = IF k + 1 <= Len(s) THEN Len(s) - (k + 1) + 1 ELSE 0
        /\ \A i \in 1..(Len(s) - (k + 1) + 1) : SubSeq(s, k + 1, Len(s))[i] = s[(k + 1) + i - 1]
    BY <1>1, <2>1, SubSeqProperties
  <2> QED
    BY <1>1, <2>2 DEF Drop
<1>4. SubSeq(s, 1, k) \o Drop(s, k) = s
  <2> DEFINE a == SubSeq(s, 1, k)
             b == Drop(s, k)
  <2>1. /\ a \in Seq(S) /\ b \in Seq(S) /\ Len(s) = Len(a) + Len(b)
        /\ \A i \in 1..Len(a) : s[i] = a[i]
        /\ \A i \in 1..Len(b) : s[Len(a) + i] = b[i]
    BY <1>1, <1>2, <1>3
  <2> HIDE DEF a, b
  <2>2. s = a \o b
    BY <2>1, Concatenation
  <2> QED
    BY <2>2 DEF a, b
<1> QED
  BY <1>2, <1>3, <1>4

\* Appending byte strings is associative.
LEMMA InThree ==
  ASSUME NEW a \in Seq(Byte), NEW b \in Seq(Byte), NEW c \in Seq(Byte)
  PROVE  (a \o b) \o c = a \o (b \o c)
  BY ConcatAssociative

-----------------------------------------------------------------------------
(* The stream.                                                             *)

\* As far as the n-th packet goes, the stream from its front is its bytes.
LEMMA FrontOfRun ==
  ASSUME NEW ps \in Seq(Nat), NEW n \in Nat, NEW s \in Seq(Byte), Runs(ps, n, s)
  PROVE  /\ \A k \in 1..Len(s) : k <= ps[n] => s[k] = <<n, k>>
         /\ s # <<>> => n \in DOMAIN ps /\ s[1] = <<n, 1>>
<1>0. Len(s) \in Nat /\ DOMAIN s = 1..Len(s)
  OBVIOUS
<1>1. ASSUME s # <<>> PROVE n \in DOMAIN ps /\ s[1] = <<n, 1>> /\ 1 \in 1..Len(s)
  <2>1. 1 \in DOMAIN s
    BY <1>0, <1>1
  <2>2. InPacket(ps, s[1]) /\ s[1] = <<n, 1>>
    BY <2>1 DEF Runs
  <2> QED
    BY <1>0, <2>1, <2>2 DEF InPacket
<1> DEFINE T == {k \in Nat : k + 1 \in 1..Len(s) /\ k + 1 <= ps[n] => s[k + 1] = <<n, k + 1>>}
<1>2. 0 \in T
  <2>1. 1 \in 1..Len(s) => s # <<>>
    BY <1>0
  <2> QED
    BY <1>1, <2>1
<1>3. ASSUME NEW k \in Nat, k \in T PROVE k + 1 \in T
  <2> SUFFICES ASSUME (k + 1) + 1 \in 1..Len(s), (k + 1) + 1 <= ps[n]
               PROVE  s[(k + 1) + 1] = <<n, (k + 1) + 1>>
    OBVIOUS
  <2>1. s # <<>>
    BY <1>0
  <2>2. ps[n] \in Nat
    BY <1>1, <2>1
  <2>3. s[k + 1] = <<n, k + 1>> /\ k + 1 # ps[n]
    BY <1>0, <1>3, <2>2
  <2>4. s[(k + 1) + 1] = Successor(ps, s[((k + 1) + 1) - 1])
    <3>1. (k + 1) + 1 \in DOMAIN s /\ (k + 1) + 1 # 1
      BY <1>0
    <3> QED
      BY <3>1 DEF Runs
  <2>5. ((k + 1) + 1) - 1 = k + 1
    OBVIOUS
  <2> QED
    BY <2>3, <2>4, <2>5 DEF Successor
<1> HIDE DEF T
<1>4. Nat \subseteq T
  BY <1>2, <1>3, Induction
<1>5. ASSUME NEW k \in 1..Len(s), k <= ps[n] PROVE s[k] = <<n, k>>
  <2>1. k - 1 \in Nat /\ (k - 1) + 1 = k
    BY <1>0
  <2>2. k - 1 \in T
    BY <1>4, <2>1
  <2> QED
    BY <1>5, <2>1, <2>2 DEF T
<1> QED
  BY <1>1, <1>5

\* Without its first packet it runs from the next.
LEMMA RunWithoutFirst ==
  ASSUME NEW ps \in Seq(Nat), NEW n \in DOMAIN ps, NEW s \in Seq(Byte), Runs(ps, n, s),
         ps[n] \in 1..Len(s)
  PROVE  /\ Runs(ps, n + 1, Drop(s, ps[n]))
         /\ Behind(ps, n + 1, Drop(s, ps[n])) = Behind(ps, n, s)
<1> DEFINE size == ps[n]
           t == Drop(s, size)
<1>0. /\ Len(s) \in Nat /\ DOMAIN s = 1..Len(s) /\ n \in Nat
      /\ size \in Nat /\ size \in 1..Len(s) /\ size \in 0..Len(s)
  OBVIOUS
<1>1. /\ t \in Seq(Byte) /\ Len(t) = Len(s) - size
      /\ \A i \in 1..Len(s) - size : t[i] = s[size + i]
  BY SMTT(30), <1>0, CutInTwo
<1>2. s[size] = <<n, size>>
  BY <1>0, FrontOfRun
<1>3. Successor(ps, s[size]) = <<n + 1, 1>>
  BY <1>2 DEF Successor
<1> HIDE DEF t, size
<1>4. ASSUME NEW i \in DOMAIN t
      PROVE  InPacket(ps, t[i]) /\ t[i] = IF i = 1 THEN <<n + 1, 1>> ELSE Successor(ps, t[i - 1])
  <2>1. i \in 1..Len(s) - size /\ i \in Nat
    BY <1>0, <1>1
  <2>2. size + i \in DOMAIN s /\ size + i # 1 /\ (size + i) - 1 = size + (i - 1)
    BY <1>0, <2>1
  <2>3. InPacket(ps, s[size + i]) /\ s[size + i] = Successor(ps, s[(size + i) - 1])
    BY <2>2 DEF Runs
  <2>4. t[i] = s[size + i]
    BY <1>1, <2>1
  <2>5. CASE i = 1
    <3>1. (size + i) - 1 = size
      BY <1>0, <2>5
    <3> QED
      BY <1>3, <2>3, <2>4, <2>5, <3>1
  <2>6. CASE i # 1
    <3>1. i - 1 \in 1..Len(s) - size
      BY <1>0, <2>1, <2>6
    <3>2. t[i - 1] = s[size + (i - 1)]
      BY <1>1, <3>1
    <3> QED
      BY <2>2, <2>3, <2>4, <2>6, <3>2
  <2> QED
    BY <2>5, <2>6
<1>5. Behind(ps, n + 1, t) = Behind(ps, n, s)
  <2>1. s # <<>>
    BY <1>0
  <2>2. CASE t = <<>>
    <3>0. Len(t) = 0 /\ Len(t) = Len(s) - size /\ Len(s) \in Nat /\ size \in Nat
      BY <1>0, <1>1, <2>2
    <3>1. Len(s) = size
      BY ONLY <3>0
    <3> QED
      BY <1>3, <2>1, <2>2, <3>1 DEF Behind
  <2>3. CASE t # <<>>
    <3>1. Len(t) \in 1..Len(s) - size /\ size + Len(t) = Len(s)
      BY <1>0, <1>1, <2>3
    <3>2. t[Len(t)] = s[Len(s)]
      BY <1>1, <3>1
    <3> QED
      BY <2>1, <2>3, <3>2 DEF Behind
  <2> QED
    BY <2>2, <2>3
<1>6. Runs(ps, n + 1, t)
  BY <1>4 DEF Runs
<1> QED
  BY <1>5, <1>6 DEF t, size

\* The front of a stream that runs on from a packet does so too.
LEMMA FrontRuns ==
  ASSUME NEW ps, NEW n, NEW s \in Seq(Byte), NEW t \in Seq(Byte), Runs(ps, n, s \o t)
  PROVE  Runs(ps, n, s)
<1>1. /\ Len(s) \in Nat /\ DOMAIN s = 1..Len(s)
      /\ \A i \in DOMAIN s : i \in DOMAIN (s \o t) /\ (s \o t)[i] = s[i]
  BY ConcatProperties
<1> DEFINE q == s \o t
<1> HIDE DEF q
<1>2. Runs(ps, n, q) /\ \A i \in DOMAIN s : i \in DOMAIN q /\ q[i] = s[i]
  BY <1>1 DEF q
<1> SUFFICES ASSUME NEW i \in DOMAIN s
             PROVE  InPacket(ps, s[i]) /\ s[i] = IF i = 1 THEN <<n, 1>> ELSE Successor(ps, s[i - 1])
  BY DEF Runs
<1>3. InPacket(ps, q[i]) /\ q[i] = IF i = 1 THEN <<n, 1>> ELSE Successor(ps, q[i - 1])
  BY <1>2 DEF Runs
<1>4. i # 1 => q[i - 1] = s[i - 1]
  <2>1. i # 1 => i - 1 \in DOMAIN s
    BY <1>1
  <2> QED
    BY <1>2, <2>1
<1> QED
  BY <1>2, <1>3, <1>4

\* A packet behind the last makes the stream longer and changes nothing in it.
LEMMA RunOfMore ==
  ASSUME NEW ps \in Seq(Nat), NEW size \in Nat, NEW n, NEW s \in Seq(Byte), Runs(ps, n, s)
  PROVE  /\ Runs(Append(ps, size), n, s)
         /\ s # <<>> => Behind(Append(ps, size), n, s) = Behind(ps, n, s)
<1> DEFINE qs == Append(ps, size)
<1>1. \A k \in DOMAIN ps : k \in DOMAIN qs /\ qs[k] = ps[k]
  OBVIOUS
<1> HIDE DEF qs
<1>2. \A b : InPacket(ps, b) => InPacket(qs, b) /\ Successor(qs, b) = Successor(ps, b)
  BY <1>1 DEF InPacket, Successor
<1>3. Len(s) \in Nat /\ DOMAIN s = 1..Len(s)
  OBVIOUS
<1>4. ASSUME NEW i \in DOMAIN s
      PROVE  InPacket(qs, s[i]) /\ s[i] = IF i = 1 THEN <<n, 1>> ELSE Successor(qs, s[i - 1])
  <2>1. InPacket(ps, s[i]) /\ s[i] = IF i = 1 THEN <<n, 1>> ELSE Successor(ps, s[i - 1])
    BY DEF Runs
  <2>2. i # 1 => InPacket(ps, s[i - 1])
    <3>1. i # 1 => i - 1 \in DOMAIN s
      BY <1>3
    <3> QED
      BY <3>1 DEF Runs
  <2> QED
    BY <1>2, <2>1, <2>2
<1>5. s # <<>> => Behind(qs, n, s) = Behind(ps, n, s)
  <2>1. s # <<>> => Len(s) \in DOMAIN s
    BY <1>3
  <2>2. s # <<>> => InPacket(ps, s[Len(s)])
    BY <2>1 DEF Runs
  <2> QED
    BY <1>2, <2>2 DEF Behind
<1>6. Runs(qs, n, s)
  BY <1>4 DEF Runs
<1> QED
  BY <1>5, <1>6 DEF qs

\* A packet put behind a stream that has all before it makes it run on to the
\* packet's end.
LEMMA RunWithPacket ==
  ASSUME NEW ps \in Seq(Nat), NEW size \in Nat \ {0}, NEW n \in Nat, NEW s \in Seq(Byte),
         Runs(ps, n, s), Behind(ps, n, s) = <<Len(ps) + 1, 1>>,
         PacketBytes(Len(ps) + 1, size) \in Seq(Byte)
  PROVE  /\ Runs(Append(ps, size), n, s \o PacketBytes(Len(ps) + 1, size))
         /\ Behind(Append(ps, size), n, s \o PacketBytes(Len(ps) + 1, size)) = <<Len(ps) + 2, 1>>
<1> DEFINE l == Len(ps) + 1
           d == PacketBytes(l, size)
           qs == Append(ps, size)
           q == s \o d
<1>1. d \in Seq(Byte) /\ Len(d) = size /\ \A k \in 1..size : d[k] = <<l, k>>
  BY DEF PacketBytes
<1>2. l \in Nat /\ l \in DOMAIN qs /\ qs[l] = size
  OBVIOUS
<1>3. /\ Len(s) \in Nat /\ DOMAIN s = 1..Len(s) /\ DOMAIN q = 1..Len(s) + size
      /\ \A i \in 1..Len(s) : q[i] = s[i]
      /\ \A k \in 1..size : q[Len(s) + k] = d[k]
      /\ Len(q) = Len(s) + size
  <2> HIDE DEF d
  <2>1. /\ q \in Seq(Byte) /\ Len(q) = Len(s) + Len(d)
        /\ \A i \in 1..Len(s) + Len(d) : q[i] = IF i <= Len(s) THEN s[i] ELSE d[i - Len(s)]
    BY <1>1, ConcatProperties
  <2> QED
    BY <1>1, <2>1
<1>4. Runs(qs, n, s) /\ (s # <<>> => Behind(qs, n, s) = <<l, 1>>)
  BY RunOfMore
<1>5. s = <<>> => n = l
  <2>1. s = <<>> => <<n, 1>> = <<l, 1>>
    BY DEF Behind
  <2> QED
    BY <2>1
<1> HIDE DEF d, qs, q, l
<1>6. \A k \in 1..size : InPacket(qs, <<l, k>>) /\ InPacket(qs, d[k])
  BY <1>1, <1>2 DEF InPacket
<1>7. \A k \in 1..size : Successor(qs, d[k]) = IF k = size THEN <<l + 1, 1>> ELSE <<l, k + 1>>
  <2> SUFFICES ASSUME NEW k \in 1..size
               PROVE  Successor(qs, d[k]) = IF k = size THEN <<l + 1, 1>> ELSE <<l, k + 1>>
    OBVIOUS
  <2>1. d[k] = <<l, k>> /\ d[k][1] = l /\ d[k][2] = k /\ qs[l] = size
    BY <1>1, <1>2
  <2> QED
    BY <2>1 DEF Successor
<1>8. ASSUME NEW i \in DOMAIN q
      PROVE  InPacket(qs, q[i]) /\ q[i] = IF i = 1 THEN <<n, 1>> ELSE Successor(qs, q[i - 1])
  <2>1. CASE i <= Len(s)
    <3>1. i \in DOMAIN s /\ (i # 1 => i - 1 \in 1..Len(s))
      BY <1>3, <2>1
    <3>2. InPacket(qs, s[i]) /\ s[i] = IF i = 1 THEN <<n, 1>> ELSE Successor(qs, s[i - 1])
      BY <1>4, <3>1 DEF Runs
    <3> QED
      BY <1>3, <3>1, <3>2
  <2>2. CASE i = Len(s) + 1
    <3>1. q[i] = d[1] /\ 1 \in 1..size
      BY <1>3, <2>2
    <3>2. q[i] = <<l, 1>> /\ InPacket(qs, q[i])
      BY <1>1, <1>6, <3>1
    <3>3. CASE s = <<>>
      <4>1. i = 1
        BY <2>2, <3>3
      <4> QED
        BY <1>5, <3>2, <3>3, <4>1
    <3>4. CASE s # <<>>
      <4>1. i # 1 /\ i - 1 = Len(s) /\ Len(s) \in 1..Len(s)
        BY <1>3, <2>2, <3>4
      <4>2. Successor(qs, s[Len(s)]) = <<l, 1>>
        BY <1>4, <3>4 DEF Behind
      <4>3. q[i - 1] = s[Len(s)]
        BY <1>3, <4>1
      <4> QED
        BY <3>2, <4>1, <4>2, <4>3
    <3> QED
      BY <3>3, <3>4
  <2>3. CASE i > Len(s) + 1
    <3> DEFINE k == i - Len(s)
    <3>0. i \in 1..Len(s) + size /\ Len(s) \in Nat /\ size \in Nat
      BY <1>3
    <3>1. k \in 1..size /\ k - 1 \in 1..size /\ i # 1 /\ k - 1 # size
      BY ONLY <2>3, <3>0
    <3>2. Len(s) + k = i /\ Len(s) + (k - 1) = i - 1 /\ (k - 1) + 1 = k
      BY ONLY <3>0
    <3> HIDE DEF k
    <3>3. q[i] = d[k] /\ q[i - 1] = d[k - 1]
      BY <1>3, <3>1, <3>2
    <3>4. Successor(qs, d[k - 1]) = <<l, k>>
      BY <1>7, <3>1, <3>2
    <3> QED
      BY <1>1, <1>6, <3>1, <3>3, <3>4
  <2> QED
    BY <1>3, <2>1, <2>2, <2>3
<1>9. Behind(qs, n, q) = <<l + 1, 1>>
  <2>1. q # <<>> /\ size \in 1..size
    BY <1>3
  <2>2. q[Len(q)] = d[size]
    BY <1>3, <2>1
  <2> QED
    BY <1>7, <2>1, <2>2 DEF Behind
<1>10. Runs(qs, n, q)
  BY <1>8 DEF Runs
<1>11. l + 1 = Len(ps) + 2
  BY DEF l
<1> QED
  BY <1>9, <1>10, <1>11 DEF q, qs, d, l

-----------------------------------------------------------------------------
(* The loop that reads packets.                                            *)

Reader == [buf : Seq(Byte), got : Seq(Nat \ {0}), stop : BOOLEAN,
           error : BOOLEAN, garbled : BOOLEAN]

\* The loop is left, or there is not even a length.
Done(r) == r.stop \/ Len(r.buf) < HeaderSize

\* Where it was left, there is room in the buffer or the session will close.
Roomy(r) == r.stop => r.error \/ Len(r.buf) < MaxPacket

\* The sizes of the packets sent are above the header's and below the buffer's.
LEMMA PacketSizes ==
  ASSUME packets \in Seq(Sizes)
  PROVE  /\ packets \in Seq(Nat)
         /\ \A n \in DOMAIN packets : packets[n] \in Nat /\ packets[n] > HeaderSize
         /\ HeaderSize \in Nat \ {0} /\ MaxPacket \in Nat /\ MaxPacket > HeaderSize
<1>1. /\ HeaderSize \in Nat \ {0} /\ MaxPacket \in Nat /\ MaxPacket > HeaderSize
      /\ Sizes \subseteq Nat /\ \A size \in Sizes : size > HeaderSize
  BY SessionAssumption DEF SessionAssumption
<1>2. packets \in Seq(Nat)
  BY <1>1, SeqMonotonic
<1>3. \A n \in DOMAIN packets : packets[n] \in Sizes
  BY ElementOfSeq
<1> QED
  BY <1>1, <1>2, <1>3

\* A header names a packet that was sent.
LEMMA HeaderNumber ==
  ASSUME NEW bytes, IsHeader(bytes), packets \in Seq(Sizes)
  PROVE  \E n \in DOMAIN packets : SubSeq(bytes, 1, HeaderSize)[1] = <<n, 1>>
  BY PacketSizes DEF IsHeader

\* What a round does, by whether there is no length, none of this stream, a
\* packet, or the front of one.
LEMMA RoundByCase ==
  ASSUME packets \in Seq(Sizes), NEW r \in Reader
  PROVE  \/ Done(r) /\ ReadOne(r) = r
         \/ /\ ~Done(r) /\ ~IsHeader(r.buf)
            /\ ReadOne(r) = [buf |-> <<>>, got |-> r.got, stop |-> TRUE,
                             error |-> r.error, garbled |-> TRUE]
         \/ /\ ~Done(r) /\ IsHeader(r.buf)
            /\ \E n \in DOMAIN packets :
                 /\ r.buf[1] = <<n, 1>>
                 /\ \/ /\ Len(r.buf) >= packets[n]
                       /\ \E g \in {r.got, Append(r.got, n)} :
                            /\ SubSeq(r.buf, 1, packets[n]) = PacketBytes(n, packets[n])
                                 => g = Append(r.got, n)
                            /\ ReadOne(r) = [buf |-> Drop(r.buf, packets[n]), got |-> g,
                                             stop |-> FALSE, error |-> r.error,
                                             garbled |-> r.garbled]
                    \/ /\ Len(r.buf) < packets[n]
                       /\ ReadOne(r) = [buf |-> r.buf, got |-> r.got, stop |-> TRUE,
                                        error |-> packets[n] > MaxPacket,
                                        garbled |-> r.garbled]
<1>1. r = [buf |-> r.buf, got |-> r.got, stop |-> r.stop, error |-> r.error,
           garbled |-> r.garbled]
  BY DEF Reader
<1>2. r.buf \in Seq(Byte) /\ r.got \in Seq(Nat \ {0}) /\ Len(r.buf) \in Nat /\ r.stop \in BOOLEAN
  BY DEF Reader
<1>3. CASE Done(r)
  BY <1>3 DEF Done, ReadOne
<1>4. CASE ~Done(r) /\ ~IsHeader(r.buf)
  <2>1. ReadOne(r) = [r EXCEPT !.stop = TRUE, !.garbled = TRUE, !.buf = <<>>]
    BY <1>4 DEF Done, ReadOne
  <2>2. ReadOne(r) = [buf |-> <<>>, got |-> r.got, stop |-> TRUE,
                      error |-> r.error, garbled |-> TRUE]
    BY <1>1, <2>1
  <2> QED
    BY <1>4, <2>2
<1>5. CASE ~Done(r) /\ IsHeader(r.buf)
  <2>1. PICK n \in DOMAIN packets : SubSeq(r.buf, 1, HeaderSize)[1] = <<n, 1>>
    BY <1>5, HeaderNumber
  <2>2. r.buf[1] = <<n, 1>>
    <3>1. HeaderSize \in 0..Len(r.buf) /\ 1 \in 1..HeaderSize
      BY <1>2, <1>5, PacketSizes DEF Done
    <3>2. SubSeq(r.buf, 1, HeaderSize)[1] = r.buf[1]
      BY <1>2, <3>1, CutInTwo
    <3> QED
      BY <2>1, <3>2
  <2>3. r.buf[1][1] = n
    BY <2>2
  <2> DEFINE size == packets[n]
             g == IF SubSeq(r.buf, 1, size) = PacketBytes(n, size)
                  THEN Append(r.got, n) ELSE r.got
  <2>4. ~r.stop /\ ~(Len(r.buf) < HeaderSize)
    BY <1>5 DEF Done
  <2>5. size \in Nat
    BY PacketSizes
  <2>6. CASE Len(r.buf) >= size
    <3>1. ReadOne(r) = [r EXCEPT !.buf = Drop(@, size),
                                 !.got = IF SubSeq(r.buf, 1, size) = PacketBytes(n, size)
                                         THEN Append(@, n) ELSE @]
      BY <1>5, <2>3, <2>4, <2>6 DEF ReadOne
    <3>2. ReadOne(r) = [buf |-> Drop(r.buf, size), got |-> g, stop |-> r.stop,
                        error |-> r.error, garbled |-> r.garbled]
      BY <1>1, <3>1
    <3>3. r.stop = FALSE
      BY <1>2, <2>4
    <3>4. g \in {r.got, Append(r.got, n)}
          /\ (SubSeq(r.buf, 1, size) = PacketBytes(n, size) => g = Append(r.got, n))
      OBVIOUS
    <3> HIDE DEF g
    <3> QED
      BY <1>5, <2>2, <2>6, <3>2, <3>3, <3>4
  <2>7. CASE Len(r.buf) < size
    <3>1. ~(Len(r.buf) >= size)
      BY <1>2, <2>5, <2>7
    <3>2. ReadOne(r) = [r EXCEPT !.stop = TRUE, !.error = size > MaxPacket]
      BY <1>5, <2>3, <2>4, <3>1 DEF ReadOne
    <3>3. ReadOne(r) = [buf |-> r.buf, got |-> r.got, stop |-> TRUE,
                        error |-> size > MaxPacket, garbled |-> r.garbled]
      BY <1>1, <3>2
    <3> QED
      BY <1>5, <2>2, <2>7, <3>3
  <2> QED
    BY <1>2, <2>5, <2>6, <2>7
<1> QED
  BY <1>3, <1>4, <1>5

\* A round keeps the reader's type and its room, and ends or shortens the buffer.
LEMMA RoundTypes ==
  ASSUME packets \in Seq(Sizes), NEW r \in Reader
  PROVE  /\ ReadOne(r) \in Reader
         /\ Roomy(r) => Roomy(ReadOne(r))
         /\ Done(r) => Done(ReadOne(r))
         /\ ~Done(r) => Done(ReadOne(r)) \/ Len(ReadOne(r).buf) < Len(r.buf)
<1>1. /\ r.buf \in Seq(Byte) /\ r.got \in Seq(Nat \ {0}) /\ Len(r.buf) \in Nat
      /\ {r.stop, r.error, r.garbled} \subseteq BOOLEAN
  BY DEF Reader
<1>2. CASE Done(r) /\ ReadOne(r) = r
  BY <1>2
<1>3. CASE ~Done(r) /\ ReadOne(r) = [buf |-> <<>>, got |-> r.got, stop |-> TRUE,
                                     error |-> r.error, garbled |-> TRUE]
  <2> DEFINE x == ReadOne(r)
  <2>1. x = [buf |-> <<>>, got |-> r.got, stop |-> TRUE, error |-> r.error, garbled |-> TRUE]
    BY <1>3
  <2> HIDE DEF x
  <2>2. x \in Reader
    BY <1>1, <2>1 DEF Reader
  <2>3. x.stop = TRUE /\ x.buf = <<>>
    BY <2>1
  <2>4. Len(<<>>) < MaxPacket
    BY PacketSizes
  <2>5. Done(x) /\ Roomy(x)
    BY <2>3, <2>4 DEF Done, Roomy
  <2> QED
    BY <1>3, <2>2, <2>5 DEF x
<1>4. ASSUME ~Done(r), NEW n \in DOMAIN packets, r.buf[1] = <<n, 1>>,
             Len(r.buf) >= packets[n], NEW g \in {r.got, Append(r.got, n)},
             ReadOne(r) = [buf |-> Drop(r.buf, packets[n]), got |-> g, stop |-> FALSE,
                           error |-> r.error, garbled |-> r.garbled]
      PROVE  /\ ReadOne(r) \in Reader /\ Roomy(ReadOne(r))
             /\ Len(ReadOne(r).buf) < Len(r.buf)
  <2> DEFINE x == ReadOne(r)
             b == Drop(r.buf, packets[n])
  <2>1. packets[n] \in Nat \ {0} /\ packets[n] \in 0..Len(r.buf) /\ n \in Nat \ {0}
    BY <1>1, <1>4, PacketSizes
  <2>2. b \in Seq(Byte) /\ Len(b) = Len(r.buf) - packets[n]
    BY <1>1, <2>1, CutInTwo
  <2>3. g \in Seq(Nat \ {0})
    <3>1. Append(r.got, n) \in Seq(Nat \ {0})
      BY <1>1, <2>1, AppendProperties
    <3> QED
      BY <1>1, <3>1
  <2>4. x = [buf |-> b, got |-> g, stop |-> FALSE, error |-> r.error, garbled |-> r.garbled]
    BY <1>4
  <2> HIDE DEF x, b
  <2>5. x \in Reader
    BY <1>1, <2>2, <2>3, <2>4 DEF Reader
  <2>6. x.stop = FALSE /\ x.buf = b
    BY <2>4
  <2>7. Roomy(x)
    BY <2>6 DEF Roomy
  <2>8. Len(x.buf) < Len(r.buf)
    BY <1>1, <2>1, <2>2, <2>6
  <2> QED
    BY <2>5, <2>7, <2>8 DEF x
<1>5. ASSUME ~Done(r), NEW n \in DOMAIN packets, Len(r.buf) < packets[n],
             ReadOne(r) = [buf |-> r.buf, got |-> r.got, stop |-> TRUE,
                           error |-> packets[n] > MaxPacket, garbled |-> r.garbled]
      PROVE  /\ ReadOne(r) \in Reader /\ Roomy(ReadOne(r)) /\ Done(ReadOne(r))
  <2> DEFINE x == ReadOne(r)
             e == packets[n] > MaxPacket
  <2>1. x = [buf |-> r.buf, got |-> r.got, stop |-> TRUE, error |-> e, garbled |-> r.garbled]
    BY <1>5
  <2>2. e \in BOOLEAN
    OBVIOUS
  <2>3. e \/ Len(r.buf) < MaxPacket
    BY <1>1, <1>5, PacketSizes
  <2> HIDE DEF x, e
  <2>4. x \in Reader
    BY <1>1, <2>1, <2>2 DEF Reader
  <2>5. x.stop = TRUE /\ x.buf = r.buf /\ x.error = e
    BY <2>1
  <2>6. Roomy(x) /\ Done(x)
    BY <2>3, <2>5 DEF Roomy, Done
  <2> QED
    BY <2>4, <2>6 DEF x
<1> QED
  BY <1>2, <1>3, <1>4, <1>5, RoundByCase

\* Dropping bytes of the front from a stream leaves what follows it alone.
LEMMA DropOfConcat ==
  ASSUME NEW S, NEW s \in Seq(S), NEW t \in Seq(S), NEW k \in 0..Len(s)
  PROVE  Drop(s \o t, k) = Drop(s, k) \o t
<1> DEFINE q == s \o t
           a == Drop(s, k)
           c == Drop(q, k)
<1>1. /\ q \in Seq(S) /\ Len(q) = Len(s) + Len(t) /\ Len(s) \in Nat /\ Len(t) \in Nat
      /\ \A i \in 1..Len(s) + Len(t) : q[i] = IF i <= Len(s) THEN s[i] ELSE t[i - Len(s)]
  BY ConcatProperties
<1>2. a \in Seq(S) /\ Len(a) = Len(s) - k /\ \A i \in 1..Len(s) - k : a[i] = s[k + i]
  BY CutInTwo
<1> HIDE DEF q
<1>3. k \in 0..Len(q)
  BY <1>1
<1>4. c \in Seq(S) /\ Len(c) = Len(q) - k /\ \A i \in 1..Len(q) - k : c[i] = q[k + i]
  BY <1>1, <1>3, CutInTwo
<1> HIDE DEF a, c
<1>5. Len(c) = Len(a) + Len(t)
  BY <1>1, <1>2, <1>4
<1>6. ASSUME NEW i \in 1..Len(a) PROVE c[i] = a[i]
  <2>1. /\ i \in 1..Len(s) - k /\ i \in 1..Len(q) - k
        /\ k + i \in 1..Len(s) + Len(t) /\ k + i <= Len(s)
    BY <1>1, <1>2
  <2>2. c[i] = q[k + i] /\ a[i] = s[k + i]
    BY <1>2, <1>4, <2>1
  <2> QED
    BY <1>1, <2>1, <2>2
<1>7. ASSUME NEW i \in 1..Len(t) PROVE c[Len(a) + i] = t[i]
  <2>1. k + (Len(a) + i) = Len(s) + i /\ Len(a) + i \in 1..Len(q) - k
    BY <1>1, <1>2
  <2>2. c[Len(a) + i] = q[Len(s) + i]
    BY <1>4, <2>1
  <2>3. Len(s) + i \in 1..Len(s) + Len(t) /\ ~(Len(s) + i <= Len(s)) /\ (Len(s) + i) - Len(s) = i
    BY <1>1
  <2> QED
    BY <1>1, <2>2, <2>3
<1>8. c = a \o t
  BY <1>2, <1>4, <1>5, <1>6, <1>7, Concatenation
<1> QED
  BY <1>8 DEF a, c, q

\* A round over bytes of the stream takes the packet at their front, whole, or
\* waits for more of it, and what remains runs on.
LEMMA RoundRuns ==
  ASSUME packets \in Seq(Sizes), NEW r \in Reader, ~r.garbled, NEW rest \in Seq(Byte),
         NEW m \in Nat, Runs(packets, m, r.buf \o rest)
  PROVE  /\ ~ReadOne(r).garbled
         /\ \/ ReadOne(r).got = r.got /\ ReadOne(r).buf = r.buf
            \/ /\ ReadOne(r).got = Append(r.got, m)
               /\ Runs(packets, m + 1, ReadOne(r).buf \o rest)
               /\ Behind(packets, m + 1, ReadOne(r).buf \o rest)
                    = Behind(packets, m, r.buf \o rest)
<1>1. r.buf \in Seq(Byte) /\ Len(r.buf) \in Nat /\ DOMAIN r.buf = 1..Len(r.buf)
  BY DEF Reader
<1>2. Runs(packets, m, r.buf)
  BY <1>1, FrontRuns
<1>3. /\ packets \in Seq(Nat) /\ HeaderSize \in Nat \ {0}
      /\ \A n \in DOMAIN packets : packets[n] \in Nat /\ packets[n] > HeaderSize
  BY PacketSizes
<1>4. /\ \A k \in 1..Len(r.buf) : k <= packets[m] => r.buf[k] = <<m, k>>
      /\ r.buf # <<>> => m \in DOMAIN packets /\ r.buf[1] = <<m, 1>>
  BY <1>1, <1>2, <1>3, FrontOfRun
<1>5. ASSUME ~Done(r) PROVE IsHeader(r.buf)
  <2>1. HeaderSize \in 0..Len(r.buf) /\ r.buf # <<>>
    BY <1>1, <1>3, <1>5 DEF Done
  <2>2. m \in DOMAIN packets /\ HeaderSize < packets[m] /\ packets[m] \in Nat
    BY <1>3, <1>4, <2>1
  <2> DEFINE a == SubSeq(r.buf, 1, HeaderSize)
             b == [k \in 1..HeaderSize |-> <<m, k>>]
  <2>3. /\ a \in Seq(Byte) /\ Len(a) = HeaderSize
        /\ \A k \in 1..HeaderSize : a[k] = r.buf[k]
    BY <1>1, <2>1, CutInTwo
  <2>4. \A k \in 1..HeaderSize : k \in 1..Len(r.buf) /\ k <= packets[m]
    BY <1>1, <1>3, <2>1, <2>2
  <2>5. \A k \in 1..HeaderSize : a[k] = b[k]
    BY <1>4, <2>3, <2>4
  <2>6. a = [k \in 1..HeaderSize |-> a[k]]
    <3> HIDE DEF a
    <3>1. DOMAIN a = 1..HeaderSize
      BY <2>3
    <3> QED
      BY <2>3, <3>1
  <2> HIDE DEF a
  <2>7. a = b
    BY <2>5, <2>6
  <2> QED
    BY <2>2, <2>7 DEF IsHeader, a
<1>6. CASE Done(r) /\ ReadOne(r) = r
  BY <1>6
<1>7. ASSUME ~Done(r), NEW n \in DOMAIN packets, r.buf[1] = <<n, 1>>,
             Len(r.buf) >= packets[n], NEW g,
             SubSeq(r.buf, 1, packets[n]) = PacketBytes(n, packets[n]) => g = Append(r.got, n),
             ReadOne(r) = [buf |-> Drop(r.buf, packets[n]), got |-> g, stop |-> FALSE,
                           error |-> r.error, garbled |-> r.garbled]
      PROVE  /\ ~ReadOne(r).garbled
             /\ ReadOne(r).got = Append(r.got, m)
             /\ Runs(packets, m + 1, ReadOne(r).buf \o rest)
             /\ Behind(packets, m + 1, ReadOne(r).buf \o rest) = Behind(packets, m, r.buf \o rest)
  <2> DEFINE size == packets[m]
  <2>1. r.buf # <<>>
    BY <1>1, <1>3, <1>7 DEF Done
  <2>2. n = m /\ m \in DOMAIN packets
    BY <1>4, <1>7, <2>1
  <2>3. size \in Nat \ {0} /\ size \in 1..Len(r.buf) /\ size \in 0..Len(r.buf)
    BY <1>1, <1>3, <1>7, <2>2
  <2>4. SubSeq(r.buf, 1, size) = PacketBytes(m, size)
    <3> DEFINE a == SubSeq(r.buf, 1, size)
               b == PacketBytes(m, size)
    <3>1. a \in Seq(Byte) /\ Len(a) = size /\ \A k \in 1..size : a[k] = r.buf[k]
      BY <1>1, <2>3, CutInTwo
    <3>2. \A k \in 1..size : a[k] = <<m, k>>
      BY SMTT(30), <1>4, <2>3, <3>1
    <3>3. b = [k \in 1..size |-> <<m, k>>]
      BY DEF PacketBytes
    <3>4. a = [k \in 1..size |-> a[k]]
      <4> HIDE DEF a
      <4>1. DOMAIN a = 1..size
        BY <2>3, <3>1
      <4> QED
        BY <4>1, <3>1
    <3> HIDE DEF a, b
    <3>5. a = b
      BY <3>2, <3>3, <3>4
    <3> QED
      BY <3>5 DEF a, b
  <2>5. g = Append(r.got, m)
    BY <1>7, <2>2, <2>4
  <2>6. ReadOne(r).buf = Drop(r.buf, size) /\ ReadOne(r).got = g /\ ReadOne(r).garbled = r.garbled
    BY <1>7, <2>2
  <2>7. Drop(r.buf \o rest, size) = Drop(r.buf, size) \o rest
    BY <1>1, <2>3, DropOfConcat
  <2>8. /\ Runs(packets, m + 1, Drop(r.buf \o rest, size))
        /\ Behind(packets, m + 1, Drop(r.buf \o rest, size)) = Behind(packets, m, r.buf \o rest)
    <3> DEFINE q == r.buf \o rest
    <3>1. q \in Seq(Byte) /\ Len(q) = Len(r.buf) + Len(rest) /\ Len(rest) \in Nat
      BY <1>1, ConcatProperties
    <3> HIDE DEF q
    <3>2. size \in 1..Len(q)
      BY <1>1, <2>3, <3>1
    <3>3. Runs(packets, m, q)
      BY DEF q
    <3>4. Runs(packets, m + 1, Drop(q, size)) /\ Behind(packets, m + 1, Drop(q, size)) = Behind(packets, m, q)
      BY <1>3, <2>2, <3>1, <3>2, <3>3, RunWithoutFirst
    <3> QED
      BY <3>4 DEF q
  <2> QED
    BY <2>5, <2>6, <2>7, <2>8
<1>8. ASSUME NEW n \in DOMAIN packets,
             ReadOne(r) = [buf |-> r.buf, got |-> r.got, stop |-> TRUE,
                           error |-> packets[n] > MaxPacket, garbled |-> r.garbled]
      PROVE  ~ReadOne(r).garbled /\ ReadOne(r).got = r.got /\ ReadOne(r).buf = r.buf
  <2> DEFINE e == packets[n] > MaxPacket
  <2>1. ReadOne(r) = [buf |-> r.buf, got |-> r.got, stop |-> TRUE, error |-> e, garbled |-> r.garbled]
    BY <1>8
  <2> HIDE DEF e
  <2> QED
    BY <2>1
<1> QED
  BY <1>5, <1>6, <1>7, <1>8, RoundByCase

\* The loop has a result after every round.
LEMMA Iteration ==
  ASSUME NEW a \in Reader, NEW step \in [Reader -> Reader], NEW n \in Nat
  PROVE  \E f \in [0..n -> Reader] : f[0] = a /\ \A k \in 1..n : f[k] = step[f[k - 1]]
<1> DEFINE Iterates(f, m) == f[0] = a /\ \A k \in 1..m : f[k] = step[f[k - 1]]
           T == {m \in Nat : \E f \in [0..m -> Reader] : Iterates(f, m)}
<1>1. 0 \in T
  <2> DEFINE f == [k \in 0..0 |-> a]
  <2>1. f \in [0..0 -> Reader] /\ Iterates(f, 0)
    OBVIOUS
  <2> QED
    BY <2>1
<1>2. ASSUME NEW m \in Nat, m \in T PROVE m + 1 \in T
  <2>1. PICK f \in [0..m -> Reader] : Iterates(f, m)
    BY <1>2
  <2> DEFINE g == [k \in 0..(m + 1) |-> IF k = m + 1 THEN step[f[m]] ELSE f[k]]
  <2>2. g \in [0..(m + 1) -> Reader]
    OBVIOUS
  <2>3. g[0] = a
    BY <2>1
  <2>4. ASSUME NEW k \in 1..(m + 1) PROVE g[k] = step[g[k - 1]]
    <3>1. CASE k = m + 1
      <4>1. k - 1 = m /\ m \in 0..(m + 1) /\ m # m + 1
        BY <3>1
      <4>2. g[k] = step[f[m]] /\ g[m] = f[m]
        BY <3>1, <4>1
      <4> QED
        BY <4>1, <4>2
    <3>2. CASE k # m + 1
      <4>1. k \in 1..m /\ k - 1 \in 0..m /\ k - 1 # m + 1
        BY <3>2
      <4>2. g[k] = f[k] /\ g[k - 1] = f[k - 1]
        BY <4>1, <3>2
      <4> QED
        BY <2>1, <4>1, <4>2
    <3> QED
      BY <3>1, <3>2
  <2> HIDE DEF g
  <2>5. Iterates(g, m + 1)
    BY <2>3, <2>4
  <2> QED
    BY <2>2, <2>5
<1> HIDE DEF T
<1>3. Nat \subseteq T
  BY <1>1, <1>2, Induction
<1> QED
  BY <1>3 DEF T

\* The loop's rounds follow one another.
LEMMA RoundsFollow ==
  ASSUME packets \in Seq(Sizes), NEW bytes \in Seq(Byte)
  PROVE  /\ Len(bytes) \in Nat
         /\ Rounds(bytes)[0] = Unread(bytes) /\ Unread(bytes) \in Reader
         /\ \A k \in 1..Len(bytes) : Rounds(bytes)[k] = ReadOne(Rounds(bytes)[k - 1])
<1> DEFINE N == Len(bytes)
           start == Unread(bytes)
           step == [r \in Reader |-> ReadOne(r)]
<1>1. N \in Nat
  OBVIOUS
<1>2. start \in Reader
  BY DEF Unread, Reader
<1>3. step \in [Reader -> Reader]
  BY RoundTypes
<1> HIDE DEF start, step
<1>4. PICK f \in [0..N -> Reader] : f[0] = start /\ \A k \in 1..N : f[k] = step[f[k - 1]]
  <2> HIDE DEF N
  <2> QED
    BY ONLY ZenonT(60), <1>1, <1>2, <1>3, Iteration
<1>5. \A k \in 1..N : f[k] = ReadOne(f[k - 1])
  <2> SUFFICES ASSUME NEW k \in 1..N PROVE f[k] = ReadOne(f[k - 1])
    OBVIOUS
  <2>1. f[k - 1] \in Reader
    BY <1>1, <1>4
  <2> QED
    BY <1>4, <2>1 DEF step
<1>6. f = [n \in 0..N |-> IF n = 0 THEN start ELSE ReadOne(f[n - 1])]
  <2>1. f = [n \in 0..N |-> f[n]]
    BY <1>4
  <2>2. \A n \in 0..N : f[n] = IF n = 0 THEN start ELSE ReadOne(f[n - 1])
    <3>1. \A n \in 0..N : n # 0 => n \in 1..N
      BY <1>1
    <3> QED
      BY <1>4, <1>5, <3>1
  <2> QED
    BY <2>1, <2>2
<1> DEFINE R == Rounds(bytes)
<1>7. R = CHOOSE round : round = [n \in 0..N |-> IF n = 0 THEN start ELSE ReadOne(round[n - 1])]
  BY DEF Rounds, start
<1>8. R = [n \in 0..N |-> IF n = 0 THEN start ELSE ReadOne(R[n - 1])]
  <2> HIDE DEF R
  <2> QED
    BY <1>6, <1>7
<1> HIDE DEF R
<1>9. R[0] = start /\ \A k \in 1..N : R[k] = ReadOne(R[k - 1])
  <2>1. 0 \in 0..N /\ \A k \in 1..N : k \in 0..N /\ k # 0
    BY <1>1
  <2> QED
    BY <1>8, <2>1
<1> QED
  BY <1>1, <1>2, <1>9 DEF R, start

\* The arithmetic of a loop that shortens what is left at every round.
LEMMA Shorter ==
  ASSUME NEW a \in Nat, NEW b \in Nat, NEW k \in Nat, NEW N \in Nat, a < b, b + k <= N
  PROVE  a + (k + 1) <= N
  OBVIOUS

\* The loop ends: with no length left, or room in the buffer, or an error.
LEMMA ReadingEnds ==
  ASSUME packets \in Seq(Sizes), NEW bytes \in Seq(Byte)
  PROVE  Reading(bytes) \in Reader /\ Done(Reading(bytes)) /\ Roomy(Reading(bytes))
<1> DEFINE N == Len(bytes)
           R == Rounds(bytes)
           Good(r, k) == /\ r \in Reader /\ Roomy(r)
                         /\ Done(r) \/ Len(r.buf) + k <= N
           T == {k \in Nat : k \in 0..N => Good(R[k], k)}
<1>1. /\ N \in Nat /\ R[0] = Unread(bytes) /\ Unread(bytes) \in Reader
      /\ \A k \in 1..N : R[k] = ReadOne(R[k - 1])
  BY RoundsFollow
<1> HIDE DEF R, Good
<1>2. 0 \in T
  <2>1. Unread(bytes).buf = bytes /\ Unread(bytes).stop = FALSE
    BY DEF Unread
  <2>2. Good(R[0], 0)
    BY <1>1, <2>1 DEF Good, Roomy
  <2> QED
    BY <2>2
<1>3. ASSUME NEW k \in Nat, k \in T PROVE k + 1 \in T
  <2> SUFFICES ASSUME k + 1 \in 0..N PROVE Good(R[k + 1], k + 1)
    OBVIOUS
  <2>1. k \in 0..N /\ k + 1 \in 1..N /\ (k + 1) - 1 = k
    BY <1>1
  <2>2. Good(R[k], k)
    BY <1>3, <2>1
  <2> DEFINE r == R[k]
             x == ReadOne(r)
  <2>3. R[k + 1] = x
    BY <1>1, <2>1
  <2>4. r \in Reader /\ Roomy(r) /\ (Done(r) \/ Len(r.buf) + k <= N)
    BY <2>2 DEF Good
  <2> HIDE DEF r, x
  <2>5. /\ x \in Reader /\ Roomy(x) /\ (Done(r) => Done(x))
        /\ ~Done(r) => Done(x) \/ Len(x.buf) < Len(r.buf)
    BY <2>4, RoundTypes DEF x
  <2>6. Len(x.buf) \in Nat /\ Len(r.buf) \in Nat
    BY <2>4, <2>5 DEF Reader
  <2>7. Done(x) \/ Len(x.buf) + (k + 1) <= N
    <3> SUFFICES ASSUME ~Done(x) PROVE Len(x.buf) + (k + 1) <= N
      OBVIOUS
    <3>1. Len(x.buf) < Len(r.buf) /\ Len(r.buf) + k <= N
      BY <2>4, <2>5
    <3> QED
      BY <1>1, <2>6, <3>1, Shorter
  <2> QED
    BY <2>3, <2>5, <2>7 DEF Good
<1> HIDE DEF T
<1>4. Nat \subseteq T
  BY <1>2, <1>3, Induction
<1>5. Good(R[N], N)
  <2>1. N \in T /\ N \in 0..N
    BY <1>1, <1>4
  <2> QED
    BY <2>1 DEF T
<1>6. Done(R[N])
  <2>1. CASE Len(R[N].buf) + N <= N
    <3>1. Len(R[N].buf) \in Nat
      BY <1>5 DEF Good, Reader
    <3>2. Len(R[N].buf) < HeaderSize
      BY <1>1, <2>1, <3>1, PacketSizes
    <3> QED
      BY <3>2 DEF Done
  <2> QED
    BY <1>5, <2>1 DEF Good
<1> QED
  BY <1>5, <1>6 DEF Good, Reading, R

\* Reading from the front of the n-th packet: packets are queued in order, and
\* what remains is the stream from the front of the first that is not.
LEMMA ReadingRuns ==
  ASSUME packets \in Seq(Sizes), NEW bytes \in Seq(Byte), NEW rest \in Seq(Byte),
         NEW n \in Nat, Runs(packets, n + 1, bytes \o rest)
  PROVE  /\ ~Reading(bytes).garbled
         /\ \A i \in DOMAIN Reading(bytes).got : Reading(bytes).got[i] = n + i
         /\ Runs(packets, n + Len(Reading(bytes).got) + 1, Reading(bytes).buf \o rest)
         /\ Behind(packets, n + Len(Reading(bytes).got) + 1, Reading(bytes).buf \o rest)
              = Behind(packets, n + 1, bytes \o rest)
<1> DEFINE N == Len(bytes)
           R == Rounds(bytes)
           behind == Behind(packets, n + 1, bytes \o rest)
           Good(r) == /\ r \in Reader /\ ~r.garbled
                      /\ \A i \in DOMAIN r.got : r.got[i] = n + i
                      /\ Runs(packets, n + Len(r.got) + 1, r.buf \o rest)
                      /\ Behind(packets, n + Len(r.got) + 1, r.buf \o rest) = behind
           T == {k \in Nat : k \in 0..N => Good(R[k])}
<1>1. /\ N \in Nat /\ R[0] = Unread(bytes) /\ Unread(bytes) \in Reader
      /\ \A k \in 1..N : R[k] = ReadOne(R[k - 1])
  BY RoundsFollow
<1> HIDE DEF R, behind
<1>2. 0 \in T
  <2>1. /\ Unread(bytes).buf = bytes /\ Unread(bytes).got = <<>>
        /\ Unread(bytes).garbled = FALSE
    BY DEF Unread
  <2>2. n + Len(<<>>) + 1 = n + 1 /\ DOMAIN <<>> = {}
    OBVIOUS
  <2>3. Good(R[0])
    BY <1>1, <2>1, <2>2 DEF behind
  <2> QED
    BY <2>3
<1>3. ASSUME NEW k \in Nat, k \in T PROVE k + 1 \in T
  <2> SUFFICES ASSUME k + 1 \in 0..N PROVE Good(R[k + 1])
    OBVIOUS
  <2>1. k \in 0..N /\ k + 1 \in 1..N /\ (k + 1) - 1 = k
    BY <1>1
  <2>2. Good(R[k])
    BY <1>3, <2>1
  <2> DEFINE r == R[k]
             x == ReadOne(r)
             m == n + Len(r.got) + 1
  <2>3. R[k + 1] = x
    BY <1>1, <2>1
  <2>4. /\ r \in Reader /\ ~r.garbled
        /\ \A i \in DOMAIN r.got : r.got[i] = n + i
        /\ Runs(packets, m, r.buf \o rest)
        /\ Behind(packets, m, r.buf \o rest) = behind
    BY <2>2
  <2> HIDE DEF r, x
  <2>5. r.got \in Seq(Nat \ {0}) /\ Len(r.got) \in Nat /\ m \in Nat
    BY <2>4 DEF Reader
  <2>6. x \in Reader
    BY <2>4, RoundTypes DEF x
  <2>7. /\ ~x.garbled
        /\ \/ x.got = r.got /\ x.buf = r.buf
           \/ /\ x.got = Append(r.got, m)
              /\ Runs(packets, m + 1, x.buf \o rest)
              /\ Behind(packets, m + 1, x.buf \o rest) = Behind(packets, m, r.buf \o rest)
    <3> HIDE DEF m
    <3> QED
      BY <2>4, <2>5, RoundRuns DEF x
  <2>8. CASE x.got = r.got /\ x.buf = r.buf
    BY <2>3, <2>4, <2>6, <2>7, <2>8
  <2>9. CASE /\ x.got = Append(r.got, m)
             /\ Runs(packets, m + 1, x.buf \o rest)
             /\ Behind(packets, m + 1, x.buf \o rest) = Behind(packets, m, r.buf \o rest)
    <3>1. /\ Len(Append(r.got, m)) = Len(r.got) + 1
          /\ DOMAIN Append(r.got, m) = 1..Len(r.got) + 1
          /\ \A i \in 1..Len(r.got) : Append(r.got, m)[i] = r.got[i]
          /\ Append(r.got, m)[Len(r.got) + 1] = m
          /\ DOMAIN r.got = 1..Len(r.got)
      <4> HIDE DEF m
      <4> QED
        BY <2>5
    <3>2. n + Len(x.got) + 1 = m + 1
      BY <2>5, <2>9, <3>1
    <3>3. ASSUME NEW i \in DOMAIN x.got PROVE x.got[i] = n + i
      <4>1. i \in 1..Len(r.got) \/ i = Len(r.got) + 1
        BY <2>5, <2>9, <3>1
      <4>2. CASE i \in 1..Len(r.got)
        BY <2>4, <2>9, <3>1, <4>2
      <4>3. CASE i = Len(r.got) + 1
        <5>1. n + i = m
          BY <2>5, <4>3
        <5> QED
          BY <2>9, <3>1, <4>3, <5>1
      <4> QED
        BY <4>1, <4>2, <4>3
    <3> QED
      BY <2>3, <2>4, <2>6, <2>7, <2>9, <3>2, <3>3
  <2> QED
    BY <2>7, <2>8, <2>9
<1> HIDE DEF T
<1>4. Nat \subseteq T
  BY <1>2, <1>3, Induction
<1>5. Good(R[N])
  <2>1. N \in T /\ N \in 0..N
    BY <1>1, <1>4
  <2> QED
    BY <2>1 DEF T
<1>6. Reading(bytes) = R[N]
  BY DEF Reading, R
<1> QED
  BY <1>5, <1>6 DEF behind


-----------------------------------------------------------------------------
(* The invariant.                                                          *)

\* A sending socket object: what it holds are bytes, in its queue too.
Sender(o) ==
  /\ o = [buf |-> o.buf, sending |-> o.sending, queue |-> o.queue, open |-> o.open,
          doomed |-> o.doomed, lost |-> o.lost]
  /\ o.buf \in Seq(Byte) /\ Len(o.buf) <= MaxPacket
  /\ IsQueue(o.queue) /\ Contents(o.queue) \in Seq(Byte)
  /\ o.sending \in BOOLEAN /\ o.open \in BOOLEAN /\ o.doomed \in BOOLEAN /\ o.lost \in BOOLEAN

\* A receiving session.
Receiver(i) ==
  /\ i = [buf |-> i.buf, events |-> i.events, armed |-> i.armed, open |-> i.open,
          garbled |-> i.garbled]
  /\ i.buf \in Seq(Byte) /\ i.events \in Seq(Nat)
  /\ i.armed \in BOOLEAN /\ i.open \in BOOLEAN /\ i.garbled \in BOOLEAN

\* What was received has been handled or is in the receiver's queue.
Types ==
  /\ packets \in Seq(Sizes) /\ Len(packets) <= MaxPackets
  /\ Sender(out) /\ Receiver(in)
  /\ posted \in Seq(Seq(Byte))
  /\ wire \in Seq(Byte) /\ Len(wire) <= Window
  /\ line \in {"UP", "CUT"}
  /\ got \in Seq(Nat) /\ handled \in Nat /\ handled + Queued(in.events) = Len(got)

\* Until the sender throws bytes away, what lies in the receiver's buffer and in
\* TCP is the stream from the first packet not received on, whatever is closed.
InStep ==
  ~out.lost => ~in.garbled /\ Runs(packets, Len(got) + 1, in.buf \o wire)

SessionInv == Types /\ InStep /\ NothingLost /\ InOrder /\ InFlightIntact /\ RoomToRead


-----------------------------------------------------------------------------
(* The send buffer and the queue behind it.                                *)

\* The parts of a sequence are made of what it is made of.
LEMMA Parts ==
  ASSUME NEW S, NEW T, NEW a \in Seq(T), NEW b \in Seq(T), a \o b \in Seq(S)
  PROVE  a \in Seq(S) /\ b \in Seq(S)
<1> DEFINE c == a \o b
<1>1. /\ Len(a) \in Nat /\ Len(b) \in Nat /\ Len(c) = Len(a) + Len(b)
      /\ \A i \in 1..Len(a) + Len(b) : c[i] = IF i <= Len(a) THEN a[i] ELSE b[i - Len(a)]
  BY ConcatProperties
<1>2. \A i \in 1..Len(c) : c[i] \in S
  OBVIOUS
<1> HIDE DEF c
<1>3. ASSUME NEW i \in 1..Len(a) PROVE a[i] \in S
  <2>1. i \in 1..Len(a) + Len(b) /\ i <= Len(a)
    BY <1>1
  <2> QED
    BY <1>1, <1>2, <2>1
<1>4. ASSUME NEW i \in 1..Len(b) PROVE b[i] \in S
  <2>1. Len(a) + i \in 1..Len(a) + Len(b) /\ ~(Len(a) + i <= Len(a)) /\ (Len(a) + i) - Len(a) = i
    BY <1>1
  <2> QED
    BY <1>1, <1>2, <2>1
<1>5. a = [i \in 1..Len(a) |-> a[i]] /\ b = [i \in 1..Len(b) |-> b[i]]
  OBVIOUS
<1>6. a \in [1..Len(a) -> S] /\ b \in [1..Len(b) -> S]
  BY <1>3, <1>4, <1>5
<1> QED
  BY <1>1, <1>6

\* A prefix of a sequence is one of every longer one.
LEMMA PrefixOfMore ==
  ASSUME NEW S, NEW s \in Seq(S), NEW t \in Seq(S), NEW u \in Seq(S), IsPrefix(s, t)
  PROVE  IsPrefix(s, t \o u)
<1>1. Len(s) \in Nat /\ Len(t) \in Nat /\ Len(s) <= Len(t) /\ SubSeq(s, 1, Len(s)) = SubSeq(t, 1, Len(s))
  BY DEF IsPrefix
<1> DEFINE q == t \o u
<1>2. /\ q \in Seq(S) /\ Len(q) = Len(t) + Len(u) /\ Len(u) \in Nat
      /\ \A i \in 1..Len(t) + Len(u) : q[i] = IF i <= Len(t) THEN t[i] ELSE u[i - Len(t)]
  BY ConcatProperties
<1> HIDE DEF q
<1>3. Len(s) \in 0..Len(q) /\ Len(s) \in 0..Len(t)
  BY <1>1, <1>2
<1> DEFINE a == SubSeq(t, 1, Len(s))
           b == SubSeq(q, 1, Len(s))
<1>4. /\ a \in Seq(S) /\ Len(a) = Len(s) /\ \A i \in 1..Len(s) : a[i] = t[i]
      /\ b \in Seq(S) /\ Len(b) = Len(s) /\ \A i \in 1..Len(s) : b[i] = q[i]
  BY <1>2, <1>3, CutInTwo
<1> HIDE DEF a, b
<1>5. \A i \in 1..Len(s) : q[i] = t[i]
  BY <1>1, <1>2
<1>6. a = b
  BY <1>4, <1>5, SeqEqual
<1> QED
  BY <1>1, <1>3, <1>6 DEF IsPrefix, a, b, q

\* MovDataQue2Buf moves bytes and keeps their order: afterwards the buffer is
\* full or the queue is empty.
LEMMA MovedKeeps ==
  ASSUME NEW o, Sender(o)
  PROVE  /\ Sender(Moved(o))
         /\ Moved(o).buf \o Contents(Moved(o).queue) = o.buf \o Contents(o.queue)
         /\ Len(Moved(o).buf) = MaxPacket \/ Contents(Moved(o).queue) = <<>>
         /\ \E more \in Seq(Byte) : Moved(o).buf = o.buf \o more
         /\ Moved(o).sending = o.sending /\ Moved(o).open = o.open
         /\ Moved(o).doomed = o.doomed /\ Moved(o).lost = o.lost
<1> DEFINE n == MaxPacket - Len(o.buf)
           a == Popped(o.queue, n)
           p == Pop(o.queue, n)
           c == Contents(o.queue)
           b == Contents(p)
           buf == o.buf \o a
<1>1. /\ o = [buf |-> o.buf, sending |-> o.sending, queue |-> o.queue, open |-> o.open,
              doomed |-> o.doomed, lost |-> o.lost]
      /\ o.buf \in Seq(Byte) /\ Len(o.buf) <= MaxPacket /\ Len(o.buf) \in Nat
      /\ IsQueue(o.queue) /\ c \in Seq(Byte)
      /\ o.sending \in BOOLEAN /\ o.open \in BOOLEAN /\ o.doomed \in BOOLEAN /\ o.lost \in BOOLEAN
  BY DEF Sender
<1>2. MaxPacket \in Nat /\ n \in Nat
  BY <1>1, SessionAssumption DEF SessionAssumption
<1>3. Moved(o) = [buf |-> buf, sending |-> o.sending, queue |-> p, open |-> o.open,
                  doomed |-> o.doomed, lost |-> o.lost]
  <2>1. Moved(o) = [o EXCEPT !.buf = buf, !.queue = p]
    BY DEF Moved
  <2> HIDE DEF buf, p
  <2> QED
    BY <1>1, <2>1
<1> HIDE DEF n
<1>4. /\ IsQueue(p) /\ a \in Seq(Byte \cup {NoByte}) /\ b \in Seq(Byte \cup {NoByte})
      /\ Len(a) = Least(n, DataSize(o.queue)) /\ c = a \o b
      /\ Len(c) = DataSize(o.queue)
  BY <1>1, <1>2, PopKeepsAQueue, PopTakesTheFront, ContentsSeq
<1> HIDE DEF a, p, b, c
<1>5. a \in Seq(Byte) /\ b \in Seq(Byte)
  BY <1>1, <1>4, Parts
<1>6. /\ buf \in Seq(Byte) /\ Len(buf) = Len(o.buf) + Len(a)
      /\ Len(a) \in Nat /\ Len(b) \in Nat /\ Len(c) = Len(a) + Len(b)
  <2>1. buf \in Seq(Byte) /\ Len(buf) = Len(o.buf) + Len(a)
    BY <1>1, <1>5, ConcatProperties
  <2>2. Len(a \o b) = Len(a) + Len(b)
    BY <1>5, ConcatProperties
  <2> QED
    BY <1>4, <1>5, <2>1, <2>2
<1>7. Len(a) <= n /\ (Len(a) = n \/ Len(a) = Len(c))
  BY <1>2, <1>4, <1>6, LeastNat
<1>8. Len(buf) <= MaxPacket /\ (Len(buf) = MaxPacket \/ b = <<>>)
  <2>1. Len(a) = n => Len(buf) = MaxPacket
    BY <1>1, <1>2, <1>6 DEF n
  <2>2. Len(a) = Len(c) => b = <<>>
    BY <1>5, <1>6
  <2>3. Len(buf) <= MaxPacket
    BY <1>1, <1>2, <1>6, <1>7 DEF n
  <2> QED
    BY <1>7, <2>1, <2>2, <2>3
<1>9. buf \o b = o.buf \o c
  BY SMTT(30), <1>1, <1>4, <1>5, ConcatAssociative
<1>10. \E more \in Seq(Byte) : buf = o.buf \o more
  BY <1>5
<1> HIDE DEF buf
<1>11. Sender(Moved(o))
  BY <1>1, <1>3, <1>4, <1>5, <1>6, <1>8 DEF Sender, b
<1>12. Moved(o).buf = buf /\ Contents(Moved(o).queue) = b
  BY <1>3 DEF b
<1>13. /\ Moved(o).sending = o.sending /\ Moved(o).open = o.open
       /\ Moved(o).doomed = o.doomed /\ Moved(o).lost = o.lost
  BY <1>3
<1>14. Moved(o).buf \o Contents(Moved(o).queue) = o.buf \o Contents(o.queue)
  BY <1>9, <1>12 DEF c
<1> QED
  BY <1>8, <1>10, <1>11, <1>12, <1>13, <1>14


\* The bytes of a packet are bytes.
LEMMA PacketIsBytes ==
  ASSUME NEW n \in 1..MaxPackets, NEW size \in Sizes
  PROVE  size \in Nat /\ PacketBytes(n, size) \in Seq(Byte) /\ Len(PacketBytes(n, size)) = size
<1>1. size \in Nat /\ \A k \in 1..size : <<n, k>> \in Byte
  BY SessionAssumption DEF SessionAssumption
<1> DEFINE d == PacketBytes(n, size)
<1>2. d \in [1..size -> Byte]
  BY <1>1 DEF PacketBytes
<1> HIDE DEF d
<1>3. d \in Seq(Byte) /\ Len(d) = size
  BY <1>1, <1>2
<1> QED
  BY <1>1, <1>3 DEF d

\* SendData puts the whole packet behind what waits, or throws the buffer away.
LEMMA FilledSends ==
  ASSUME Sender(out), packets \in Seq(Sizes), Len(packets) < MaxPackets, NEW size \in Sizes
  PROVE  /\ Sender(Filled(size)) /\ Filled(size).open = out.open
         /\ out.lost => Filled(size).lost
         /\ ~Filled(size).lost =>
              /\ Filled(size).sending = out.sending
              /\ \E more \in Seq(Byte) : Filled(size).buf = out.buf \o more
              /\ Filled(size).buf \o Contents(Filled(size).queue)
                   = (out.buf \o Contents(out.queue)) \o PacketBytes(Len(packets) + 1, size)
<1> DEFINE o == Moved(out)
           data == PacketBytes(Len(packets) + 1, size)
           room == MaxPacket - Len(o.buf)
           copied == Least(room, size)
           front == SubSeq(data, 1, copied)
           rest == Drop(data, copied)
           c == Contents(o.queue)
           q == IF rest = <<>> THEN o.queue ELSE Push(o.queue, rest)
           full == rest # <<>> /\ Taken(o.queue, rest) < Len(rest)
           buf == o.buf \o front
<1>1. /\ Sender(o) /\ o.buf \o c = out.buf \o Contents(out.queue)
      /\ Len(o.buf) = MaxPacket \/ c = <<>>
      /\ \E more \in Seq(Byte) : o.buf = out.buf \o more
      /\ o.sending = out.sending /\ o.open = out.open /\ o.doomed = out.doomed /\ o.lost = out.lost
  BY MovedKeeps
<1>2. size \in Nat /\ data \in Seq(Byte) /\ Len(data) = size
  <2>1. Len(packets) + 1 \in 1..MaxPackets
    BY SessionAssumption DEF SessionAssumption
  <2> QED
    BY <2>1, PacketIsBytes
<1>3. Filled(size) =
        IF full THEN [o EXCEPT !.queue = q, !.buf = <<>>, !.sending = FALSE, !.doomed = TRUE, !.lost = TRUE]
        ELSE [o EXCEPT !.queue = q, !.buf = buf]
  BY DEF Filled
<1> HIDE DEF o, data
<1>4. /\ o = [buf |-> o.buf, sending |-> o.sending, queue |-> o.queue, open |-> o.open,
              doomed |-> o.doomed, lost |-> o.lost]
      /\ o.buf \in Seq(Byte) /\ Len(o.buf) <= MaxPacket /\ Len(o.buf) \in Nat
      /\ IsQueue(o.queue) /\ c \in Seq(Byte)
      /\ o.sending \in BOOLEAN /\ o.open \in BOOLEAN /\ o.doomed \in BOOLEAN /\ o.lost \in BOOLEAN
  BY <1>1 DEF Sender
<1>5. room \in Nat /\ MaxPacket \in Nat
  BY <1>4, SessionAssumption DEF SessionAssumption
<1>6. copied \in 0..Len(data) /\ copied <= room
  <2>1. copied \in Nat /\ copied <= room /\ copied <= size
    <3> HIDE DEF room
    <3> QED
      BY <1>2, <1>5, LeastNat
  <2> HIDE DEF copied
  <2> QED
    BY <1>2, <2>1
<1> HIDE DEF copied
<1>7. /\ front \in Seq(Byte) /\ Len(front) = copied /\ rest \in Seq(Byte)
      /\ front \o rest = data
  BY <1>2, <1>6, CutInTwo
<1> HIDE DEF front, rest, c
<1>8. buf \in Seq(Byte) /\ Len(buf) = Len(o.buf) + copied
  BY <1>4, <1>7, ConcatProperties
<1>9. Len(buf) <= MaxPacket
  BY <1>4, <1>5, <1>6, <1>8
<1>10. IsQueue(q)
  BY <1>4, <1>7, PushKeepsAQueue
<1>11. Contents(q) \in Seq(Byte) /\ (~full => Contents(q) = c \o rest)
  <2>1. CASE rest = <<>>
    <3>1. q = o.queue /\ c \o <<>> = c
      BY <1>4, <2>1, ConcatEmptySeq
    <3> QED
      BY <1>4, <2>1, <3>1 DEF c
  <2>2. CASE rest # <<>>
    <3> DEFINE k == Taken(o.queue, rest)
               pushed == SubSeq(rest, 1, k)
    <3>1. q = Push(o.queue, rest) /\ (~full => ~(k < Len(rest)))
      BY <2>2
    <3>2. k \in Nat /\ k <= Len(rest) /\ Contents(q) = c \o pushed
      BY <1>4, <1>7, <3>1, TakenNat, PushAppends DEF c
    <3> HIDE DEF k
    <3>3. Len(rest) \in Nat /\ k \in 0..Len(rest)
      BY <1>7, <3>2
    <3>4. pushed \in Seq(Byte)
      BY <1>7, <3>3, CutInTwo
    <3>5. k = Len(rest) => pushed = rest
      BY <1>7
    <3> HIDE DEF pushed, q, full
    <3>6. c \o pushed \in Seq(Byte)
      BY <1>4, <3>4, ConcatProperties
    <3>7. ~full => k = Len(rest)
      BY <3>1, <3>3
    <3> QED
      BY ONLY <3>2, <3>5, <3>6, <3>7
  <2> QED
    BY <2>1, <2>2
<1>12. front = <<>> \/ c = <<>>
  <2>1. Len(o.buf) = MaxPacket => copied = 0
    BY <1>4, <1>5, <1>6
  <2>2. copied = 0 => front = <<>>
    BY <1>7
  <2> QED
    BY <1>1, <2>1, <2>2 DEF c
<1>13. buf \o (c \o rest) = (out.buf \o Contents(out.queue)) \o data
  <2>1. o.buf \in Seq(Byte) /\ c \in Seq(Byte) /\ front \in Seq(Byte) /\ rest \in Seq(Byte)
    BY <1>4, <1>7
  <2> DEFINE b == o.buf
  <2>2. front = <<>> \/ c = <<>> => (b \o front) \o (c \o rest) = (b \o c) \o (front \o rest)
    <3> HIDE DEF b
    <3>1. b \in Seq(Byte) /\ c \in Seq(Byte) /\ front \in Seq(Byte) /\ rest \in Seq(Byte)
      BY <2>1 DEF b
    <3>2. b \o <<>> = b /\ <<>> \o rest = rest
      BY ONLY <3>1, ConcatEmptySeq
    <3>3. (b \o c) \o rest = b \o (c \o rest)
      BY ONLY SMTT(30), <3>1, ConcatAssociative
    <3>4. (b \o front) \o rest = b \o (front \o rest)
      BY ONLY SMTT(30), <3>1, ConcatAssociative
    <3> QED
      BY ONLY <3>2, <3>3, <3>4
  <2>3. b \o c = out.buf \o Contents(out.queue)
    BY <1>1 DEF c
  <2>4. buf = b \o front
    OBVIOUS
  <2> HIDE DEF b, buf
  <2> QED
    BY <1>7, <1>12, <2>2, <2>3, <2>4
<1>14. \E more \in Seq(Byte) : buf = out.buf \o more
  <2>1. PICK more \in Seq(Byte) : o.buf = out.buf \o more
    BY <1>1
  <2>2. out.buf \in Seq(Byte)
    BY DEF Sender
  <2>3. more \o front \in Seq(Byte)
    BY <1>7, ConcatProperties
  <2> DEFINE b == out.buf
  <2>4. (b \o more) \o front = b \o (more \o front)
    <3> HIDE DEF b
    <3>1. b \in Seq(Byte) /\ more \in Seq(Byte) /\ front \in Seq(Byte)
      BY <1>7, <2>2 DEF b
    <3> QED
      BY ONLY SMTT(30), <3>1, ConcatAssociative
  <2>5. buf = out.buf \o (more \o front)
    BY <2>1, <2>4
  <2> QED
    BY <2>3, <2>5
<1> HIDE DEF q, full, buf
<1>15. CASE full
  <2>1. Filled(size) = [buf |-> <<>>, sending |-> FALSE, queue |-> q, open |-> o.open,
                        doomed |-> TRUE, lost |-> TRUE]
    BY <1>3, <1>4, <1>15
  <2>2. <<>> \in Seq(Byte) /\ Len(<<>>) <= MaxPacket
    BY <1>5
  <2>3. Sender(Filled(size))
    BY <1>4, <1>10, <1>11, <2>1, <2>2 DEF Sender
  <2>4. Filled(size).lost = TRUE /\ Filled(size).open = o.open
    BY <2>1
  <2> QED
    BY <1>1, <2>3, <2>4
<1>16. CASE ~full
  <2>1. Filled(size) = [buf |-> buf, sending |-> o.sending, queue |-> q, open |-> o.open,
                        doomed |-> o.doomed, lost |-> o.lost]
    BY <1>3, <1>4, <1>16
  <2>2. Sender(Filled(size))
    BY <1>4, <1>8, <1>9, <1>10, <1>11, <2>1 DEF Sender
  <2>3. /\ Filled(size).buf = buf /\ Filled(size).queue = q /\ Filled(size).sending = o.sending
        /\ Filled(size).open = o.open /\ Filled(size).lost = o.lost
    BY <2>1
  <2>4. Filled(size).buf \o Contents(Filled(size).queue) = (out.buf \o Contents(out.queue)) \o data
    BY <1>11, <1>13, <1>16, <2>3
  <2> QED
    BY <1>1, <1>14, <2>2, <2>3, <2>4 DEF data
<1> QED
  BY <1>15, <1>16


\* OnSendCompleted takes exactly the bytes that went off the front.
LEMMA CompletedSends ==
  ASSUME Sender(out), NEW k \in Nat \ {0}
  PROVE  /\ Sender(Completed(k)) /\ Completed(k).sending = FALSE
         /\ Completed(k).open = out.open /\ Completed(k).lost = out.lost
         /\ k <= Len(out.buf) =>
              Completed(k).buf \o Contents(Completed(k).queue) = Drop(out.buf, k) \o Contents(out.queue)
<1> DEFINE kept == IF k >= Len(out.buf) THEN <<>> ELSE Drop(out.buf, k)
           o == [out EXCEPT !.sending = FALSE, !.buf = kept]
<1>1. Completed(k) = Moved(o)
  BY DEF Completed
<1>2. /\ out = [buf |-> out.buf, sending |-> out.sending, queue |-> out.queue, open |-> out.open,
                doomed |-> out.doomed, lost |-> out.lost]
      /\ out.buf \in Seq(Byte) /\ Len(out.buf) <= MaxPacket /\ Len(out.buf) \in Nat
      /\ IsQueue(out.queue) /\ Contents(out.queue) \in Seq(Byte)
      /\ out.open \in BOOLEAN /\ out.doomed \in BOOLEAN /\ out.lost \in BOOLEAN
  BY DEF Sender
<1>3. MaxPacket \in Nat
  BY SessionAssumption DEF SessionAssumption
<1>4. /\ kept \in Seq(Byte) /\ Len(kept) <= MaxPacket
      /\ k <= Len(out.buf) => kept = Drop(out.buf, k)
  <2>1. CASE k >= Len(out.buf)
    <3>1. kept = <<>>
      BY <2>1
    <3>2. k <= Len(out.buf) => Drop(out.buf, k) \in Seq(Byte) /\ Len(Drop(out.buf, k)) = 0
      <4>1. k <= Len(out.buf) => k \in 0..Len(out.buf) /\ Len(out.buf) - k = 0
        BY <1>2, <2>1
      <4> QED
        BY <1>2, <4>1, CutInTwo
    <3>3. k <= Len(out.buf) => Drop(out.buf, k) = <<>>
      BY <3>2
    <3>4. <<>> \in Seq(Byte) /\ Len(<<>>) <= MaxPacket
      BY <1>3
    <3> QED
      BY <3>1, <3>3, <3>4
  <2>2. CASE ~(k >= Len(out.buf))
    <3>1. kept = Drop(out.buf, k) /\ k \in 0..Len(out.buf)
      BY <1>2, <2>2
    <3>2. Drop(out.buf, k) \in Seq(Byte) /\ Len(Drop(out.buf, k)) = Len(out.buf) - k
      BY <1>2, <3>1, CutInTwo
    <3>3. Len(out.buf) - k <= MaxPacket
      BY <1>2, <1>3
    <3> QED
      BY <3>1, <3>2, <3>3
  <2> QED
    BY <2>1, <2>2
<1> HIDE DEF kept
<1>5. o = [buf |-> kept, sending |-> FALSE, queue |-> out.queue, open |-> out.open,
           doomed |-> out.doomed, lost |-> out.lost]
  <2>1. o = [out EXCEPT !.sending = FALSE, !.buf = kept]
    OBVIOUS
  <2> HIDE DEF o
  <2> QED
    BY <1>2, <2>1
<1> HIDE DEF o
<1>6. Sender(o)
  BY <1>2, <1>4, <1>5 DEF Sender
<1>7. /\ Sender(Moved(o)) /\ Moved(o).sending = o.sending
      /\ Moved(o).open = o.open /\ Moved(o).lost = o.lost
      /\ Moved(o).buf \o Contents(Moved(o).queue) = o.buf \o Contents(o.queue)
  BY <1>6, MovedKeeps
<1>8. /\ o.sending = FALSE /\ o.open = out.open /\ o.lost = out.lost
      /\ o.buf = kept /\ o.queue = out.queue
  BY <1>5
<1> QED
  BY <1>1, <1>4, <1>7, <1>8

\* A WSASend is one send more under way, and the flag says so, or none.
LEMMA PostKeeps ==
  ASSUME NEW o, Sender(o), NEW pending \in Seq(Seq(Byte)), Post(o, pending)
  PROVE  /\ Sender(out') /\ posted' \in Seq(Seq(Byte))
         /\ out'.buf = o.buf /\ out'.queue = o.queue /\ out'.open = o.open /\ out'.lost = o.lost
         /\ \/ out'.sending = TRUE /\ posted' = Append(pending, o.buf)
            \/ out'.sending = o.sending /\ posted' = pending
<1>1. /\ o = [buf |-> o.buf, sending |-> o.sending, queue |-> o.queue, open |-> o.open,
              doomed |-> o.doomed, lost |-> o.lost]
      /\ o.buf \in Seq(Byte) /\ Len(o.buf) <= MaxPacket
      /\ IsQueue(o.queue) /\ Contents(o.queue) \in Seq(Byte)
      /\ o.sending \in BOOLEAN /\ o.open \in BOOLEAN /\ o.doomed \in BOOLEAN /\ o.lost \in BOOLEAN
  BY DEF Sender
<1>2. CASE out' = [o EXCEPT !.sending = TRUE] /\ posted' = Append(pending, o.buf)
  <2>1. out' = [buf |-> o.buf, sending |-> TRUE, queue |-> o.queue, open |-> o.open,
                doomed |-> o.doomed, lost |-> o.lost]
    BY <1>1, <1>2
  <2>2. Sender(out')
    BY <1>1, <2>1 DEF Sender
  <2>3. posted' \in Seq(Seq(Byte))
    BY <1>1, <1>2
  <2> QED
    BY <1>2, <2>1, <2>2, <2>3
<1>3. CASE out' = [o EXCEPT !.doomed = TRUE] /\ posted' = pending
  <2>1. out' = [buf |-> o.buf, sending |-> o.sending, queue |-> o.queue, open |-> o.open,
                doomed |-> TRUE, lost |-> o.lost]
    BY <1>1, <1>3
  <2>2. Sender(out')
    BY <1>1, <2>1 DEF Sender
  <2> QED
    BY <1>3, <2>1, <2>2
<1> QED
  BY <1>2, <1>3 DEF Post

-----------------------------------------------------------------------------
(* The receiver's queue of events.                                         *)

\* How many packets a queue of events holds is a number, and packets put behind
\* it make it so many more.
LEMMA QueuedMore ==
  ASSUME NEW e \in Seq(Nat), NEW g \in Seq(Nat \ {0})
  PROVE  Queued(e) \in Nat /\ Queued(e \o g) = Queued(e) + Len(g)
<1> DEFINE l == Len(e)
           m == Len(g)
           q == e \o g
           A == {i \in DOMAIN e : e[i] # Destroy}
           B == l + 1..l + m
<1>1. /\ l \in Nat /\ m \in Nat /\ DOMAIN e = 1..l
      /\ \A i \in 1..m : g[i] \in Nat \ {0}
  OBVIOUS
<1>2. /\ DOMAIN q = 1..l + m
      /\ \A i \in 1..l : q[i] = e[i]
      /\ \A i \in B : q[i] = g[i - l] /\ i - l \in 1..m
  <2>1. g \in Seq(Nat) /\ e \in Seq(Nat)
    OBVIOUS
  <2>2. /\ q \in Seq(Nat) /\ Len(q) = l + m
        /\ \A i \in 1..l + m : q[i] = IF i <= l THEN e[i] ELSE g[i - l]
    BY ONLY <2>1, ConcatProperties
  <2> HIDE DEF q
  <2>3. DOMAIN q = 1..l + m
    BY <2>2
  <2> HIDE DEF l, m
  <2>4. \A i \in 1..l : i \in 1..l + m /\ i <= l
    BY <1>1
  <2>5. \A i \in B : i \in 1..l + m /\ ~(i <= l) /\ i - l \in 1..m
    BY <1>1
  <2> QED
    BY <2>2, <2>3, <2>4, <2>5
<1> HIDE DEF q
<1>3. {i \in DOMAIN q : q[i] # Destroy} = A \cup B
  <2> HIDE DEF l, m
  <2>1. \A i \in B : q[i] # Destroy
    BY <1>1, <1>2 DEF Destroy
  <2>2. \A i \in 1..l + m : i \in 1..l \/ i \in B
    BY <1>1
  <2>3. \A i \in B : i \in 1..l + m
    BY <1>1
  <2>4. 1..l \subseteq 1..l + m
    BY <1>1
  <2> HIDE DEF B
  <2> QED
    BY <1>1, <1>2, <2>1, <2>2, <2>3, <2>4
<1>4. /\ IsFiniteSet(A) /\ Cardinality(A) \in Nat
      /\ IsFiniteSet(B) /\ Cardinality(B) = m
  <2>1. IsFiniteSet(1..l)
    BY <1>1, FS_Interval
  <2>2. IsFiniteSet(A)
    BY <1>1, <2>1, FS_Subset
  <2> DEFINE a == l + 1
             b == l + m
  <2>3. a \in Int /\ b \in Int
    BY <1>1
  <2>4. IsFiniteSet(B) /\ Cardinality(B) = IF a > b THEN 0 ELSE b - a + 1
    <3> HIDE DEF a, b
    <3>1. IsFiniteSet(a..b) /\ Cardinality(a..b) = IF a > b THEN 0 ELSE b - a + 1
      BY <2>3, FS_Interval
    <3>2. B = a..b
      BY DEF a, b
    <3> QED
      BY <3>1, <3>2
  <2> HIDE DEF A, B, l, m
  <2> QED
    BY <1>1, <2>2, <2>4, FS_CardinalityType
<1>5. A \cap B = {}
  BY <1>1
<1> HIDE DEF A, B
<1>6. Cardinality(A \cup B) = Cardinality(A) + Cardinality(B) - Cardinality({})
  BY <1>4, <1>5, FS_Union
<1>7. Cardinality({}) = 0
  BY FS_EmptySet
<1>8. Queued(e) = Cardinality(A) /\ Queued(q) = Cardinality(A \cup B)
  BY <1>3 DEF Queued, A
<1> QED
  BY <1>4, <1>6, <1>7, <1>8 DEF q

\* A destruction in the queue is no packet, and an empty queue holds none.
LEMMA QueuedDestroy ==
  ASSUME NEW e \in Seq(Nat)
  PROVE  /\ Append(e, Destroy) \in Seq(Nat) /\ Queued(Append(e, Destroy)) = Queued(e)
         /\ Queued(<<>>) = 0
<1>1. Append(e, Destroy) \in Seq(Nat)
  BY DEF Destroy
<1>2. {i \in DOMAIN Append(e, Destroy) : Append(e, Destroy)[i] # Destroy} = {i \in DOMAIN e : e[i] # Destroy}
  <2> DEFINE q == Append(e, Destroy)
  <2>1. /\ Len(e) \in Nat /\ DOMAIN e = 1..Len(e) /\ DOMAIN q = 1..Len(e) + 1
        /\ \A i \in 1..Len(e) : q[i] = e[i]
        /\ q[Len(e) + 1] = Destroy
    BY DEF Destroy
  <2> HIDE DEF q
  <2>2. \A i \in 1..Len(e) + 1 : i \in 1..Len(e) \/ i = Len(e) + 1
    BY <2>1
  <2>3. \A i \in 1..Len(e) : i \in 1..Len(e) + 1
    BY <2>1
  <2>4. {i \in DOMAIN q : q[i] # Destroy} = {i \in DOMAIN e : e[i] # Destroy}
    BY <2>1, <2>2, <2>3
  <2> QED
    BY <2>4 DEF q
<1>3. {i \in DOMAIN <<>> : <<>>[i] # Destroy} = {}
  OBVIOUS
<1>4. Cardinality({}) = 0
  BY FS_EmptySet
<1>5. Queued(Append(e, Destroy)) = Queued(e)
  BY <1>2 DEF Queued
<1>6. Queued(<<>>) = 0
  BY <1>3, <1>4 DEF Queued
<1> QED
  BY <1>1, <1>5, <1>6


-----------------------------------------------------------------------------
(* Every step keeps the invariant.                                         *)

\* A new pair of sessions satisfies the invariant.
LEMMA InitKeeps == Init => SessionInv
<1> SUFFICES ASSUME Init PROVE SessionInv
  OBVIOUS
<1>1. PICK n \in QueueSizes :
        out = [buf |-> <<>>, sending |-> FALSE, queue |-> Resized(n), open |-> TRUE,
               doomed |-> FALSE, lost |-> FALSE]
  BY DEF Init
<1>2. /\ packets = <<>> /\ posted = <<>> /\ wire = <<>> /\ line = "UP" /\ got = <<>> /\ handled = 0
      /\ in = [buf |-> <<>>, events |-> <<>>, armed |-> TRUE, open |-> TRUE, garbled |-> FALSE]
  BY DEF Init
<1>3. n \in Nat /\ MaxPacket \in Nat /\ Window \in Nat /\ MaxPackets \in Nat /\ MaxPacket > 0
  BY SessionAssumption DEF SessionAssumption
<1> DEFINE q == Resized(n)
<1>4. IsQueue(q)
  BY <1>3 DEF Resized, IsQueue
<1>5. DataSize(q) = 0
  <2>1. q.head = 0 /\ q.tail = 0
    BY DEF Resized
  <2> HIDE DEF q
  <2> QED
    BY <1>4, <2>1, DataSizeByCase
<1>6. Contents(q) = <<>>
  BY <1>5 DEF Contents
<1> HIDE DEF q
<1>7. <<>> \in Seq(Byte) /\ <<>> \in Seq(Nat) /\ <<>> \in Seq(Sizes) /\ <<>> \in Seq(Seq(Byte)) /\ Len(<<>>) = 0
  OBVIOUS
<1>8. Sender(out)
  BY <1>1, <1>3, <1>4, <1>6, <1>7 DEF Sender, q
<1>9. Receiver(in)
  BY <1>2, <1>7 DEF Receiver
<1>10. Queued(in.events) = 0
  BY <1>2, <1>7, QueuedDestroy
<1>11. Types
  BY <1>2, <1>3, <1>7, <1>8, <1>9, <1>10 DEF Types
<1>12. in.buf \o wire = <<>> /\ in.buf \o wire \o out.buf \o Contents(out.queue) = <<>>
  BY <1>1, <1>2, <1>6 DEF q
<1>13. \A m : Runs(packets, m, <<>>)
  BY DEF Runs
<1>14. InStep
  BY <1>2, <1>12, <1>13 DEF InStep
<1>15. NothingLost
  BY <1>2, <1>12, <1>13 DEF NothingLost, Behind
<1>16. InOrder /\ InFlightIntact /\ RoomToRead
  BY <1>1, <1>2, <1>3 DEF InOrder, InFlightIntact, RoomToRead
<1> QED
  BY <1>11, <1>14, <1>15, <1>16 DEF SessionInv

\* CSession::SendPacket, and the post it may make, keep the invariant.
LEMMA SendPacketKeeps ==
  ASSUME SessionInv, NEW size \in Sizes, SendPacket(size)
  PROVE  SessionInv'
<1> DEFINE o == Filled(size)
           l == Len(packets) + 1
           d == PacketBytes(l, size)
<1>1. /\ out.open /\ Len(packets) < MaxPackets /\ packets' = Append(packets, size)
      /\ wire' = wire /\ line' = line /\ in' = in /\ got' = got /\ handled' = handled
      /\ \/ (o.buf = <<>> \/ o.sending) /\ out' = o /\ posted' = posted
         \/ ~o.sending /\ Post(o, posted)
  BY DEF SendPacket
<1>2. /\ packets \in Seq(Sizes) /\ Sender(out) /\ Receiver(in) /\ posted \in Seq(Seq(Byte))
      /\ wire \in Seq(Byte) /\ got \in Seq(Nat) /\ MaxPackets \in Nat
      /\ out.buf \in Seq(Byte) /\ Contents(out.queue) \in Seq(Byte) /\ in.buf \in Seq(Byte)
  BY SessionAssumption DEF SessionInv, Types, Sender, Receiver, SessionAssumption
<1>3. /\ Sender(o) /\ o.open = out.open /\ (out.lost => o.lost)
      /\ ~o.lost => /\ o.sending = out.sending
                    /\ \E more \in Seq(Byte) : o.buf = out.buf \o more
                    /\ o.buf \o Contents(o.queue) = (out.buf \o Contents(out.queue)) \o d
  BY <1>1, <1>2, FilledSends
<1> HIDE DEF o
<1>4. /\ Sender(out') /\ posted' \in Seq(Seq(Byte)) /\ out'.open = o.open /\ out'.lost = o.lost
      /\ out'.buf = o.buf /\ out'.queue = o.queue
  <2>1. CASE out' = o /\ posted' = posted
    BY <1>2, <1>3, <2>1
  <2>2. CASE Post(o, posted)
    BY <1>2, <1>3, <2>2, PostKeeps
  <2> QED
    BY <1>1, <2>1, <2>2
<1>5. packets' \in Seq(Sizes) /\ Len(packets') = Len(packets) + 1 /\ Len(packets) \in Nat
  BY <1>1, <1>2
<1>6. Types'
  BY <1>1, <1>2, <1>4, <1>5 DEF SessionInv, Types
<1>7. /\ packets \in Seq(Nat) /\ size \in Nat \ {0} /\ Len(got) + 1 \in Nat
      /\ d \in Seq(Byte) /\ Len(d) = size
  <2>1. Sizes \subseteq Nat /\ size \in Nat \ {0}
    BY SessionAssumption DEF SessionAssumption
  <2>2. packets \in Seq(Nat)
    BY <1>2, <2>1, SeqMonotonic
  <2>3. l \in 1..MaxPackets
    BY <1>1, <1>2, <1>5
  <2>4. d \in Seq(Byte) /\ Len(d) = size
    BY <2>3, PacketIsBytes
  <2> QED
    BY <1>2, <2>1, <2>2, <2>4
<1>8. ~out'.lost => ~out.lost
  BY <1>3, <1>4
<1> DEFINE w == in.buf \o wire
           s == in.buf \o wire \o out.buf \o Contents(out.queue)
<1>9. w \in Seq(Byte) /\ s \in Seq(Byte)
  BY <1>2
<1>10. InStep'
  <2> SUFFICES ASSUME ~out'.lost
               PROVE  ~in.garbled /\ Runs(Append(packets, size), Len(got) + 1, w)
    BY <1>1 DEF InStep
  <2>1. ~in.garbled /\ Runs(packets, Len(got) + 1, w)
    BY <1>8 DEF SessionInv, InStep
  <2> HIDE DEF w
  <2> QED
    BY <1>7, <1>9, <2>1, RunOfMore
<1>11. NothingLost'
  <2> DEFINE b == o.buf
             e == Contents(o.queue)
             t == (w \o b) \o e
             qs == Append(packets, size)
  <2> SUFFICES ASSUME ~out'.lost, line = "UP"
               PROVE  Runs(qs, Len(got) + 1, t) /\ Behind(qs, Len(got) + 1, t) = <<Len(qs) + 1, 1>>
    BY <1>1, <1>4 DEF NothingLost
  <2>1. Runs(packets, Len(got) + 1, s) /\ Behind(packets, Len(got) + 1, s) = <<l, 1>>
    BY <1>1, <1>8 DEF SessionInv, NothingLost
  <2>2. Len(qs) + 1 = Len(packets) + 2
    BY <1>1, <1>5
  <2>3. t = s \o d
    <3> DEFINE a == out.buf
               c == Contents(out.queue)
    <3>1. /\ w \in Seq(Byte) /\ a \in Seq(Byte) /\ c \in Seq(Byte) /\ d \in Seq(Byte)
          /\ b \in Seq(Byte) /\ e \in Seq(Byte) /\ b \o e = (a \o c) \o d
      BY <1>2, <1>3, <1>4, <1>7, <1>9 DEF Sender
    <3>2. s = (w \o a) \o c
      OBVIOUS
    <3> HIDE DEF w, a, b, c, d, e, s
    <3>3. /\ w \in Seq(Byte) /\ a \in Seq(Byte) /\ c \in Seq(Byte)
          /\ a \o c \in Seq(Byte) /\ (w \o a) \o c = w \o (a \o c)
      <4>1. w \in Seq(Byte) /\ a \in Seq(Byte) /\ c \in Seq(Byte)
        BY <3>1
      <4>2. (w \o a) \o c = w \o (a \o c)
        BY ONLY SMTT(30), <4>1, ConcatAssociative
      <4>3. a \o c \in Seq(Byte)
        BY ONLY <4>1, ConcatProperties
      <4> QED
        BY <4>1, <4>2, <4>3
    <3> DEFINE f == a \o c
    <3>4. w \in Seq(Byte) /\ f \in Seq(Byte) /\ d \in Seq(Byte)
      BY <3>1, <3>3
    <3>5. b \o e = f \o d /\ s = w \o f
      BY <3>1, <3>2, <3>3
    <3> HIDE DEF f
    <3>6. (w \o f) \o d = w \o (f \o d)
      BY ONLY SMTT(30), <3>4, ConcatAssociative
    <3>7. w \in Seq(Byte) /\ b \in Seq(Byte) /\ e \in Seq(Byte)
      BY <3>1
    <3>8. (w \o b) \o e = w \o (b \o e)
      BY ONLY SMTT(30), <3>7, ConcatAssociative
    <3> QED
      BY ONLY <3>5, <3>6, <3>8 DEF t
  <2> HIDE DEF s, t, d
  <2>4. /\ Runs(qs, Len(got) + 1, s \o PacketBytes(Len(packets) + 1, size))
        /\ Behind(qs, Len(got) + 1, s \o PacketBytes(Len(packets) + 1, size)) = <<Len(packets) + 2, 1>>
    BY <1>7, <1>9, <2>1, RunWithPacket DEF d
  <2> QED
    BY <2>2, <2>3, <2>4 DEF d
<1>12. InOrder'
  BY <1>1, <1>8 DEF SessionInv, InOrder
<1>13. InFlightIntact'
  <2> SUFFICES ASSUME ~out'.lost, line = "UP"
               PROVE  /\ Len(posted') <= 1
                      /\ out'.sending <=> posted' # <<>>
                      /\ \A i \in DOMAIN posted' : IsPrefix(posted'[i], o.buf)
    BY <1>1, <1>4 DEF InFlightIntact
  <2>1. /\ Len(posted) <= 1 /\ (out.sending <=> posted # <<>>)
        /\ \A i \in DOMAIN posted : IsPrefix(posted[i], out.buf)
    BY <1>1, <1>8 DEF SessionInv, InFlightIntact
  <2>2. o.sending = out.sending
    BY <1>3, <1>4
  <2>3. \A i \in DOMAIN posted : IsPrefix(posted[i], o.buf)
    <3> SUFFICES ASSUME NEW i \in DOMAIN posted PROVE IsPrefix(posted[i], o.buf)
      OBVIOUS
    <3>1. PICK more \in Seq(Byte) : o.buf = out.buf \o more
      BY <1>3, <1>4
    <3>2. posted[i] \in Seq(Byte) /\ IsPrefix(posted[i], out.buf)
      BY <1>2, <2>1
    <3> QED
      BY <1>2, <3>1, <3>2, PrefixOfMore
  <2>4. CASE out' = o /\ posted' = posted
    BY <2>1, <2>2, <2>3, <2>4
  <2>5. CASE ~o.sending /\ Post(o, posted)
    <3>1. posted = <<>>
      BY <2>1, <2>2, <2>5
    <3>2. \/ out'.sending = TRUE /\ posted' = <<o.buf>>
          \/ out'.sending = o.sending /\ posted' = <<>>
      <4>1. \/ out'.sending = TRUE /\ posted' = Append(posted, o.buf)
            \/ out'.sending = o.sending /\ posted' = posted
        BY <1>2, <1>3, <2>5, PostKeeps
      <4>2. Append(<<>>, o.buf) = <<o.buf>>
        OBVIOUS
      <4> QED
        BY <3>1, <4>1, <4>2
    <3>3. IsPrefix(o.buf, o.buf)
      BY <1>3 DEF IsPrefix, Sender
    <3>4. CASE out'.sending = TRUE /\ posted' = <<o.buf>>
      <4> DEFINE p == posted'
      <4>1. Len(p) = 1 /\ p # <<>> /\ DOMAIN p = {1} /\ p[1] = o.buf
        BY <3>4
      <4> HIDE DEF p
      <4>2. Len(p) <= 1 /\ p # <<>> /\ \A i \in DOMAIN p : IsPrefix(p[i], o.buf)
        BY <3>3, <4>1
      <4> QED
        BY <3>4, <4>2 DEF p
    <3>5. CASE out'.sending = o.sending /\ posted' = <<>>
      BY <2>5, <3>5
    <3> QED
      BY <3>2, <3>4, <3>5
  <2> QED
    BY <1>1, <2>4, <2>5
<1>14. RoomToRead'
  BY <1>1 DEF SessionInv, RoomToRead
<1> QED
  BY <1>6, <1>10, <1>11, <1>12, <1>13, <1>14 DEF SessionInv


\* The completion of a send, and the post that follows it, keep the invariant.
LEMMA SendCompletedKeeps ==
  ASSUME SessionInv, SendCompleted
  PROVE  SessionInv'
<1>1. /\ out.open /\ posted # <<>> /\ line = "UP"
      /\ packets' = packets /\ line' = line /\ in' = in /\ got' = got /\ handled' = handled
  BY DEF SendCompleted
<1>2. /\ packets \in Seq(Sizes) /\ Sender(out) /\ Receiver(in) /\ posted \in Seq(Seq(Byte))
      /\ wire \in Seq(Byte) /\ Len(wire) <= Window /\ Window \in Nat
      /\ got \in Seq(Nat) /\ in.buf \in Seq(Byte)
      /\ out.buf \in Seq(Byte) /\ Contents(out.queue) \in Seq(Byte)
  BY SessionAssumption DEF SessionInv, Types, Sender, Receiver, SessionAssumption
<1> DEFINE first == Head(posted)
           pending == Tail(posted)
<1>3. first \in Seq(Byte) /\ pending \in Seq(Seq(Byte)) /\ Len(pending) = Len(posted) - 1
  BY <1>1, <1>2
<1>4. PICK k \in 1..Least(Len(first), Window - Len(wire)), bytes \in {first, Overwritten(first)} :
        /\ wire' = wire \o SubSeq(bytes, 1, k)
        /\ IF Completed(k).buf = <<>>
           THEN out' = Completed(k) /\ posted' = pending
           ELSE Post(Completed(k), pending)
  BY DEF SendCompleted
<1> DEFINE o == Completed(k)
           sent == SubSeq(bytes, 1, k)
<1> HIDE DEF first, pending
<1>5. k \in Nat \ {0} /\ k <= Len(first) /\ k <= Window - Len(wire)
  <2> DEFINE a == Len(first)
             b == Window - Len(wire)
  <2>1. a \in Nat /\ b \in Nat
    BY <1>2, <1>3
  <2>2. k \in 1..Least(a, b)
    OBVIOUS
  <2> HIDE DEF a, b
  <2>3. Least(a, b) \in Nat /\ Least(a, b) <= a /\ Least(a, b) <= b
    BY <2>1, LeastNat
  <2>4. k \in Nat \ {0} /\ k <= a /\ k <= b
    BY <2>1, <2>2, <2>3
  <2> QED
    BY <2>4 DEF a, b
<1>6. Overwritten(first) \in Seq(Byte) /\ Len(Overwritten(first)) = Len(first)
  <2>1. \A i \in 1..Len(first) : first[i] \in Byte
    BY <1>3
  <2>2. \A i \in 1..Len(first) : i <= Len(out.buf) => out.buf[i] \in Byte
    BY <1>2
  <2>3. Overwritten(first) = [i \in 1..Len(first) |-> IF i <= Len(out.buf) THEN out.buf[i] ELSE first[i]]
    BY <1>3 DEF Overwritten
  <2>4. Overwritten(first) \in [1..Len(first) -> Byte]
    BY <2>1, <2>2, <2>3
  <2>5. Len(first) \in Nat
    BY <1>3
  <2> QED
    BY <2>4, <2>5
<1>7. bytes \in Seq(Byte) /\ Len(bytes) = Len(first)
  BY <1>3, <1>4, <1>6
<1>8. /\ sent \in Seq(Byte) /\ Len(sent) = k
      /\ \A i \in 1..k : sent[i] = bytes[i]
  <2>1. k \in 0..Len(bytes)
    BY <1>5, <1>7
  <2> QED
    BY <1>7, <2>1, CutInTwo
<1> HIDE DEF sent
<1>9. /\ Sender(o) /\ o.sending = FALSE /\ o.open = out.open /\ o.lost = out.lost
      /\ k <= Len(out.buf) =>
           o.buf \o Contents(o.queue) = Drop(out.buf, k) \o Contents(out.queue)
  BY <1>2, <1>5, CompletedSends
<1>10. \/ o.buf = <<>> /\ out' = o /\ posted' = pending
       \/ o.buf # <<>> /\ Post(o, pending)
  BY <1>4
<1> HIDE DEF o
<1>11. /\ Sender(out') /\ posted' \in Seq(Seq(Byte)) /\ out'.open = o.open /\ out'.lost = o.lost
       /\ out'.buf = o.buf /\ out'.queue = o.queue
       /\ \/ out'.sending = TRUE /\ posted' = Append(pending, o.buf)
          \/ out'.sending = FALSE /\ posted' = pending
  <2>1. CASE out' = o /\ posted' = pending
    BY <1>3, <1>9, <2>1
  <2>2. CASE Post(o, pending)
    BY <1>3, <1>9, <2>2, PostKeeps
  <2> QED
    BY <1>10, <2>1, <2>2
<1>12. wire' \in Seq(Byte) /\ Len(wire') <= Window
  <2>1. wire' = wire \o sent
    BY <1>4 DEF sent
  <2>2. wire \o sent \in Seq(Byte) /\ Len(wire \o sent) = Len(wire) + k
    BY <1>2, <1>8, ConcatProperties
  <2>3. Len(wire) \in Nat
    BY <1>2
  <2> QED
    BY <1>2, <1>5, <2>1, <2>2, <2>3
<1>13. Types'
  BY <1>1, <1>11, <1>12 DEF SessionInv, Types
<1>14. ASSUME ~out.lost
       PROVE  /\ Len(posted) = 1 /\ k \in 0..Len(out.buf)
              /\ sent = SubSeq(out.buf, 1, k)
              /\ sent \o Drop(out.buf, k) = out.buf
  <2>1. /\ Len(posted) <= 1 /\ \A i \in DOMAIN posted : IsPrefix(posted[i], out.buf)
    BY <1>1, <1>14 DEF SessionInv, InFlightIntact
  <2>2. Len(posted) = 1 /\ first = posted[1] /\ 1 \in DOMAIN posted
    <3>1. Len(posted) \in Nat /\ Len(posted) # 0 /\ DOMAIN posted = 1..Len(posted)
      BY <1>1, <1>2
    <3>2. Len(posted) = 1
      BY <2>1, <3>1
    <3>3. first = posted[1]
      BY DEF first
    <3> QED
      BY <3>1, <3>2, <3>3
  <2>3. Len(first) <= Len(out.buf) /\ SubSeq(first, 1, Len(first)) = SubSeq(out.buf, 1, Len(first))
    BY <2>1, <2>2 DEF IsPrefix
  <2>4. Len(first) \in Nat /\ Len(out.buf) \in Nat /\ Len(first) \in 0..Len(out.buf) /\ Len(first) \in 0..Len(first)
    BY SMTT(30), <1>2, <1>3, <2>3
  <2>5. \A i \in 1..Len(first) : first[i] = out.buf[i]
    <3> DEFINE a == SubSeq(first, 1, Len(first))
               b == SubSeq(out.buf, 1, Len(first))
    <3>1. \A i \in 1..Len(first) : a[i] = first[i]
      BY <1>3, <2>4, CutInTwo
    <3>2. \A i \in 1..Len(first) : b[i] = out.buf[i]
      BY <1>2, <2>4, CutInTwo
    <3>3. a = b
      BY <2>3
    <3> HIDE DEF a, b
    <3> QED
      BY <3>1, <3>2, <3>3
  <2>6. \A i \in 1..Len(first) : i <= Len(out.buf)
    BY <2>3, <2>4
  <2>7. \A i \in 1..Len(first) : Overwritten(first)[i] = out.buf[i]
    <3>1. Overwritten(first) = [i \in 1..Len(first) |-> IF i <= Len(out.buf) THEN out.buf[i] ELSE first[i]]
      BY <1>3 DEF Overwritten
    <3> QED
      BY <2>6, <3>1
  <2>8. k \in 0..Len(out.buf) /\ \A i \in 1..k : i \in 1..Len(first)
    BY <1>5, <2>3, <2>4
  <2>9. \A i \in 1..k : bytes[i] = out.buf[i]
    BY <1>4, <2>5, <2>7, <2>8
  <2>10. sent = SubSeq(out.buf, 1, k) /\ SubSeq(out.buf, 1, k) \o Drop(out.buf, k) = out.buf
    <3> DEFINE b == SubSeq(out.buf, 1, k)
    <3>1. /\ b \in Seq(Byte) /\ Len(b) = k /\ \A i \in 1..k : b[i] = out.buf[i]
          /\ b \o Drop(out.buf, k) = out.buf
      BY ZenonT(60), <1>2, <2>8, CutInTwo
    <3> HIDE DEF b
    <3>2. sent = b
      BY <1>8, <2>9, <3>1, SeqEqual
    <3> QED
      BY <3>1, <3>2 DEF b
  <2> QED
    BY <2>2, <2>8, <2>10
<1> DEFINE x == in.buf \o wire
           y == in.buf \o wire \o out.buf \o Contents(out.queue)
<1>15. x \in Seq(Byte)
  BY <1>2, ConcatProperties
<1>16. in.buf \o wire' = x \o sent
  <2>1. in.buf \in Seq(Byte) /\ wire \in Seq(Byte) /\ sent \in Seq(Byte)
    BY <1>2, <1>8
  <2>2. (in.buf \o wire) \o sent = in.buf \o (wire \o sent)
    <3> DEFINE b == in.buf
    <3>1. b \in Seq(Byte) /\ wire \in Seq(Byte) /\ sent \in Seq(Byte)
      BY <2>1
    <3> HIDE DEF b, x, y
    <3>2. (b \o wire) \o sent = b \o (wire \o sent)
      BY ONLY <3>1, InThree
    <3> QED
      BY <3>2 DEF b
  <2> QED
    BY <1>4, <2>2 DEF sent
<1>17. ASSUME ~out.lost
       PROVE  (x \o sent) \o (o.buf \o Contents(o.queue)) = y
  <2> DEFINE b == out.buf
             c == Contents(out.queue)
             d == Drop(out.buf, k)
  <2>1. /\ o.buf \o Contents(o.queue) = d \o c
        /\ sent \o d = b
    <3>1. k <= Len(out.buf)
      BY <1>2, <1>14, <1>17
    <3>2. sent \o Drop(out.buf, k) = out.buf
      BY <1>14, <1>17
    <3> HIDE DEF x, y
    <3> QED
      BY <1>9, <3>1, <3>2
  <2>2. /\ sent \in Seq(Byte) /\ d \in Seq(Byte) /\ c \in Seq(Byte) /\ b \in Seq(Byte)
    BY <1>2, <1>8, <1>14, <1>17, CutInTwo
  <2>3. y = (x \o b) \o c
    OBVIOUS
  <2> HIDE DEF b, c, d, x, y
  <2>4. (x \o sent) \o d = x \o (sent \o d)
    <3>1. x \in Seq(Byte) /\ sent \in Seq(Byte) /\ d \in Seq(Byte)
      BY <1>15, <2>2
    <3> QED
      BY ONLY SMTT(30), <3>1, ConcatAssociative
  <2> DEFINE xs == x \o sent
  <2>5. xs \in Seq(Byte)
    BY <1>15, <2>2, ConcatProperties
  <2> HIDE DEF xs
  <2>6. (xs \o d) \o c = xs \o (d \o c)
    <3>1. xs \in Seq(Byte) /\ d \in Seq(Byte) /\ c \in Seq(Byte)
      BY <2>2, <2>5
    <3> QED
      BY ONLY SMTT(30), <3>1, ConcatAssociative
  <2> QED
    BY <2>1, <2>3, <2>4, <2>6 DEF xs
<1>18. InStep'
  <2> SUFFICES ASSUME ~out.lost
               PROVE  ~in.garbled /\ Runs(packets, Len(got) + 1, in.buf \o wire')
    BY <1>1, <1>9, <1>11 DEF InStep
  <2>1. ~in.garbled /\ Runs(packets, Len(got) + 1, y)
    BY <1>1 DEF SessionInv, InStep, NothingLost
  <2> DEFINE z == x \o sent
             e == o.buf \o Contents(o.queue)
  <2>2. z \in Seq(Byte) /\ e \in Seq(Byte)
    BY <1>8, <1>9, <1>15, ConcatProperties DEF Sender
  <2>3. y = z \o e
    BY <1>17
  <2> HIDE DEF y, z, e
  <2>4. Runs(packets, Len(got) + 1, z)
    BY <2>1, <2>2, <2>3, FrontRuns
  <2> QED
    BY <1>16, <2>1, <2>4 DEF z
<1>19. NothingLost'
  <2> DEFINE z == in.buf \o wire' \o o.buf \o Contents(o.queue)
  <2> SUFFICES ASSUME ~out.lost
               PROVE  /\ Runs(packets, Len(got) + 1, z)
                      /\ Behind(packets, Len(got) + 1, z) = <<Len(packets) + 1, 1>>
    BY <1>1, <1>9, <1>11 DEF NothingLost
  <2>1. /\ Runs(packets, Len(got) + 1, y)
        /\ Behind(packets, Len(got) + 1, y) = <<Len(packets) + 1, 1>>
    BY <1>1 DEF SessionInv, NothingLost
  <2>2. z = y
    <3> DEFINE xs == x \o sent
               b == o.buf
               c == Contents(o.queue)
    <3>1. xs \in Seq(Byte) /\ b \in Seq(Byte) /\ c \in Seq(Byte)
      BY <1>8, <1>9, <1>15, ConcatProperties DEF Sender
    <3>2. xs \o (b \o c) = y /\ z = (xs \o b) \o c
      BY <1>16, <1>17
    <3> HIDE DEF xs, b, c, y, z
    <3>3. (xs \o b) \o c = xs \o (b \o c)
      BY ONLY SMTT(30), <3>1, ConcatAssociative
    <3> QED
      BY <3>2, <3>3
  <2> HIDE DEF y, z
  <2> QED
    BY <2>1, <2>2
<1>20. InOrder'
  BY <1>1, <1>9, <1>11 DEF SessionInv, InOrder
<1>21. InFlightIntact'
  <2> SUFFICES ASSUME ~out.lost
               PROVE  /\ Len(posted') <= 1
                      /\ out'.sending <=> posted' # <<>>
                      /\ \A i \in DOMAIN posted' : IsPrefix(posted'[i], o.buf)
    BY <1>1, <1>9, <1>11 DEF InFlightIntact
  <2>1. pending = <<>>
    <3>1. Len(posted) = 1
      BY <1>14
    <3>2. Len(pending) = 0
      BY ONLY <1>3, <3>1
    <3> QED
      BY ONLY <1>3, <3>2
  <2>2. CASE out'.sending = TRUE /\ posted' = Append(pending, o.buf)
    <3> DEFINE p == posted'
    <3>1. Len(p) = 1 /\ p # <<>> /\ DOMAIN p = {1} /\ p[1] = o.buf
      BY <2>1, <2>2
    <3>2. IsPrefix(o.buf, o.buf)
      BY <1>9 DEF IsPrefix, Sender
    <3> HIDE DEF p
    <3>3. Len(p) <= 1 /\ p # <<>> /\ \A i \in DOMAIN p : IsPrefix(p[i], o.buf)
      BY <3>1, <3>2
    <3> QED
      BY <2>2, <3>3 DEF p
  <2>3. CASE out'.sending = FALSE /\ posted' = pending
    BY <2>1, <2>3
  <2> QED
    BY <1>11, <2>2, <2>3
<1>22. RoomToRead'
  BY <1>1 DEF SessionInv, RoomToRead
<1> QED
  BY <1>13, <1>18, <1>19, <1>20, <1>21, <1>22 DEF SessionInv


\* A flag of the sender changes nothing else of it.
LEMMA FlagKeeps ==
  ASSUME Sender(out),
         out' = [out EXCEPT !.open = FALSE] \/ out' = [out EXCEPT !.doomed = TRUE]
  PROVE  /\ Sender(out')
         /\ out'.buf = out.buf /\ out'.queue = out.queue
         /\ out'.sending = out.sending /\ out'.lost = out.lost
         /\ out' = [out EXCEPT !.open = FALSE] => out'.open = FALSE
         /\ out' = [out EXCEPT !.doomed = TRUE] => out'.open = out.open
<1>1. /\ out = [buf |-> out.buf, sending |-> out.sending, queue |-> out.queue, open |-> out.open,
                doomed |-> out.doomed, lost |-> out.lost]
      /\ out.buf \in Seq(Byte) /\ Len(out.buf) <= MaxPacket
      /\ IsQueue(out.queue) /\ Contents(out.queue) \in Seq(Byte)
      /\ out.sending \in BOOLEAN /\ out.open \in BOOLEAN /\ out.doomed \in BOOLEAN /\ out.lost \in BOOLEAN
  BY DEF Sender
<1>2. CASE out' = [out EXCEPT !.open = FALSE]
  <2>1. out' = [buf |-> out.buf, sending |-> out.sending, queue |-> out.queue, open |-> FALSE,
                doomed |-> out.doomed, lost |-> out.lost]
    BY <1>1, <1>2
  <2>2. Sender(out')
    BY <1>1, <2>1 DEF Sender
  <2>3. out'.open = FALSE /\ (out' = [out EXCEPT !.doomed = TRUE] => out'.open = out.open)
    BY <1>1, <2>1
  <2> QED
    BY <1>2, <2>1, <2>2, <2>3
<1>3. CASE out' = [out EXCEPT !.doomed = TRUE]
  <2>1. out' = [buf |-> out.buf, sending |-> out.sending, queue |-> out.queue, open |-> out.open,
                doomed |-> TRUE, lost |-> out.lost]
    BY <1>1, <1>3
  <2>2. Sender(out')
    BY <1>1, <2>1 DEF Sender
  <2>3. out' = [out EXCEPT !.open = FALSE] => out'.open = FALSE
    BY <1>1
  <2> QED
    BY <1>3, <2>1, <2>2, <2>3
<1> QED
  BY <1>2, <1>3

\* The sending session's tick, which closes a doomed one, keeps the invariant.
LEMMA OutTickKeeps ==
  ASSUME SessionInv, OutTick
  PROVE  SessionInv'
<1>1. /\ out' = [out EXCEPT !.open = FALSE] /\ posted' = <<>>
      /\ UNCHANGED <<packets, wire, line, in, got, handled>>
  BY DEF OutTick
<1>2. Sender(out') /\ out'.lost = out.lost /\ out'.open = FALSE
  BY <1>1, FlagKeeps DEF SessionInv, Types
<1>3. <<>> \in Seq(Seq(Byte))
  OBVIOUS
<1> QED
  BY <1>1, <1>2, <1>3 DEF SessionInv, Types, InStep, NothingLost, InOrder, InFlightIntact, RoomToRead

\* The sender's noticing that the receiver is gone keeps the invariant.
LEMMA OutNoticesKeeps ==
  ASSUME SessionInv, OutNotices
  PROVE  SessionInv'
<1>1. /\ out' = [out EXCEPT !.doomed = TRUE]
      /\ UNCHANGED <<packets, posted, wire, line, in, got, handled>>
  BY DEF OutNotices
<1>2. /\ Sender(out') /\ out'.lost = out.lost /\ out'.open = out.open
      /\ out'.buf = out.buf /\ out'.queue = out.queue /\ out'.sending = out.sending
  BY <1>1, FlagKeeps DEF SessionInv, Types
<1> QED
  BY <1>1, <1>2 DEF SessionInv, Types, InStep, NothingLost, InOrder, InFlightIntact, RoomToRead

\* The loss of the line and of what is on it keeps the invariant.
LEMMA CutKeeps ==
  ASSUME SessionInv, Cut
  PROVE  SessionInv'
<1>1. /\ out' = [out EXCEPT !.doomed = TRUE] /\ posted' = <<>> /\ wire' = <<>> /\ line' = "CUT"
      /\ UNCHANGED <<packets, in, got, handled>>
  BY DEF Cut
<1>2. Sender(out') /\ out'.lost = out.lost
  BY <1>1, FlagKeeps DEF SessionInv, Types
<1>3. <<>> \in Seq(Seq(Byte)) /\ <<>> \in Seq(Byte) /\ Len(<<>>) <= Window
  BY SessionAssumption DEF SessionAssumption
<1>4. Types'
  BY <1>1, <1>2, <1>3 DEF SessionInv, Types
<1>5. InStep'
  <2> SUFFICES ASSUME ~out.lost
               PROVE  ~in.garbled /\ Runs(packets, Len(got) + 1, in.buf \o <<>>)
    BY <1>1, <1>2 DEF InStep
  <2>1. in.buf \in Seq(Byte) /\ wire \in Seq(Byte)
    BY DEF SessionInv, Types, Receiver
  <2>2. ~in.garbled /\ Runs(packets, Len(got) + 1, in.buf \o wire)
    BY DEF SessionInv, InStep
  <2>3. Runs(packets, Len(got) + 1, in.buf)
    BY <2>1, <2>2, FrontRuns
  <2>4. in.buf \o <<>> = in.buf
    BY <2>1, ConcatEmptySeq
  <2> QED
    BY <2>2, <2>3, <2>4
<1> QED
  BY <1>1, <1>2, <1>4, <1>5 DEF SessionInv, NothingLost, InOrder, InFlightIntact, RoomToRead

\* The receiving session's tick, which handles the queued events, keeps the invariant.
LEMMA TickKeeps ==
  ASSUME SessionInv, Tick
  PROVE  SessionInv'
<1> DEFINE ends == Destroy \in ToSet(in.events)
<1>1. /\ handled' = handled + Queued(in.events)
      /\ in' = [in EXCEPT !.events = <<>>, !.open = ~ends, !.armed = in.armed /\ ~ends]
      /\ UNCHANGED <<packets, out, posted, wire, line, got>>
  BY DEF Tick
<1>2. /\ in = [buf |-> in.buf, events |-> in.events, armed |-> in.armed, open |-> in.open,
               garbled |-> in.garbled]
      /\ in.buf \in Seq(Byte) /\ in.events \in Seq(Nat) /\ in.garbled \in BOOLEAN
      /\ handled \in Nat /\ handled + Queued(in.events) = Len(got)
  BY DEF SessionInv, Types, Receiver
<1> HIDE DEF ends
<1> DEFINE armed == in.armed /\ ~ends
           open == ~ends
<1>3. armed \in BOOLEAN /\ open \in BOOLEAN /\ (armed => in.armed)
  OBVIOUS
<1>4. in' = [in EXCEPT !.events = <<>>, !.open = open, !.armed = armed]
  BY <1>1
<1> HIDE DEF armed, open
<1>5. in' = [buf |-> in.buf, events |-> <<>>, armed |-> armed, open |-> open, garbled |-> in.garbled]
  BY <1>2, <1>4
<1>6. Receiver(in') /\ Queued(in'.events) = 0
  <2>1. <<>> \in Seq(Nat) /\ Queued(<<>>) = 0
    BY <1>2, QueuedDestroy
  <2> QED
    BY <1>2, <1>3, <1>5, <2>1 DEF Receiver
<1>7. Types'
  <2>1. <<>> \in Seq(Nat \ {0})
    OBVIOUS
  <2>2. Queued(in.events) \in Nat
    BY <1>2, <2>1, QueuedMore
  <2>3. handled' \in Nat /\ handled' + Queued(in'.events) = Len(got')
    BY <1>1, <1>2, <1>6, <2>2
  <2> QED
    BY <1>1, <1>6, <2>3 DEF SessionInv, Types
<1>8. in'.buf = in.buf /\ in'.garbled = in.garbled /\ (in'.armed => in.armed)
  BY <1>3, <1>5
<1> QED
  BY <1>1, <1>7, <1>8 DEF SessionInv, InStep, NothingLost, InOrder, InFlightIntact, RoomToRead

\* The end of the stream at the receiver keeps the invariant.
LEMMA ReceiveEndKeeps ==
  ASSUME SessionInv, ReceiveEnd
  PROVE  SessionInv'
<1>1. in' = Failed(in) /\ UNCHANGED <<packets, out, posted, wire, line, got, handled>>
  BY DEF ReceiveEnd
<1>2. /\ in = [buf |-> in.buf, events |-> in.events, armed |-> in.armed, open |-> in.open,
               garbled |-> in.garbled]
      /\ in.buf \in Seq(Byte) /\ in.events \in Seq(Nat)
      /\ in.open \in BOOLEAN /\ in.garbled \in BOOLEAN
      /\ handled + Queued(in.events) = Len(got)
  BY DEF SessionInv, Types, Receiver
<1> DEFINE e == Append(in.events, Destroy)
<1>3. e \in Seq(Nat) /\ Queued(e) = Queued(in.events)
  BY <1>2, QueuedDestroy
<1>4. in' = [in EXCEPT !.armed = FALSE, !.events = e]
  BY <1>1 DEF Failed
<1> HIDE DEF e
<1>5. in' = [buf |-> in.buf, events |-> e, armed |-> FALSE, open |-> in.open, garbled |-> in.garbled]
  BY <1>2, <1>4
<1>6. Receiver(in')
  BY <1>2, <1>3, <1>5 DEF Receiver
<1>7. /\ in'.buf = in.buf /\ in'.garbled = in.garbled /\ ~in'.armed
      /\ handled' + Queued(in'.events) = Len(got')
  BY <1>1, <1>2, <1>3, <1>5
<1>8. Types'
  BY <1>1, <1>6, <1>7 DEF SessionInv, Types
<1> QED
  BY <1>1, <1>7, <1>8 DEF SessionInv, InStep, NothingLost, InOrder, InFlightIntact, RoomToRead


\* A completed receive, with every round of its parsing loop, keeps the invariant.
LEMMA ReceiveKeeps ==
  ASSUME SessionInv, Receive
  PROVE  SessionInv'
<1>1. /\ in.open /\ in.armed /\ line = "UP"
      /\ UNCHANGED <<packets, out, posted, line, handled>>
  BY DEF Receive
<1>2. /\ packets \in Seq(Sizes) /\ Receiver(in) /\ Sender(out)
      /\ wire \in Seq(Byte) /\ Len(wire) <= Window /\ Len(wire) \in Nat /\ Window \in Nat
      /\ got \in Seq(Nat) /\ in.buf \in Seq(Byte) /\ Len(in.buf) < MaxPacket /\ Len(in.buf) \in Nat
      /\ out.buf \in Seq(Byte) /\ Contents(out.queue) \in Seq(Byte)
      /\ MaxPacket \in Nat /\ HeaderSize \in Nat /\ HeaderSize < MaxPacket
  BY <1>1, SessionAssumption DEF SessionInv, Types, Sender, Receiver, RoomToRead, SessionAssumption
<1>3. PICK k \in 1..Least(Len(wire), MaxPacket - Len(in.buf)) :
        LET r == Reading(in.buf \o SubSeq(wire, 1, k))
            i == [in EXCEPT !.buf = r.buf, !.events = in.events \o r.got, !.garbled = in.garbled \/ r.garbled]
        IN  /\ wire' = Drop(wire, k)
            /\ IF in.garbled
               THEN UNCHANGED <<in, got>>
               ELSE /\ got' = got \o r.got
                    /\ in' = IF r.error THEN Failed(i) ELSE i
  BY DEF Receive
<1> DEFINE part == SubSeq(wire, 1, k)
           rest == Drop(wire, k)
           bytes == in.buf \o part
           r == Reading(bytes)
           i == [in EXCEPT !.buf = r.buf, !.events = in.events \o r.got, !.garbled = in.garbled \/ r.garbled]
<1>4. wire' = rest
  BY <1>3
<1>5. k \in 0..Len(wire)
  <2> DEFINE a == Len(wire)
             b == MaxPacket - Len(in.buf)
  <2>1. a \in Nat /\ b \in Nat
    BY <1>2
  <2>2. k \in 1..Least(a, b)
    OBVIOUS
  <2> HIDE DEF a, b
  <2>3. Least(a, b) \in Nat /\ Least(a, b) <= a
    BY <2>1, LeastNat
  <2>4. k \in 0..a
    BY <2>1, <2>2, <2>3
  <2> QED
    BY <2>4 DEF a
<1>6. /\ part \in Seq(Byte) /\ rest \in Seq(Byte) /\ Len(rest) = Len(wire) - k
      /\ part \o rest = wire
  BY <1>2, <1>5, CutInTwo
<1>7. ~in.garbled => got' = got \o r.got /\ in' = IF r.error THEN Failed(i) ELSE i
  BY <1>3
<1>8. in.garbled => in' = in /\ got' = got
  BY <1>3
<1> HIDE DEF part, rest
<1>9. wire' \in Seq(Byte) /\ Len(wire') <= Window
  BY <1>2, <1>4, <1>5, <1>6
<1>10. bytes \in Seq(Byte)
  BY <1>2, <1>6, ConcatProperties
<1> HIDE DEF bytes
<1>11. r \in Reader /\ Done(r) /\ Roomy(r)
  BY <1>2, <1>10, ReadingEnds
<1>12. CASE in.garbled
  <2>1. Types'
    BY <1>1, <1>8, <1>9, <1>12 DEF SessionInv, Types
  <2>2. out'.lost
    BY <1>1, <1>12 DEF SessionInv, InStep
  <2>3. InStep' /\ NothingLost' /\ InOrder' /\ InFlightIntact' /\ RoomToRead'
    BY <1>1, <1>8, <1>12, <2>2 DEF SessionInv, InStep, NothingLost, InOrder, InFlightIntact, RoomToRead
  <2> QED
    BY <2>1, <2>3 DEF SessionInv
<1>13. CASE ~in.garbled
  <2>1. /\ in = [buf |-> in.buf, events |-> in.events, armed |-> in.armed, open |-> in.open,
                 garbled |-> in.garbled]
        /\ in.events \in Seq(Nat) /\ in.armed \in BOOLEAN /\ in.open \in BOOLEAN
        /\ in.garbled \in BOOLEAN
        /\ handled \in Nat /\ handled + Queued(in.events) = Len(got) /\ Len(got) \in Nat
    BY <1>2 DEF SessionInv, Types, Receiver
  <2>2. /\ r.buf \in Seq(Byte) /\ r.got \in Seq(Nat \ {0}) /\ r.got \in Seq(Nat)
        /\ r.stop \in BOOLEAN /\ r.error \in BOOLEAN /\ r.garbled \in BOOLEAN
        /\ Len(r.got) \in Nat
    <3>1. r.buf \in Seq(Byte) /\ r.got \in Seq(Nat \ {0}) /\ {r.stop, r.error, r.garbled} \subseteq BOOLEAN
      BY <1>11 DEF Reader
    <3> HIDE DEF r
    <3>2. r.got \in Seq(Nat) /\ Len(r.got) \in Nat
      BY <3>1
    <3> QED
      BY <3>1, <3>2
  <2> DEFINE e == in.events \o r.got
             bad == in.garbled \/ r.garbled
  <2>3. e \in Seq(Nat) /\ Queued(e) = Queued(in.events) + Len(r.got) /\ Queued(in.events) \in Nat
    BY <2>1, <2>2, QueuedMore, ConcatProperties
  <2>4. bad \in BOOLEAN /\ (~r.garbled => ~bad)
    BY <1>13, <2>2
  <2>5. i = [in EXCEPT !.buf = r.buf, !.events = e, !.garbled = bad]
    OBVIOUS
  <2>6. /\ got' = got \o r.got
        /\ in' = IF r.error THEN [i EXCEPT !.armed = FALSE, !.events = Append(i.events, Destroy)] ELSE i
    BY <1>7, <1>13 DEF Failed
  <2> HIDE DEF r, e, bad, i
  <2>7. i = [buf |-> r.buf, events |-> e, armed |-> in.armed, open |-> in.open, garbled |-> bad]
    BY <2>1, <2>5
  <2> DEFINE f == Append(e, Destroy)
  <2>8. f \in Seq(Nat) /\ Queued(f) = Queued(e)
    BY <2>3, QueuedDestroy
  <2>9. r.error => in' = [i EXCEPT !.armed = FALSE, !.events = f]
    BY <2>6, <2>7
  <2> HIDE DEF f
  <2>10. \/ r.error /\ in' = [buf |-> r.buf, events |-> f, armed |-> FALSE, open |-> in.open, garbled |-> bad]
         \/ ~r.error /\ in' = [buf |-> r.buf, events |-> e, armed |-> in.armed, open |-> in.open, garbled |-> bad]
    BY <2>6, <2>7, <2>9
  <2>11. /\ Receiver(in') /\ in'.buf = r.buf /\ in'.garbled = bad
         /\ Queued(in'.events) = Queued(in.events) + Len(r.got)
         /\ in'.armed => ~r.error
    <3>1. CASE r.error /\ in' = [buf |-> r.buf, events |-> f, armed |-> FALSE, open |-> in.open, garbled |-> bad]
      BY <2>1, <2>2, <2>3, <2>4, <2>8, <3>1 DEF Receiver
    <3>2. CASE ~r.error /\ in' = [buf |-> r.buf, events |-> e, armed |-> in.armed, open |-> in.open, garbled |-> bad]
      BY <2>1, <2>2, <2>3, <2>4, <3>2 DEF Receiver
    <3> QED
      BY <2>10, <3>1, <3>2
  <2> DEFINE g == r.got
             n == Len(got)
  <2>12. /\ got' \in Seq(Nat) /\ Len(got') = n + Len(g) /\ n \in Nat /\ Len(g) \in Nat
         /\ \A j \in 1..n + Len(g) : got'[j] = IF j <= n THEN got[j] ELSE g[j - n]
    <3>1. got \in Seq(Nat) /\ g \in Seq(Nat) /\ got' = got \o g
      BY <1>2, <2>2, <2>6
    <3> HIDE DEF g
    <3> QED
      BY <3>1, ConcatProperties
  <2>13. Types'
    <3>1. handled' \in Nat /\ handled' + Queued(in'.events) = Len(got')
      <4> DEFINE m == Len(g)
                 q == Queued(in.events)
                 p == Queued(in'.events)
      <4>1. handled' = handled /\ p = q + m /\ Len(got') = n + m
        BY <1>1, <2>11, <2>12
      <4>2. handled \in Nat /\ q \in Nat /\ m \in Nat /\ handled + q = n
        BY <2>1, <2>3, <2>12
      <4> HIDE DEF m, n, q, p
      <4>3. handled' \in Nat /\ handled' + p = n + m
        BY ONLY <4>1, <4>2
      <4> QED
        BY <4>1, <4>3 DEF p
    <3> QED
      BY <1>1, <1>9, <2>11, <2>12, <3>1 DEF SessionInv, Types
  <2>14. RoomToRead'
    <3>1. Len(r.buf) \in Nat
      BY <2>2
    <3>2. ~r.error => Len(r.buf) < MaxPacket
      BY <1>2, <1>11, <3>1 DEF Done, Roomy
    <3> QED
      BY <2>11, <3>2 DEF RoomToRead
  <2>15. InFlightIntact'
    BY <1>1 DEF SessionInv, InFlightIntact
  <2>16. in.buf \o wire = bytes \o rest
    <3> DEFINE b == in.buf
    <3>1. b \in Seq(Byte) /\ part \in Seq(Byte) /\ rest \in Seq(Byte)
      BY <1>2, <1>6
    <3> HIDE DEF b
    <3>2. (b \o part) \o rest = b \o (part \o rest)
      BY ONLY <3>1, InThree
    <3> QED
      BY <1>6, <3>2 DEF b, bytes
  <2>17. ASSUME ~out.lost
         PROVE  /\ ~r.garbled
                /\ \A j \in DOMAIN r.got : r.got[j] = n + j
                /\ Runs(packets, n + Len(r.got) + 1, r.buf \o rest)
    <3>1. Runs(packets, n + 1, bytes \o rest)
      BY <2>16, <2>17 DEF SessionInv, InStep
    <3>2. packets \in Seq(Sizes) /\ bytes \in Seq(Byte) /\ rest \in Seq(Byte) /\ n \in Nat
      BY <1>2, <1>6, <1>10, <2>12
    <3> HIDE DEF n
    <3>3. /\ ~Reading(bytes).garbled
          /\ \A j \in DOMAIN Reading(bytes).got : Reading(bytes).got[j] = n + j
          /\ Runs(packets, n + Len(Reading(bytes).got) + 1, Reading(bytes).buf \o rest)
      BY ONLY <3>1, <3>2, ReadingRuns
    <3> QED
      BY <3>3 DEF r
  <2>18. InStep'
    BY <1>1, <1>4, <2>4, <2>11, <2>12, <2>17 DEF InStep
  <2>19. InOrder'
    <3> SUFFICES ASSUME ~out.lost, NEW j \in DOMAIN got' PROVE got'[j] = j
      BY <1>1 DEF InOrder
    <3>1. j \in 1..n + Len(g)
      BY SMTT(30), <2>12
    <3>2. CASE j <= n
      <4>1. j \in DOMAIN got
        BY <1>2, <2>12, <3>1, <3>2
      <4>2. got[j] = j
        BY <4>1 DEF SessionInv, InOrder
      <4> QED
        BY <2>12, <3>1, <3>2, <4>2
    <3>3. CASE ~(j <= n)
      <4>1. j - n \in 1..Len(g) /\ n + (j - n) = j
        <5>1. n \in Nat /\ Len(g) \in Nat
          BY <2>12
        <5> HIDE DEF n, g
        <5> QED
          BY ONLY <3>1, <3>3, <5>1
      <4>2. DOMAIN g = 1..Len(g)
        BY <2>2
      <4>3. g[j - n] = j
        BY <2>17, <4>1, <4>2
      <4> QED
        BY <2>12, <3>1, <3>3, <4>3
    <3> QED
      BY <3>2, <3>3
  <2>20. NothingLost'
    <3> DEFINE a == out.buf
               c == Contents(out.queue)
               more == rest \o (a \o c)
               z == ((r.buf \o rest) \o a) \o c
    <3> SUFFICES ASSUME ~out.lost, out.open
                 PROVE  /\ Runs(packets, n + Len(g) + 1, z)
                        /\ Behind(packets, n + Len(g) + 1, z) = <<Len(packets) + 1, 1>>
      BY <1>1, <1>4, <2>11, <2>12 DEF NothingLost
    <3>1. /\ Runs(packets, n + 1, in.buf \o wire \o out.buf \o Contents(out.queue))
          /\ Behind(packets, n + 1, in.buf \o wire \o out.buf \o Contents(out.queue)) = <<Len(packets) + 1, 1>>
      BY <1>1 DEF SessionInv, NothingLost
    <3>2. /\ bytes \in Seq(Byte) /\ rest \in Seq(Byte) /\ a \in Seq(Byte) /\ c \in Seq(Byte)
          /\ r.buf \in Seq(Byte)
      BY <1>2, <1>6, <1>10, <2>2
    <3>3. in.buf \o wire \o out.buf \o Contents(out.queue) = ((bytes \o rest) \o a) \o c
      BY <2>16
    <3> DEFINE b == r.buf
    <3>4. b \in Seq(Byte) /\ z = ((b \o rest) \o a) \o c
      BY <3>2
    <3> HIDE DEF a, b, c
    <3> DEFINE y == a \o c
    <3>5. y \in Seq(Byte) /\ rest \o y \in Seq(Byte)
      <4>1. y \in Seq(Byte)
        BY <3>2, ConcatProperties
      <4> HIDE DEF y
      <4> QED
        BY <3>2, <4>1, ConcatProperties
    <3>6. ASSUME NEW s, s \in Seq(Byte) PROVE ((s \o rest) \o a) \o c = s \o more
      <4> DEFINE x == s \o rest
      <4>1. x \in Seq(Byte)
        BY <3>2, <3>6, ConcatProperties
      <4> HIDE DEF x
      <4>2. (x \o a) \o c = x \o (a \o c)
        <5>1. x \in Seq(Byte) /\ a \in Seq(Byte) /\ c \in Seq(Byte)
          BY <3>2, <4>1
        <5> QED
          BY ONLY <5>1, InThree
      <4> HIDE DEF y
      <4>3. (s \o rest) \o y = s \o (rest \o y)
        <5>1. s \in Seq(Byte) /\ rest \in Seq(Byte) /\ y \in Seq(Byte)
          BY <3>2, <3>5, <3>6
        <5> QED
          BY ONLY <5>1, InThree
      <4> QED
        BY <4>2, <4>3 DEF x, y
    <3>7. more \in Seq(Byte) /\ z = r.buf \o more
      BY <3>4, <3>5, <3>6 DEF b
    <3> HIDE DEF more
    <3>8. Runs(packets, n + 1, bytes \o more) /\ Behind(packets, n + 1, bytes \o more) = <<Len(packets) + 1, 1>>
      BY <3>1, <3>2, <3>3, <3>6
    <3> HIDE DEF n, z
    <3>9. /\ Runs(packets, n + Len(r.got) + 1, r.buf \o more)
          /\ Behind(packets, n + Len(r.got) + 1, r.buf \o more) = Behind(packets, n + 1, bytes \o more)
      <4>1. packets \in Seq(Sizes) /\ bytes \in Seq(Byte) /\ more \in Seq(Byte) /\ n \in Nat
        BY <1>2, <1>10, <2>12, <3>7
      <4>2. Runs(packets, n + 1, bytes \o more)
        BY <3>8
      <4>3. /\ Runs(packets, n + Len(Reading(bytes).got) + 1, Reading(bytes).buf \o more)
            /\ Behind(packets, n + Len(Reading(bytes).got) + 1, Reading(bytes).buf \o more)
                 = Behind(packets, n + 1, bytes \o more)
        BY ONLY <4>1, <4>2, ReadingRuns
      <4> QED
        BY <4>3 DEF r
    <3> QED
      BY <3>7, <3>8, <3>9
  <2> QED
    BY <2>13, <2>14, <2>15, <2>18, <2>19, <2>20 DEF SessionInv
<1> QED
  BY <1>12, <1>13

-----------------------------------------------------------------------------
(* The theorems.                                                           *)

\* Every reachable state of the connection satisfies the invariant.
THEOREM SessionInvariant == Spec => []SessionInv
<1>1. Init => SessionInv
  BY InitKeeps
<1>2. SessionInv /\ [Next]_vars => SessionInv'
  <2> SUFFICES ASSUME SessionInv, [Next]_vars PROVE SessionInv'
    OBVIOUS
  <2>1. CASE \E size \in Sizes : SendPacket(size)
    BY <2>1, SendPacketKeeps
  <2>2. CASE SendCompleted
    BY <2>2, SendCompletedKeeps
  <2>3. CASE Receive
    BY <2>3, ReceiveKeeps
  <2>4. CASE ReceiveEnd
    BY <2>4, ReceiveEndKeeps
  <2>5. CASE Tick
    BY <2>5, TickKeeps
  <2>6. CASE OutTick
    BY <2>6, OutTickKeeps
  <2>7. CASE OutNotices
    BY <2>7, OutNoticesKeeps
  <2>8. CASE Cut
    BY <2>8, CutKeeps
  <2>9. CASE UNCHANGED vars
    BY <2>9 DEF vars, SessionInv, Types, InStep, NothingLost, InOrder, InFlightIntact, RoomToRead
  <2> QED
    BY <2>1, <2>2, <2>3, <2>4, <2>5, <2>6, <2>7, <2>8, <2>9 DEF Next
<1> QED
  BY <1>1, <1>2, PTL DEF Spec

\* Buffers hold bytes within their sizes, the queue of the sender is a queue, and
\* no more is handled than was received.
THEOREM SessionTypeCorrect == Spec => []TypeOK
<1>1. SessionInv => TypeOK
  <2> SUFFICES ASSUME SessionInv PROVE TypeOK
    OBVIOUS
  <2>1. in.events \in Seq(Nat) /\ handled \in Nat /\ handled + Queued(in.events) = Len(got) /\ got \in Seq(Nat)
    BY DEF SessionInv, Types, Receiver
  <2>2. Queued(in.events) \in Nat
    <3>1. <<>> \in Seq(Nat \ {0})
      OBVIOUS
    <3> QED
      BY <2>1, <3>1, QueuedMore
  <2>3. handled \in 0..Len(got)
    BY <2>1, <2>2
  <2> QED
    BY <2>3 DEF SessionInv, Types, Sender, Receiver, TypeOK
<1> QED
  BY <1>1, SessionInvariant, PTL

\* Between the two ends lies every byte not yet received, once and in order: no
\* short send, full buffer, wrapped queue or split read loses, repeats or swaps one.
THEOREM StreamIsWhole == Spec => []NothingLost
<1>1. SessionInv => NothingLost
  BY DEF SessionInv
<1> QED
  BY <1>1, SessionInvariant, PTL

\* Packets are queued for the receiver's Tick in the order they were sent, none
\* twice and none left out.
THEOREM ReceivedInOrder == Spec => []InOrder
<1>1. SessionInv => InOrder
  BY DEF SessionInv
<1> QED
  BY <1>1, SessionInvariant, PTL

\* At most one WSASend is under way and what it was given is not moved under it.
THEOREM SendIsUndisturbed == Spec => []InFlightIntact
<1>1. SessionInv => InFlightIntact
  BY DEF SessionInv
<1> QED
  BY <1>1, SessionInvariant, PTL

\* A read always has room, since a packet that can never fit is refused.
THEOREM ReadsHaveRoom == Spec => []RoomToRead
<1>1. SessionInv => RoomToRead
  BY DEF SessionInv
<1> QED
  BY <1>1, SessionInvariant, PTL

=============================================================================
