------------------------ MODULE CircularQueueProofs ------------------------
(***************************************************************************)
(* What the byte queue of a socket (Common/Socket/CircularQueue.cpp) does, *)
(* for every size of the vector, every position of its ends and every      *)
(* packet: Push appends to the contents as many bytes as there is room     *)
(* for, and Pop removes from their front the bytes it returns, though both *)
(* copy in two parts when the data go round the end of the vector.         *)
(***************************************************************************)
EXTENDS CircularQueue, SequenceTheorems, TLAPS

\* The remainders taken are of numbers below twice the divisor.
LEMMA Remainder ==
  ASSUME NEW s \in Nat \ {0}, NEW x \in 0..s-1
  PROVE  x % s = x /\ (x + s) % s = x
OBVIOUS

LEMMA LeastNat ==
  ASSUME NEW a \in Nat, NEW b \in Nat
  PROVE  /\ Least(a, b) \in Nat
         /\ Least(a, b) <= a /\ Least(a, b) <= b
         /\ Least(a, b) = a \/ Least(a, b) = b
BY DEF Least

\* What a queue's fields may be, as facts.
LEMMA Fields ==
  ASSUME NEW q, IsQueue(q)
  PROVE  /\ q.size \in Nat /\ q.head \in Nat /\ q.tail \in Nat
         /\ q.size = 0 => q.head = 0 /\ q.tail = 0
         /\ q.size # 0 => q.head < q.size /\ q.tail < q.size
         /\ q.cells \in [0..q.size-1 -> Byte \cup {NoByte}]
         /\ DOMAIN q = {"size", "cells", "head", "tail"}
BY DEF IsQueue

\* The code's remainder, by cases.
LEMMA DataSizeByCase ==
  ASSUME NEW q, IsQueue(q)
  PROVE  DataSize(q) = IF q.head <= q.tail THEN q.tail - q.head ELSE q.tail - q.head + q.size
<1>. q.size \in Nat /\ q.head \in Nat /\ q.tail \in Nat
  BY Fields
<1>1. CASE q.size = 0
  BY <1>1, Fields DEF DataSize
<1>2. CASE q.size # 0 /\ q.head <= q.tail
  <2>1. q.tail - q.head \in 0..q.size-1
    BY <1>2, Fields
  <2>. QED BY <1>2, <2>1, Remainder DEF DataSize
<1>3. CASE q.size # 0 /\ ~ q.head <= q.tail
  <2>1. q.tail - q.head + q.size \in 0..q.size-1
    BY <1>3, Fields
  <2>. QED BY <1>3, <2>1, Remainder DEF DataSize
<1>. QED BY <1>1, <1>2, <1>3

\* One cell is never used: a queue of size n has room for n - 1 bytes.
LEMMA FreeSizeByCase ==
  ASSUME NEW q, IsQueue(q)
  PROVE  FreeSize(q) = IF q.size = 0 THEN 0 ELSE q.size - 1 - DataSize(q)
<1>. q.size \in Nat /\ q.head \in Nat /\ q.tail \in Nat
  BY Fields
<1>1. CASE q.size = 0
  BY <1>1 DEF FreeSize
<1>2. CASE q.size # 0 /\ q.head <= q.tail
  <2>1. q.head - q.tail + q.size - 1 \in 0..q.size-1
    BY <1>2, Fields
  <2>2. DataSize(q) = q.tail - q.head
    BY <1>2, DataSizeByCase
  <2>. QED BY <1>2, <2>1, <2>2, Remainder DEF FreeSize
<1>3. CASE q.size # 0 /\ ~ q.head <= q.tail
  <2>1. q.head - q.tail - 1 \in 0..q.size-1
    BY <1>3, Fields
  <2>2. DataSize(q) = q.tail - q.head + q.size
    BY <1>3, DataSizeByCase
  <2>3. q.head - q.tail + q.size - 1 = (q.head - q.tail - 1) + q.size
    BY <1>3
  <2>. QED BY <1>3, <2>1, <2>2, <2>3, Remainder DEF FreeSize
<1>. QED BY <1>1, <1>2, <1>3

LEMMA SizesOfAQueue ==
  ASSUME NEW q, IsQueue(q)
  PROVE  /\ DataSize(q) \in Nat /\ FreeSize(q) \in Nat
         /\ q.size # 0 => DataSize(q) < q.size /\ DataSize(q) + FreeSize(q) = q.size - 1
         /\ q.size = 0 => DataSize(q) = 0 /\ FreeSize(q) = 0
<1>1. q.size \in Nat /\ q.head \in Nat /\ q.tail \in Nat
  BY Fields
<1>2. CASE q.size = 0
  BY <1>1, <1>2, DataSizeByCase, FreeSizeByCase, Fields
<1>3. CASE q.size # 0
  <2>1. DataSize(q) \in Nat /\ DataSize(q) < q.size
    BY <1>1, <1>3, DataSizeByCase, Fields
  <2>. QED BY <1>1, <1>3, <2>1, FreeSizeByCase
<1>. QED BY <1>2, <1>3

----------------------------------------------------------------------------

\* How many bytes a Push takes, of a packet of any length.
LEMMA TakenNat ==
  ASSUME NEW q, IsQueue(q), NEW data \in Seq(Byte)
  PROVE  /\ Taken(q, data) \in Nat
         /\ Taken(q, data) <= Len(data) /\ Taken(q, data) <= FreeSize(q)
         /\ Taken(q, data) = Len(data) \/ Taken(q, data) = FreeSize(q)
BY LeastNat, SizesOfAQueue DEF Taken

\* The fields after a Push, by whether the data reach the end of the vector.
LEMMA PushFields ==
  ASSUME NEW q, IsQueue(q), NEW data \in Seq(Byte)
  PROVE  LET n == Taken(q, data)
             p == Push(q, data)
         IN  /\ DOMAIN p = {"size", "cells", "head", "tail"}
             /\ p.size = q.size /\ p.head = q.head
             /\ p.tail = IF q.size - q.tail <= n THEN n - (q.size - q.tail) ELSE q.tail + n
             /\ p.cells = [i \in 0..q.size-1 |-> p.cells[i]]
             /\ \A i \in 0..q.size-1 :
                  p.cells[i] =
                    IF q.tail <= i /\ i < q.tail + n THEN data[i - q.tail + 1]
                    ELSE IF i < n - (q.size - q.tail) THEN data[(q.size - q.tail) + i + 1]
                    ELSE q.cells[i]
<1>. DEFINE n == Taken(q, data)
            p == Push(q, data)
<1>1. /\ q.size \in Nat /\ q.head \in Nat /\ q.tail \in Nat
      /\ DOMAIN q = {"size", "cells", "head", "tail"}
  BY Fields
<1>2. n \in Nat
  BY TakenNat
<1>3. CASE q.size - q.tail <= n
  <2>1. p = [q EXCEPT !.cells = [i \in 0..q.size-1 |->
                                  IF i >= q.tail THEN data[i - q.tail + 1]
                                  ELSE IF i < n - (q.size - q.tail) THEN data[(q.size - q.tail) + i + 1]
                                  ELSE q.cells[i]],
                     !.tail = n - (q.size - q.tail)]
    BY <1>3 DEF Push
  <2>2. /\ DOMAIN p = {"size", "cells", "head", "tail"}
        /\ p.size = q.size /\ p.head = q.head /\ p.tail = n - (q.size - q.tail)
    BY <1>1, <2>1
  <2>3. p.cells = [i \in 0..q.size-1 |->
                     IF i >= q.tail THEN data[i - q.tail + 1]
                     ELSE IF i < n - (q.size - q.tail) THEN data[(q.size - q.tail) + i + 1]
                     ELSE q.cells[i]]
    BY <1>1, <2>1
  <2>4. \A i \in 0..q.size-1 : q.tail <= i => i < q.tail + n
    BY <1>1, <1>2, <1>3
  <2>. HIDE DEF n, p
  <2>5. \A i \in 0..q.size-1 :
          p.cells[i] = IF q.tail <= i /\ i < q.tail + n THEN data[i - q.tail + 1]
                       ELSE IF i < n - (q.size - q.tail) THEN data[(q.size - q.tail) + i + 1]
                       ELSE q.cells[i]
    BY <1>1, <1>2, <2>3, <2>4
  <2>6. p.cells = [i \in 0..q.size-1 |-> p.cells[i]]
    BY <2>3
  <2>. QED BY <1>3, <2>2, <2>5, <2>6 DEF n, p
<1>4. CASE ~ q.size - q.tail <= n
  <2>1. p = [q EXCEPT !.cells = [i \in 0..q.size-1 |->
                                  IF q.tail <= i /\ i < q.tail + n THEN data[i - q.tail + 1]
                                  ELSE q.cells[i]],
                     !.tail = q.tail + n]
    BY <1>4 DEF Push
  <2>2. /\ DOMAIN p = {"size", "cells", "head", "tail"}
        /\ p.size = q.size /\ p.head = q.head /\ p.tail = q.tail + n
    BY <1>1, <2>1
  <2>3. p.cells = [i \in 0..q.size-1 |->
                     IF q.tail <= i /\ i < q.tail + n THEN data[i - q.tail + 1] ELSE q.cells[i]]
    BY <1>1, <2>1
  <2>4. \A i \in 0..q.size-1 : ~ i < n - (q.size - q.tail)
    BY <1>1, <1>2, <1>4
  <2>. HIDE DEF n, p
  <2>5. \A i \in 0..q.size-1 :
          p.cells[i] = IF q.tail <= i /\ i < q.tail + n THEN data[i - q.tail + 1]
                       ELSE IF i < n - (q.size - q.tail) THEN data[(q.size - q.tail) + i + 1]
                       ELSE q.cells[i]
    BY <1>1, <1>2, <2>3, <2>4
  <2>6. p.cells = [i \in 0..q.size-1 |-> p.cells[i]]
    BY <2>3
  <2>. QED BY <1>4, <2>2, <2>5, <2>6 DEF n, p
<1>. QED BY <1>3, <1>4

\* KCircularQueue::Push leaves a queue a queue: both ends stay inside the vector,
\* also when the data end exactly at its end.
THEOREM PushKeepsAQueue ==
  ASSUME NEW q, IsQueue(q), NEW data \in Seq(Byte)
  PROVE  IsQueue(Push(q, data))
<1>. DEFINE n == Taken(q, data)
            p == Push(q, data)
<1>1. /\ q.size \in Nat /\ q.head \in Nat /\ q.tail \in Nat
      /\ q.size = 0 => q.head = 0 /\ q.tail = 0
      /\ q.size # 0 => q.head < q.size /\ q.tail < q.size
      /\ q.cells \in [0..q.size-1 -> Byte \cup {NoByte}]
  BY Fields
<1>2. /\ n \in Nat /\ n <= Len(data) /\ n <= FreeSize(q)
      /\ FreeSize(q) \in Nat /\ (q.size # 0 => FreeSize(q) < q.size) /\ (q.size = 0 => FreeSize(q) = 0)
  <2>1. n \in Nat /\ n <= Len(data) /\ n <= FreeSize(q)
    BY TakenNat
  <2>2. FreeSize(q) \in Nat /\ (q.size # 0 => FreeSize(q) < q.size) /\ (q.size = 0 => FreeSize(q) = 0)
    BY <1>1, SizesOfAQueue
  <2>. QED BY <2>1, <2>2
<1>3. /\ DOMAIN p = {"size", "cells", "head", "tail"}
      /\ p.size = q.size /\ p.head = q.head
      /\ p.tail = IF q.size - q.tail <= n THEN n - (q.size - q.tail) ELSE q.tail + n
      /\ p.cells = [i \in 0..q.size-1 |-> p.cells[i]]
      /\ \A i \in 0..q.size-1 :
           p.cells[i] = IF q.tail <= i /\ i < q.tail + n THEN data[i - q.tail + 1]
                        ELSE IF i < n - (q.size - q.tail) THEN data[(q.size - q.tail) + i + 1]
                        ELSE q.cells[i]
  BY PushFields
<1>. HIDE DEF n, p
<1>4. p.tail \in Nat /\ (p.tail < p.size \/ p.tail = 0)
  BY SMTT(30), <1>1, <1>2, <1>3
<1>5. \A k \in 1..n : data[k] \in Byte
  BY <1>2
<1>6. \A i \in 0..q.size-1 : p.cells[i] \in Byte \cup {NoByte}
  <2>. TAKE i \in 0..q.size-1
  <2>1. CASE q.tail <= i /\ i < q.tail + n
    <3>1. i - q.tail + 1 \in 1..n
      BY SMTT(30), <1>1, <1>2, <2>1
    <3>. QED BY <1>3, <1>5, <2>1, <3>1
  <2>2. CASE ~(q.tail <= i /\ i < q.tail + n) /\ i < n - (q.size - q.tail)
    <3>1. q.size - q.tail \in Nat
      BY <1>1
    <3>2. (q.size - q.tail) + i + 1 \in 1..n
      BY <1>2, <2>2, <3>1
    <3>. QED BY <1>3, <1>5, <2>2, <3>2
  <2>3. CASE ~(q.tail <= i /\ i < q.tail + n) /\ ~ i < n - (q.size - q.tail)
    <3>1. q.cells[i] \in Byte \cup {NoByte}
      BY <1>1
    <3>. QED BY <1>3, <2>3, <3>1
  <2>. QED BY <2>1, <2>2, <2>3
<1>7. p.cells \in [0..p.size-1 -> Byte \cup {NoByte}]
  BY <1>3, <1>6
<1>8. IsQueue(p)
  BY <1>1, <1>3, <1>4, <1>7 DEF IsQueue
<1>. QED BY <1>8 DEF p

----------------------------------------------------------------------------

\* The bytes of a queue, as a sequence.
LEMMA ContentsSeq ==
  ASSUME NEW q, IsQueue(q)
  PROVE  /\ Contents(q) \in Seq(Byte \cup {NoByte})
         /\ Len(Contents(q)) = DataSize(q)
         /\ \A i \in 1..DataSize(q) : Contents(q)[i] = q.cells[Cell(q, i)] /\ Cell(q, i) \in 0..q.size-1
<1>1. /\ q.size \in Nat /\ q.head \in Nat /\ q.tail \in Nat
      /\ q.size = 0 => q.head = 0 /\ q.tail = 0
      /\ q.size # 0 => q.head < q.size /\ q.tail < q.size
      /\ q.cells \in [0..q.size-1 -> Byte \cup {NoByte}]
  BY Fields
<1>2. /\ DataSize(q) \in Nat
      /\ q.size # 0 => DataSize(q) < q.size
      /\ q.size = 0 => DataSize(q) = 0
  BY SizesOfAQueue
<1>3. \A i \in 1..DataSize(q) : Cell(q, i) \in 0..q.size-1
  BY SMTT(30), <1>1, <1>2 DEF Cell
<1>4. Contents(q) \in [1..DataSize(q) -> Byte \cup {NoByte}]
  BY <1>1, <1>3 DEF Contents
<1>5. \A i \in 1..DataSize(q) : Contents(q)[i] = q.cells[Cell(q, i)]
  BY DEF Contents
<1>. QED BY <1>2, <1>3, <1>4, <1>5

\* A sequence is the concatenation of two if it is so byte for byte.
LEMMA Concatenation ==
  ASSUME NEW S, NEW a \in Seq(S), NEW b \in Seq(S), NEW c \in Seq(S),
         Len(c) = Len(a) + Len(b),
         \A i \in 1..Len(a) : c[i] = a[i],
         \A k \in 1..Len(b) : c[Len(a) + k] = b[k]
  PROVE  c = a \o b
<1>1. a \o b \in Seq(S) /\ Len(a \o b) = Len(a) + Len(b)
  OBVIOUS
<1>2. ASSUME NEW i \in 1..Len(c) PROVE c[i] = (a \o b)[i]
  <2>1. CASE i <= Len(a)
    BY <2>1
  <2>2. CASE i > Len(a)
    <3>1. i - Len(a) \in 1..Len(b)
      BY <2>2
    <3>2. (a \o b)[i] = b[i - Len(a)]
      BY <1>2, <2>2
    <3>3. c[Len(a) + (i - Len(a))] = b[i - Len(a)]
      BY <3>1
    <3>4. Len(a) + (i - Len(a)) = i
      OBVIOUS
    <3>. QED BY <3>2, <3>3, <3>4
  <2>. QED BY <2>1, <2>2
<1>3. Len(c) = Len(a \o b)
  BY <1>1
<1>. QED BY <1>1, <1>2, <1>3, SeqEqual

\* The bytes a Push takes make the queue longer by as many.
LEMMA PushedSize ==
  ASSUME NEW q, IsQueue(q), NEW data \in Seq(Byte)
  PROVE  DataSize(Push(q, data)) = DataSize(q) + Taken(q, data)
<1>. DEFINE n == Taken(q, data)
            p == Push(q, data)
<1>1. /\ q.size \in Nat /\ q.head \in Nat /\ q.tail \in Nat
      /\ q.size = 0 => q.head = 0 /\ q.tail = 0
      /\ q.size # 0 => q.head < q.size /\ q.tail < q.size
  BY Fields
<1>2. /\ n \in Nat /\ n <= FreeSize(q)
      /\ FreeSize(q) = IF q.size = 0 THEN 0 ELSE q.size - 1 - DataSize(q)
      /\ DataSize(q) = IF q.head <= q.tail THEN q.tail - q.head ELSE q.tail - q.head + q.size
  BY TakenNat, FreeSizeByCase, DataSizeByCase
<1>3. /\ p.size = q.size /\ p.head = q.head
      /\ p.tail = IF q.size - q.tail <= n THEN n - (q.size - q.tail) ELSE q.tail + n
  BY PushFields
<1>4. DataSize(p) = IF p.head <= p.tail THEN p.tail - p.head ELSE p.tail - p.head + p.size
  BY PushKeepsAQueue, DataSizeByCase
<1>. HIDE DEF n, p
<1>5. DataSize(p) = DataSize(q) + n
  <2>1. CASE q.size = 0
    BY <1>1, <1>2, <1>3, <1>4, <2>1
  <2>2. CASE q.size # 0 /\ q.head <= q.tail
    BY SMTT(30), <1>1, <1>2, <1>3, <1>4, <2>2
  <2>3. CASE q.size # 0 /\ ~ q.head <= q.tail
    BY SMTT(30), <1>1, <1>2, <1>3, <1>4, <2>3
  <2>. QED BY <2>1, <2>2, <2>3
<1>. QED BY <1>5 DEF n, p

\* The cell of a byte that waits is not among those the new bytes go to.
LEMMA OldCell ==
  ASSUME NEW s \in Nat, NEW h \in 0..s-1, NEW t \in 0..s-1, NEW d \in Nat, NEW n \in Nat,
         d = IF h <= t THEN t - h ELSE t - h + s,
         n <= s - 1 - d, NEW i \in 1..d, NEW c \in 0..s-1,
         c = IF h + i - 1 < s THEN h + i - 1 ELSE h + i - 1 - s
  PROVE  ~(t <= c /\ c < t + n) /\ ~(c < n - (s - t))
<1>1. CASE h <= t
  BY <1>1
<1>2. CASE ~ h <= t
  BY <1>2
<1>. QED BY <1>1, <1>2

\* KCircularQueue::Push appends to what the queue holds the first bytes of the
\* packet, as many as it says it took, and disturbs none of those that wait.
THEOREM PushAppends ==
  ASSUME NEW q, IsQueue(q), NEW data \in Seq(Byte)
  PROVE  Contents(Push(q, data)) = Contents(q) \o SubSeq(data, 1, Taken(q, data))
<1>. DEFINE n == Taken(q, data)
            p == Push(q, data)
            d == DataSize(q)
            S == Byte \cup {NoByte}
<1>1. /\ q.size \in Nat /\ q.head \in Nat /\ q.tail \in Nat
      /\ q.size = 0 => q.head = 0 /\ q.tail = 0
      /\ q.size # 0 => q.head < q.size /\ q.tail < q.size
  BY Fields
<1>2. /\ n \in Nat /\ n <= Len(data) /\ n <= FreeSize(q) /\ d \in Nat
      /\ FreeSize(q) = IF q.size = 0 THEN 0 ELSE q.size - 1 - d
      /\ d = IF q.head <= q.tail THEN q.tail - q.head ELSE q.tail - q.head + q.size
  BY TakenNat, FreeSizeByCase, DataSizeByCase, SizesOfAQueue
<1>3. /\ p.size = q.size /\ p.head = q.head
      /\ \A i \in 0..q.size-1 :
           p.cells[i] = IF q.tail <= i /\ i < q.tail + n THEN data[i - q.tail + 1]
                        ELSE IF i < n - (q.size - q.tail) THEN data[(q.size - q.tail) + i + 1]
                        ELSE q.cells[i]
  BY PushFields
<1>4. DataSize(p) = d + n
  BY PushedSize
<1>5. /\ Contents(p) \in Seq(S) /\ Len(Contents(p)) = d + n
      /\ \A i \in 1..d+n : Contents(p)[i] = p.cells[Cell(p, i)] /\ Cell(p, i) \in 0..p.size-1
  BY <1>4, PushKeepsAQueue, ContentsSeq
<1>6. /\ Contents(q) \in Seq(S) /\ Len(Contents(q)) = d
      /\ \A i \in 1..d : Contents(q)[i] = q.cells[Cell(q, i)] /\ Cell(q, i) \in 0..q.size-1
  BY ContentsSeq
<1>7. /\ SubSeq(data, 1, n) \in Seq(S) /\ Len(SubSeq(data, 1, n)) = n
      /\ \A k \in 1..n : SubSeq(data, 1, n)[k] = data[k]
  BY <1>2
<1>8. \A i \in 1..d+n :
        Cell(p, i) = IF q.head + i - 1 < q.size THEN q.head + i - 1 ELSE q.head + i - 1 - q.size
  BY <1>3 DEF Cell
<1>9. \A i \in 1..d :
        Cell(q, i) = IF q.head + i - 1 < q.size THEN q.head + i - 1 ELSE q.head + i - 1 - q.size
  BY DEF Cell
<1>. HIDE DEF n, p, d, S
<1>10. ASSUME NEW i \in 1..d PROVE Contents(p)[i] = Contents(q)[i]
  <2>. DEFINE c == Cell(q, i)
  <2>1. /\ c \in 0..q.size-1
        /\ c = IF q.head + i - 1 < q.size THEN q.head + i - 1 ELSE q.head + i - 1 - q.size
    BY <1>6, <1>9
  <2>2. Cell(p, i) = c /\ Contents(p)[i] = p.cells[Cell(p, i)]
    <3>1. i \in 1..d+n
      BY <1>2
    <3>. QED BY <1>5, <1>8, <1>9, <3>1
  <2>3. Contents(q)[i] = q.cells[c]
    BY <1>6
  <2>. HIDE DEF c
  <2>4. ~(q.tail <= c /\ c < q.tail + n) /\ ~(c < n - (q.size - q.tail))
    <3>1. q.size # 0 /\ q.head \in 0..q.size-1 /\ q.tail \in 0..q.size-1
      BY SMTT(30), <1>1, <2>1
    <3>2. n <= q.size - 1 - d
      BY <1>1, <1>2, <3>1
    <3>. QED BY <1>1, <1>2, <2>1, <3>1, <3>2, OldCell
  <2>. QED BY <1>3, <2>1, <2>2, <2>3, <2>4
<1>11. ASSUME NEW k \in 1..n PROVE Contents(p)[d + k] = data[k]
  <2>. DEFINE c == Cell(p, d + k)
  <2>1. d + k \in 1..d+n
    BY <1>2
  <2>2. /\ c \in 0..q.size-1 /\ Contents(p)[d + k] = p.cells[c]
        /\ c = IF q.head + (d + k) - 1 < q.size THEN q.head + (d + k) - 1 ELSE q.head + (d + k) - 1 - q.size
    BY <1>3, <1>5, <1>8, <2>1
  <2>. HIDE DEF c
  <2>3. q.size # 0 /\ q.head \in 0..q.size-1 /\ q.tail \in 0..q.size-1
    BY <1>1, <2>2
  <2>4. n <= q.size - 1 - d
    BY <1>1, <1>2, <2>3
  <2>5. /\ q.tail <= c => c < q.tail + n /\ c - q.tail + 1 = k
        /\ ~(q.tail <= c) => c < n - (q.size - q.tail) /\ (q.size - q.tail) + c + 1 = k
    <3>1. q.size \in Nat /\ d \in Nat /\ n \in Nat /\ k \in Nat /\ c \in 0..q.size-1 /\ q.head \in Nat
      BY <1>1, <1>2, <2>2
    <3>2. d = IF q.head <= q.tail THEN q.tail - q.head ELSE q.tail - q.head + q.size
      BY <1>2
    <3>3. c = IF q.head + (d + k) - 1 < q.size THEN q.head + (d + k) - 1 ELSE q.head + (d + k) - 1 - q.size
      BY <2>2
    <3>4. k <= n
      BY <1>2
    <3>. DEFINE s == q.size
                h == q.head
                t == q.tail
    <3>5. s \in Nat /\ h \in 0..s-1 /\ t \in 0..s-1 /\ n <= s - 1 - d /\ c \in 0..s-1
      BY <2>3, <2>4, <3>1
    <3>6. d = IF h <= t THEN t - h ELSE t - h + s
      BY <3>2
    <3>7. c = IF h + (d + k) - 1 < s THEN h + (d + k) - 1 ELSE h + (d + k) - 1 - s
      BY <3>3
    <3>8. d \in Nat /\ n \in Nat /\ k \in Nat /\ k <= n /\ k # 0
      BY <3>1, <3>4
    <3>. HIDE DEF s, h, t
    <3>9. /\ t <= c => c < t + n /\ c - t + 1 = k
          /\ ~(t <= c) => c < n - (s - t) /\ (s - t) + c + 1 = k
      <4>1. CASE h <= t
        BY ONLY <3>5, <3>6, <3>7, <3>8, <4>1
      <4>2. CASE ~ h <= t
        BY ONLY <3>5, <3>6, <3>7, <3>8, <4>2
      <4>. QED BY <4>1, <4>2
    <3>. QED BY <3>9 DEF s, h, t
  <2>. QED BY <1>3, <2>2, <2>5
<1>12. Contents(p) = Contents(q) \o SubSeq(data, 1, n)
  <2>. DEFINE a == Contents(q)
              b == SubSeq(data, 1, n)
              c == Contents(p)
  <2>1. a \in Seq(S) /\ b \in Seq(S) /\ c \in Seq(S) /\ Len(c) = Len(a) + Len(b)
    BY <1>5, <1>6, <1>7
  <2>2. \A i \in 1..Len(a) : c[i] = a[i]
    BY <1>6, <1>10
  <2>3. \A k \in 1..Len(b) : c[Len(a) + k] = b[k]
    BY <1>6, <1>7, <1>11
  <2>. HIDE DEF a, b, c
  <2>4. c = a \o b
    BY <2>1, <2>2, <2>3, Concatenation
  <2>. QED BY <2>4 DEF a, b, c
<1>. QED BY <1>12 DEF n, p

----------------------------------------------------------------------------

\* The numbers of bytes a Pop copies from either part, and the ends after it.
LEMMA PopOfAQueue ==
  ASSUME NEW q, IsQueue(q), q.size # 0, NEW n \in Nat
  PROVE  LET m == FromRear(q, n) + FromFront(q, n)
             p == Pop(q, n)
         IN  /\ FromRear(q, n) \in Nat /\ FromFront(q, n) \in Nat /\ Wrapped(q, n) \in Nat
             /\ m = Least(n, DataSize(q))
             /\ p.head \in 0..q.size-1 /\ p.tail = q.tail /\ p.size = q.size /\ p.cells = q.cells
             /\ DOMAIN p = {"size", "cells", "head", "tail"}
             /\ p.head = IF q.head + m < q.size THEN q.head + m ELSE q.head + m - q.size
             /\ (IF p.head <= q.tail THEN q.tail - p.head ELSE q.tail - p.head + q.size) = DataSize(q) - m
             /\ FromFront(q, n) # 0 => q.head + FromRear(q, n) = q.size
<1>. DEFINE fr == FromRear(q, n)
            ff == FromFront(q, n)
            w == Wrapped(q, n)
            p == Pop(q, n)
<1>1. /\ q.size \in Nat \ {0} /\ q.head \in 0..q.size-1 /\ q.tail \in 0..q.size-1
      /\ DOMAIN q = {"size", "cells", "head", "tail"}
  BY Fields
<1>2. p = [q EXCEPT !.head = w + (IF fr < n THEN ff ELSE 0)]
  BY DEF Pop
<1>3. /\ p.head = w + (IF fr < n THEN ff ELSE 0) /\ p.tail = q.tail /\ p.size = q.size /\ p.cells = q.cells
      /\ DOMAIN p = {"size", "cells", "head", "tail"}
  BY <1>1, <1>2
<1>4. RearDataSize(q) = IF q.head <= q.tail THEN q.tail - q.head ELSE q.size - q.head
  BY DEF RearDataSize
<1>5. FrontDataSize(q) = IF q.head <= q.tail THEN 0 ELSE q.tail
  BY DEF FrontDataSize
<1>6. fr = Least(n, RearDataSize(q)) /\ ff = Least(n - fr, FrontDataSize(q))
  BY DEF FromRear, FromFront
<1>7. w = IF q.head + fr = q.size THEN 0 ELSE q.head + fr
  BY DEF Wrapped
<1>8. DataSize(q) = IF q.head <= q.tail THEN q.tail - q.head ELSE q.tail - q.head + q.size
  BY DataSizeByCase
<1>9. p.head = w + (IF fr < n THEN ff ELSE 0)
  BY <1>3
<1>. HIDE DEF fr, ff, w, p
<1>10. /\ fr \in Nat /\ ff \in Nat /\ fr + ff = Least(n, DataSize(q))
       /\ p.head \in 0..q.size-1 /\ w \in Nat
       /\ (IF p.head <= q.tail THEN q.tail - p.head ELSE q.tail - p.head + q.size) = DataSize(q) - (fr + ff)
       /\ p.head = IF q.head + (fr + ff) < q.size THEN q.head + (fr + ff) ELSE q.head + (fr + ff) - q.size
       /\ ff # 0 => q.head + fr = q.size
  <2>. DEFINE s == q.size
              h == q.head
              t == q.tail
              hh == p.head
              rear == RearDataSize(q)
              front == FrontDataSize(q)
              d == DataSize(q)
  <2>1. s \in Nat \ {0} /\ h \in 0..s-1 /\ t \in 0..s-1
    BY <1>1
  <2>2. /\ rear = (IF h <= t THEN t - h ELSE s - h)
        /\ front = (IF h <= t THEN 0 ELSE t)
        /\ fr = Least(n, rear) /\ ff = Least(n - fr, front)
        /\ w = (IF h + fr = s THEN 0 ELSE h + fr)
        /\ hh = w + (IF fr < n THEN ff ELSE 0)
        /\ d = (IF h <= t THEN t - h ELSE t - h + s)
    BY <1>4, <1>5, <1>6, <1>7, <1>8, <1>9
  <2>. HIDE DEF s, h, t, hh, rear, front, d
  <2>3. /\ fr \in Nat /\ ff \in Nat /\ fr + ff = Least(n, d)
        /\ hh \in 0..s-1 /\ w \in Nat
        /\ (IF hh <= t THEN t - hh ELSE t - hh + s) = d - (fr + ff)
        /\ hh = IF h + (fr + ff) < s THEN h + (fr + ff) ELSE h + (fr + ff) - s
        /\ ff # 0 => h + fr = s
    <3>. USE <2>1, <2>2
    <3>1. CASE h <= t
      <4>1. rear = t - h /\ front = 0 /\ d = t - h
        BY <3>1
      <4>2. fr \in Nat /\ fr <= n /\ fr <= t - h /\ (fr = n \/ fr = t - h)
        BY <3>1, <4>1, LeastNat
      <4>3. ff = 0
        BY <4>1, <4>2 DEF Least
      <4>4. w = h + fr /\ hh = h + fr
        BY <3>1, <4>2, <4>3
      <4>5. fr + ff = Least(n, d)
        BY <4>1, <4>2, <4>3 DEF Least
      <4>6. d \in Nat /\ fr + ff \in Nat /\ h + (fr + ff) = hh /\ hh \in 0..s-1 /\ hh <= t
        BY <3>1, <4>1, <4>2, <4>3, <4>4
      <4>7. (IF hh <= t THEN t - hh ELSE t - hh + s) = d - (fr + ff)
        BY <3>1, <4>1, <4>2, <4>3, <4>4, <4>6
      <4>8. hh = IF h + (fr + ff) < s THEN h + (fr + ff) ELSE h + (fr + ff) - s
        BY <4>6
      <4>9. w \in Nat /\ fr \in Nat /\ ff \in Nat /\ (ff # 0 => h + fr = s)
        BY <4>2, <4>3, <4>4
      <4>. QED BY <4>5, <4>6, <4>7, <4>8, <4>9, Zenon
    <3>2. CASE ~ h <= t
      <4>1. rear = s - h /\ front = t /\ d = t - h + s
        BY <3>2
      <4>2. fr \in Nat /\ fr <= n /\ fr <= s - h /\ (fr = n \/ fr = s - h)
        BY <3>2, <4>1, LeastNat
      <4>3. ff \in Nat /\ ff <= n - fr /\ ff <= t /\ (ff = n - fr \/ ff = t)
        BY <4>1, <4>2, LeastNat
      <4>4. CASE fr < s - h
        <5>1. fr = n /\ ff = 0 /\ w = h + n /\ hh = h + n
          BY <4>2, <4>3, <4>4
        <5>2. Least(n, d) = n
          BY <3>2, <4>1, <4>2, <4>4, <5>1 DEF Least
        <5>3. d \in Nat /\ fr + ff = n /\ hh \in 0..s-1 /\ w \in Nat /\ t < hh
          BY <3>2, <4>1, <4>2, <4>4, <5>1
        <5>4. (IF hh <= t THEN t - hh ELSE t - hh + s) = d - (fr + ff)
          BY <3>2, <4>1, <4>2, <5>1, <5>3
        <5>5. hh = IF h + (fr + ff) < s THEN h + (fr + ff) ELSE h + (fr + ff) - s
          BY <5>1, <5>3
        <5>. QED BY <4>2, <4>3, <5>1, <5>2, <5>3, <5>4, <5>5
      <4>5. CASE fr = s - h
        <5>1. w = 0 /\ hh = ff
          BY <4>2, <4>3, <4>5
        <5>2. fr + ff = Least(n, d)
          BY <3>2, <4>1, <4>2, <4>3, <4>5 DEF Least
        <5>3. d \in Nat /\ hh \in 0..s-1 /\ w \in Nat /\ hh <= t /\ h + (fr + ff) = s + hh
          BY <3>2, <4>1, <4>2, <4>3, <4>5, <5>1
        <5>4. (IF hh <= t THEN t - hh ELSE t - hh + s) = d - (fr + ff)
          BY <3>2, <4>1, <4>2, <4>3, <4>5, <5>1, <5>3
        <5>5. hh = IF h + (fr + ff) < s THEN h + (fr + ff) ELSE h + (fr + ff) - s
          BY <4>2, <4>3, <5>3
        <5>. QED BY <4>2, <4>3, <4>5, <5>1, <5>2, <5>3, <5>4, <5>5
      <4>. QED BY <4>2, <4>4, <4>5
    <3>. QED BY <3>1, <3>2
  <2>. QED BY <2>3 DEF s, h, t, hh, rear, front, d
<1>. QED BY <1>3, <1>10 DEF fr, ff, w, p

\* KCircularQueue::Pop leaves a queue a queue.
THEOREM PopKeepsAQueue ==
  ASSUME NEW q, IsQueue(q), NEW n \in Nat
  PROVE  IsQueue(Pop(q, n))
<1>1. CASE q.size = 0
  BY <1>1 DEF Pop
<1>2. CASE q.size # 0
  <2>. DEFINE p == Pop(q, n)
  <2>1. /\ p.head \in 0..q.size-1 /\ p.tail = q.tail /\ p.size = q.size /\ p.cells = q.cells
        /\ DOMAIN p = {"size", "cells", "head", "tail"}
    BY <1>2, PopOfAQueue
  <2>2. /\ q.size \in Nat /\ q.tail \in Nat /\ q.tail < q.size
        /\ q.cells \in [0..q.size-1 -> Byte \cup {NoByte}]
    BY <1>2, Fields
  <2>. HIDE DEF p
  <2>3. IsQueue(p)
    BY <2>1, <2>2 DEF IsQueue
  <2>. QED BY <2>3 DEF p
<1>. QED BY <1>1, <1>2

\* The cell of the i-th byte left after m bytes went is that of the (i+m)-th before.
LEMMA CellAfter ==
  ASSUME NEW s \in Nat \ {0}, NEW h \in 0..s-1, NEW m \in Nat, NEW i \in Nat \ {0},
         m < s, m + i <= s, NEW hh,
         hh = IF h + m < s THEN h + m ELSE h + m - s
  PROVE  (IF hh + i - 1 < s THEN hh + i - 1 ELSE hh + i - 1 - s)
           = (IF h + (m + i) - 1 < s THEN h + (m + i) - 1 ELSE h + (m + i) - 1 - s)
<1>1. CASE h + m < s
  BY <1>1
<1>2. CASE ~ h + m < s
  BY <1>2
<1>. QED BY <1>1, <1>2

\* KCircularQueue::Pop copies out the bytes that have waited longest, as many as
\* were asked for or all there are, in order, and leaves exactly the others.
THEOREM PopTakesTheFront ==
  ASSUME NEW q, IsQueue(q), NEW n \in Nat
  PROVE  /\ Popped(q, n) \in Seq(Byte \cup {NoByte})
         /\ Len(Popped(q, n)) = Least(n, DataSize(q))
         /\ Contents(q) = Popped(q, n) \o Contents(Pop(q, n))
<1>. DEFINE S == Byte \cup {NoByte}
            d == DataSize(q)
            p == Pop(q, n)
            fr == FromRear(q, n)
            ff == FromFront(q, n)
            m == fr + ff
            a == Popped(q, n)
            b == Contents(p)
            c == Contents(q)
<1>1. /\ c \in Seq(S) /\ Len(c) = d /\ d \in Nat
      /\ \A i \in 1..d : c[i] = q.cells[Cell(q, i)] /\ Cell(q, i) \in 0..q.size-1
  BY ContentsSeq, SizesOfAQueue
<1>2. CASE q.size = 0
  <2>1. q.head = 0 /\ q.tail = 0 /\ d = 0 /\ p = q
    BY <1>2, Fields, SizesOfAQueue DEF Pop
  <2>2. RearDataSize(q) = 0 /\ FrontDataSize(q) = 0
    BY <2>1 DEF RearDataSize, FrontDataSize
  <2>3. fr = 0 /\ ff = 0
    BY <2>2 DEF FromRear, FromFront, Least
  <2>4. a = [i \in 1..0 |-> IF i <= fr THEN q.cells[q.head + i - 1]
                            ELSE q.cells[Wrapped(q, n) + i - fr - 1]]
    BY <2>3 DEF Popped
  <2>5. a = <<>>
    BY <2>4
  <2>6. c = <<>>
    BY <1>1, <2>1
  <2>7. Least(n, d) = 0
    BY <2>1 DEF Least
  <2>8. a \in Seq(S)
    BY <2>5
  <2>. HIDE DEF S
  <2>. QED BY <2>1, <2>5, <2>6, <2>7, <2>8 DEF S
<1>3. CASE q.size # 0
  <2>1. /\ fr \in Nat /\ ff \in Nat /\ Wrapped(q, n) \in Nat
        /\ m = Least(n, d)
        /\ p.head \in 0..q.size-1 /\ p.tail = q.tail /\ p.size = q.size /\ p.cells = q.cells
        /\ p.head = IF q.head + m < q.size THEN q.head + m ELSE q.head + m - q.size
        /\ (IF p.head <= q.tail THEN q.tail - p.head ELSE q.tail - p.head + q.size) = d - m
        /\ ff # 0 => q.head + fr = q.size
    BY <1>3, PopOfAQueue
  <2>2. /\ q.size \in Nat \ {0} /\ q.head \in 0..q.size-1 /\ d < q.size
        /\ d = IF q.head <= q.tail THEN q.tail - q.head ELSE q.tail - q.head + q.size
    BY <1>3, Fields, SizesOfAQueue, DataSizeByCase
  <2>3. m \in Nat /\ m <= d
    BY <1>1, <2>1, LeastNat
  <2>4. DataSize(p) = d - m
    BY <2>1, PopKeepsAQueue, DataSizeByCase
  <2>5. /\ b \in Seq(S) /\ Len(b) = d - m
        /\ \A i \in 1..d-m : b[i] = p.cells[Cell(p, i)]
    BY <2>4, PopKeepsAQueue, ContentsSeq
  <2>6. \A i \in 1..d-m :
          Cell(p, i) = IF p.head + i - 1 < q.size THEN p.head + i - 1 ELSE p.head + i - 1 - q.size
    BY <2>1 DEF Cell
  <2>7. \A i \in 1..d :
          Cell(q, i) = IF q.head + i - 1 < q.size THEN q.head + i - 1 ELSE q.head + i - 1 - q.size
    BY DEF Cell
  <2>8. Wrapped(q, n) = IF q.head + fr = q.size THEN 0 ELSE q.head + fr
    BY DEF Wrapped
  <2>9. a = [i \in 1..m |-> IF i <= fr THEN q.cells[q.head + i - 1]
                            ELSE q.cells[Wrapped(q, n) + i - fr - 1]]
    BY DEF Popped
  <2>10. q.head + fr <= q.size
    <3>1. fr <= RearDataSize(q)
      <4>1. RearDataSize(q) \in Nat
        BY <1>3, Fields DEF RearDataSize
      <4>. QED BY <4>1, LeastNat DEF FromRear
    <3>2. q.head + RearDataSize(q) <= q.size /\ RearDataSize(q) \in Nat
      BY <1>3, Fields DEF RearDataSize
    <3>. QED BY <2>1, <2>2, <3>1, <3>2
  <2>. HIDE DEF S, d, p, fr, a, b, c
  <2>11. ASSUME NEW i \in 1..m PROVE a[i] = c[i]
    <3>1. i \in 1..d
      BY <1>1, <2>3
    <3>2. c[i] = q.cells[Cell(q, i)]
      BY <1>1, <3>1
    <3>3. CASE i <= fr
      <4>1. Cell(q, i) = q.head + i - 1
        BY <2>1, <2>2, <2>7, <2>10, <3>1, <3>3
      <4>. QED BY <2>9, <3>2, <3>3, <4>1
    <3>4. CASE ~ i <= fr
      <4>1. ff # 0
        BY <2>1, <3>4
      <4>2. q.head + fr = q.size /\ Wrapped(q, n) = 0
        BY <2>1, <2>8, <4>1
      <4>3. Cell(q, i) = q.head + i - 1 - q.size
        BY <2>1, <2>2, <2>7, <3>1, <3>4, <4>2
      <4>4. Cell(q, i) = Wrapped(q, n) + i - fr - 1
        BY <2>1, <2>2, <4>2, <4>3
      <4>. QED BY <2>9, <3>2, <3>4, <4>4
    <3>. QED BY <3>3, <3>4
  <2>12. ASSUME NEW k \in 1..d-m PROVE c[m + k] = b[k]
    <3>1. m + k \in 1..d
      BY <1>1, <2>3
    <3>2. Cell(p, k) = Cell(q, m + k)
      <4>1. m < q.size /\ m + k <= q.size /\ k \in Nat \ {0}
        BY <1>1, <2>2, <2>3
      <4>2. Cell(q, m + k) = IF q.head + (m + k) - 1 < q.size THEN q.head + (m + k) - 1
                             ELSE q.head + (m + k) - 1 - q.size
        BY <2>7, <3>1
      <4>3. Cell(p, k) = IF p.head + k - 1 < q.size THEN p.head + k - 1 ELSE p.head + k - 1 - q.size
        BY <2>6
      <4>4. p.head = IF q.head + m < q.size THEN q.head + m ELSE q.head + m - q.size
        BY <2>1
      <4>. HIDE DEF m
      <4>. QED BY <2>2, <2>3, <4>1, <4>2, <4>3, <4>4, CellAfter
    <3>. QED BY <1>1, <2>1, <2>5, <3>1, <3>2
  <2>13. a \in Seq(S) /\ Len(a) = m
    <3>1. a \in [1..m -> S]
      <4>1. DOMAIN a = 1..m /\ a = [i \in 1..m |-> a[i]]
        BY <2>9
      <4>2. \A i \in 1..m : c[i] \in S
        BY <1>1, <2>3
      <4>. QED BY <2>11, <4>1, <4>2
    <3>. QED BY <2>3, <3>1
  <2>14. c = a \o b
    <3>1. Len(c) = Len(a) + Len(b)
      BY <1>1, <2>3, <2>5, <2>13
    <3>2. \A i \in 1..Len(a) : c[i] = a[i]
      BY <2>11, <2>13
    <3>3. \A k \in 1..Len(b) : c[Len(a) + k] = b[k]
      BY <2>5, <2>12, <2>13
    <3>. QED BY <1>1, <2>5, <2>13, <3>1, <3>2, <3>3, Concatenation
  <2>. QED BY <2>1, <2>13, <2>14 DEF S, a, b, c, p, d
<1>. QED BY <1>2, <1>3

=============================================================================
