--------------------------- MODULE CircularQueue ---------------------------
(***************************************************************************)
(* KCircularQueue (Common/Socket/CircularQueue.cpp), the byte queue a      *)
(* socket keeps behind its send buffer.  A queue is a record: the size of  *)
(* the vector, its bytes, and the positions m_nHead and m_nTail.  A queue  *)
(* that was never resized has size 0 and takes nothing; one of size n      *)
(* holds at most n - 1 bytes, since an equal head and tail mean "empty".   *)
(* Contents(q) says what the queue holds: it is the reference that Push    *)
(* and Pop are compared with, and no code.                                 *)
(***************************************************************************)
EXTENDS Integers, Sequences

CONSTANTS Byte,        \* what a byte may be
          NoByte       \* what the cells of a vector just resized hold

Least(a, b) == IF a <= b THEN a ELSE b

IsQueue(q) ==
  /\ DOMAIN q = {"size", "cells", "head", "tail"}
  /\ q.size \in Nat /\ q.head \in Nat /\ q.tail \in Nat
  /\ q.cells \in [0..q.size-1 -> Byte \cup {NoByte}]
  /\ q.head < q.size \/ q.head = 0
  /\ q.tail < q.size \/ q.tail = 0

Resized(n) == [size |-> n, cells |-> [i \in 0..n-1 |-> NoByte], head |-> 0, tail |-> 0]

DataSize(q) == IF q.size = 0 THEN 0 ELSE (q.tail - q.head + q.size) % q.size

\* The last cell is never used.
FreeSize(q) == IF q.size = 0 THEN 0 ELSE (q.head - q.tail + q.size - 1) % q.size

RearDataSize(q) == IF q.head <= q.tail THEN q.tail - q.head ELSE q.size - q.head

FrontDataSize(q) == IF q.head <= q.tail THEN 0 ELSE q.tail

\* How many of the bytes a Push takes, and the queue after it.
Taken(q, data) == Least(Len(data), FreeSize(q))

Push_bug(q, data) ==   \* forgets, past the end, what it has copied already
  LET n == Taken(q, data)
      rear == q.size - q.tail
  IN  [q EXCEPT !.cells = [i \in 0..q.size-1 |->
                             IF i >= q.tail /\ i < q.tail + n THEN data[i - q.tail + 1]
                             ELSE IF i < n - rear THEN data[i + 1]
                             ELSE q.cells[i]],
                !.tail = IF rear <= n THEN n - rear ELSE q.tail + n]

Push(q, data) ==
  LET n == Taken(q, data)
      rear == q.size - q.tail
  IN  IF rear <= n
      THEN [q EXCEPT !.cells = [i \in 0..q.size-1 |->
                                  IF i >= q.tail THEN data[i - q.tail + 1]
                                  ELSE IF i < n - rear THEN data[rear + i + 1]
                                  ELSE q.cells[i]],
                     !.tail = n - rear]
      ELSE [q EXCEPT !.cells = [i \in 0..q.size-1 |->
                                  IF q.tail <= i /\ i < q.tail + n THEN data[i - q.tail + 1]
                                  ELSE q.cells[i]],
                     !.tail = q.tail + n]

\* The bytes a Pop of at most n bytes copies out, and the queue after it.
FromRear(q, n) == Least(n, RearDataSize(q))
FromFront(q, n) == Least(n - FromRear(q, n), FrontDataSize(q))
Wrapped(q, n) == IF q.head + FromRear(q, n) = q.size THEN 0 ELSE q.head + FromRear(q, n)

Popped(q, n) ==
  [i \in 1..FromRear(q, n) + FromFront(q, n) |->
     IF i <= FromRear(q, n) THEN q.cells[q.head + i - 1]
     ELSE q.cells[Wrapped(q, n) + i - FromRear(q, n) - 1]]

Pop(q, n) == IF q.size = 0 THEN q
             ELSE [q EXCEPT !.head = Wrapped(q, n) + (IF FromRear(q, n) < n THEN FromFront(q, n) ELSE 0)]

----------------------------------------------------------------------------

\* The cell that holds the i-th byte of the queue, and all its bytes in order.
Cell(q, i) == IF q.head + i - 1 < q.size THEN q.head + i - 1 ELSE q.head + i - 1 - q.size
Contents(q) == [i \in 1..DataSize(q) |-> q.cells[Cell(q, i)]]

=============================================================================
