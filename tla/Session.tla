------------------------------ MODULE Session ------------------------------
(***************************************************************************)
(* One direction of a connection between two sessions: the sending socket  *)
(* object (KSocketObject::SendData and OnSendCompleted), TCP, and the      *)
(* receiving session (KSkSession::OnRecvCompleted, KSession::Tick), with   *)
(* the closing of both.  A proxy of the game server sending to its session *)
(* in the center server has a send queue; a user's session has none: the   *)
(* queue's size is chosen at the start.  Each socket is served by one      *)
(* handler at a time (m_csSock), a completion port delivers completions to *)
(* any I/O thread, and the actors' thread ticks the sessions.              *)
(*                                                                         *)
(* A byte is <<n, k>>: the k-th byte of the n-th packet given to SendData. *)
(* The length at the front of a packet counts itself.  What the security   *)
(* library does to the bytes is not modelled: a packet passes its check    *)
(* exactly when all its bytes are there, in order.                         *)
(***************************************************************************)
EXTENDS CircularQueue, FiniteSets, SequencesExt

CONSTANTS MaxPacket,    \* MAX_PACKET_SIZE: the bytes of a send or receive buffer
          HeaderSize,   \* sizeof(USHORT), the length at the front of a packet
          Sizes,        \* the sizes packets may have, header included
          QueueSizes,   \* the sizes a send queue may be resized to
          Window,       \* bound: the bytes TCP holds at most
          MaxPackets    \* bound: the packets handed to SendData

ASSUME SessionAssumption ==
  /\ HeaderSize \in Nat \ {0}
  /\ MaxPacket \in Nat /\ MaxPacket > HeaderSize
  /\ Sizes \subseteq Nat /\ \A s \in Sizes : s > HeaderSize
  /\ QueueSizes \subseteq Nat
  /\ Window \in Nat \ {0} /\ MaxPackets \in Nat
  /\ \A n \in 1..MaxPackets : \A size \in Sizes : \A k \in 1..size : <<n, k>> \in Byte

VARIABLES packets,   \* the sizes of the packets handed to SendData, in order
          out,       \* the sending socket object
          posted,    \* the bytes of each WSASend under way, the oldest first
          wire,      \* the bytes TCP holds, the oldest first
          line,      \* whether the connection stands: "UP", or "CUT"
          in,        \* the receiving socket object and its session
          got,       \* the packets the receiver queued, in order
          handled    \* how many of them its Tick has processed

vars == <<packets, out, posted, wire, line, in, got, handled>>

PacketBytes(n, size) == [k \in 1..size |-> <<n, k>>]
Drop(s, k) == SubSeq(s, k + 1, Len(s))

\* E_RESERVE_DESTROY in the receiver's queue, among the numbers of packets.
Destroy == 0

TypeOK ==
  /\ packets \in Seq(Sizes)
  /\ out.buf \in Seq(Byte) /\ Len(out.buf) <= MaxPacket /\ IsQueue(out.queue)
  /\ {out.sending, out.doomed, out.open, out.lost} \subseteq BOOLEAN
  /\ posted \in Seq(Seq(Byte)) /\ wire \in Seq(Byte) /\ Len(wire) <= Window /\ line \in {"UP", "CUT"}
  /\ in.buf \in Seq(Byte) /\ in.events \in Seq(Nat)
  /\ {in.armed, in.open, in.garbled} \subseteq BOOLEAN
  /\ got \in Seq(Nat) /\ handled \in 0..Len(got)

Init ==
  /\ packets = <<>> /\ posted = <<>> /\ wire = <<>> /\ line = "UP" /\ got = <<>> /\ handled = 0
  /\ \E n \in QueueSizes :
       out = [buf |-> <<>>, sending |-> FALSE, queue |-> Resized(n), open |-> TRUE,
              doomed |-> FALSE, lost |-> FALSE]
  /\ in = [buf |-> <<>>, events |-> <<>>, armed |-> TRUE, open |-> TRUE, garbled |-> FALSE]

----------------------------------------------------------------------------

\* MovDataQue2Buf: the send buffer takes what it has room for from the queue.
Moved(o) ==
  LET n == MaxPacket - Len(o.buf)
  IN  [o EXCEPT !.buf = @ \o Popped(o.queue, n), !.queue = Pop(@, n)]

\* As if m_bSending were not set.
Post_bug(o, pending) ==
  \/ out' = o /\ posted' = Append(pending, o.buf)
  \/ out' = [o EXCEPT !.doomed = TRUE] /\ posted' = pending

\* A WSASend of the whole buffer: it is under way, or it fails at once and the
\* session is to be destroyed.
Post(o, pending) ==
  \/ /\ out' = [o EXCEPT !.sending = TRUE]
     /\ posted' = Append(pending, o.buf)
  \/ /\ out' = [o EXCEPT !.doomed = TRUE]
     /\ posted' = pending

\* SendData: what is waiting first, then as much of the packet as the buffer
\* takes, then the queue.  If bytes remain the buffer is emptied, whatever it
\* held, and the session is to be destroyed.
Filled(size) ==
  LET o == Moved(out)
      data == PacketBytes(Len(packets) + 1, size)
      copied == Least(MaxPacket - Len(o.buf), size)
      rest == Drop(data, copied)
      q == IF rest = <<>> THEN o.queue ELSE Push(o.queue, rest)
      full == rest # <<>> /\ Taken(o.queue, rest) < Len(rest)
  IN  IF full
      THEN [o EXCEPT !.queue = q, !.buf = <<>>, !.sending = FALSE, !.doomed = TRUE, !.lost = TRUE]
      ELSE [o EXCEPT !.queue = q, !.buf = @ \o SubSeq(data, 1, copied)]

SendPacket(size) ==
  /\ Len(packets) < MaxPackets
  /\ out.open
  /\ packets' = Append(packets, size)
  /\ LET o == Filled(size)
     IN  IF o.buf = <<>> \/ o.sending
         THEN out' = o /\ UNCHANGED posted
         ELSE Post(o, posted)
  /\ UNCHANGED <<wire, line, in, got, handled>>

\* What a send under way transmits: the bytes it was posted with, or what has
\* been put in the buffer under it since.
Overwritten(bytes) == [i \in DOMAIN bytes |-> IF i <= Len(out.buf) THEN out.buf[i] ELSE bytes[i]]

\* As if what was appended behind a send were sent with it.
Completed_bug(k) == Moved([out EXCEPT !.sending = FALSE, !.buf = <<>>])

\* As if the queue were only looked at by SendData.
Completed_late(k) ==
  [out EXCEPT !.sending = FALSE, !.buf = IF k >= Len(out.buf) THEN <<>> ELSE Drop(out.buf, k)]

\* OnSendCompleted: TCP had room for the first k bytes of the oldest send.  The rest of
\* the buffer moves to its front, the queue fills it up, and what there is now
\* is sent.
Completed(k) ==
  Moved([out EXCEPT !.sending = FALSE,
                    !.buf = IF k >= Len(out.buf) THEN <<>> ELSE Drop(out.buf, k)])

SendCompleted ==
  /\ out.open /\ posted # <<>> /\ line = "UP"
  /\ \E k \in 1..Least(Len(Head(posted)), Window - Len(wire)), bytes \in {Head(posted), Overwritten(Head(posted))} :
       LET o == Completed(k)
       IN  /\ wire' = wire \o SubSeq(bytes, 1, k)
           /\ IF o.buf = <<>>
              THEN out' = o /\ posted' = Tail(posted)
              ELSE Post(o, Tail(posted))
  /\ UNCHANGED <<packets, line, in, got, handled>>

\* One round of the loop of OnRecvCompleted, over what is left in the buffer:
\* wait for a length and for a whole packet, refuse one the buffer can never
\* hold, queue one that passes its check.  A front that is no length (the
\* sender has thrown bytes away) leaves the stream out of step for good.
IsHeader(bytes) ==
  \E n \in DOMAIN packets : SubSeq(bytes, 1, HeaderSize) = [k \in 1..HeaderSize |-> <<n, k>>]

\* As before the check against MAX_PACKET_SIZE was added.
ReadOne_bug(r) ==
  IF r.stop \/ Len(r.buf) < HeaderSize THEN r
  ELSE IF ~IsHeader(r.buf) THEN [r EXCEPT !.stop = TRUE, !.garbled = TRUE, !.buf = <<>>]
  ELSE LET n == r.buf[1][1] IN
       IF Len(r.buf) < packets[n] THEN [r EXCEPT !.stop = TRUE]
       ELSE [r EXCEPT !.buf = Drop(@, packets[n]), !.got = Append(@, n)]

ReadOne(r) ==
  IF r.stop \/ Len(r.buf) < HeaderSize THEN r
  ELSE IF ~IsHeader(r.buf) THEN [r EXCEPT !.stop = TRUE, !.garbled = TRUE, !.buf = <<>>]
  ELSE LET n == r.buf[1][1]
           size == packets[n]
       IN  IF Len(r.buf) >= size
           THEN [r EXCEPT !.buf = Drop(@, size),
                          !.got = IF SubSeq(r.buf, 1, size) = PacketBytes(n, size)
                                  THEN Append(@, n) ELSE @]
           ELSE [r EXCEPT !.stop = TRUE, !.error = size > MaxPacket]

Unread(bytes) ==
  [buf |-> bytes, got |-> <<>>, stop |-> FALSE, error |-> FALSE, garbled |-> FALSE]

\* The loop, until a round changes nothing: a round that does takes bytes off.
Rounds(bytes) ==
  LET round[n \in 0..Len(bytes)] ==
        IF n = 0 THEN Unread(bytes) ELSE ReadOne(round[n - 1])
  IN  round

Reading(bytes) == Rounds(bytes)[Len(bytes)]

\* As if only the reading stopped.
Failed_bug(i) == [i EXCEPT !.armed = FALSE]

\* KSession::OnSocketError: the session is to be destroyed, after what its queue
\* already holds; no further read is posted.
Failed(i) == [i EXCEPT !.armed = FALSE, !.events = Append(@, Destroy)]

\* A read of at least one byte: whole packets are queued, the rest stays at the
\* front of the buffer, and the next read is posted behind it.
Receive ==
  /\ in.open /\ in.armed /\ line = "UP"
  /\ \E k \in 1..Least(Len(wire), MaxPacket - Len(in.buf)) :
       LET r == Reading(in.buf \o SubSeq(wire, 1, k))
           i == [in EXCEPT !.buf = r.buf, !.events = @ \o r.got, !.garbled = @ \/ r.garbled]
       IN  /\ wire' = Drop(wire, k)
           /\ IF in.garbled
              THEN UNCHANGED <<in, got>>
              ELSE /\ got' = got \o r.got
                   /\ in' = IF r.error THEN Failed(i) ELSE i
  /\ UNCHANGED <<packets, out, posted, line, handled>>

\* A read of nothing (the other side closed its socket), or a read that fails.
ReceiveEnd ==
  /\ in.open /\ in.armed
  /\ line = "CUT" \/ (~out.open /\ wire = <<>>)
  /\ in' = Failed(in)
  /\ UNCHANGED <<packets, out, posted, wire, line, got, handled>>

\* How many of the events are packets.
Queued(events) == Cardinality({i \in DOMAIN events : events[i] # Destroy})

\* As if events were looked at and left in the queue.
Tick_bug ==
  /\ in.open /\ in.events # <<>>
  /\ handled' = handled + Queued(in.events)
  /\ UNCHANGED <<packets, out, posted, wire, line, in, got>>

\* KSession::Tick of the receiver: all its events, and OnDestroy if one of them
\* asked for it.
Tick ==
  /\ in.open /\ in.events # <<>>
  /\ handled' = handled + Queued(in.events)
  /\ in' = [in EXCEPT !.events = <<>>, !.open = Destroy \notin ToSet(in.events),
                      !.armed = @ /\ Destroy \notin ToSet(in.events)]
  /\ UNCHANGED <<packets, out, posted, wire, line, got>>

\* The sending session's Tick once its destruction is reserved.
OutTick ==
  /\ out.open /\ out.doomed
  /\ out' = [out EXCEPT !.open = FALSE]
  /\ posted' = <<>>
  /\ UNCHANGED <<packets, wire, line, in, got, handled>>

\* The sender's own read ends when the receiver is gone.
OutNotices ==
  /\ out.open /\ ~out.doomed /\ ~in.open
  /\ out' = [out EXCEPT !.doomed = TRUE]
  /\ UNCHANGED <<packets, posted, wire, line, in, got, handled>>

\* The connection breaks: what TCP held is gone, and the sends under way fail.
Cut ==
  /\ line = "UP" /\ in.open /\ out.open
  /\ line' = "CUT" /\ wire' = <<>> /\ posted' = <<>>
  /\ out' = [out EXCEPT !.doomed = TRUE]
  /\ UNCHANGED <<packets, in, got, handled>>

Next ==
  \/ \E size \in Sizes : SendPacket(size)
  \/ SendCompleted \/ Receive \/ ReceiveEnd \/ Tick \/ OutTick \/ OutNotices \/ Cut

Spec == Init /\ [][Next]_vars

\* A completion port hands out every completion, and the sessions are ticked.
\* (No two actions of one conjunct are ever enabled together.)
FairSpec ==
  /\ Spec
  /\ WF_vars(SendCompleted) /\ WF_vars(Receive \/ ReceiveEnd)
  /\ WF_vars(Tick) /\ WF_vars(OutTick \/ OutNotices)

----------------------------------------------------------------------------

\* The stream of packets of sizes ps: the bytes of the first packet, of the
\* second, and so on, each followed by the next.
InPacket(ps, b) == b[1] \in DOMAIN ps /\ b[2] \in 1..ps[b[1]]
Successor(ps, b) == IF b[2] = ps[b[1]] THEN <<b[1] + 1, 1>> ELSE <<b[1], b[2] + 1>>

\* The byte of the stream behind s, which runs from the front of the n-th packet.
Behind(ps, n, s) == IF s = <<>> THEN <<n, 1>> ELSE Successor(ps, s[Len(s)])

\* s is the stream from the front of the n-th packet on, as far as s goes.
Runs(ps, n, s) ==
  \A i \in DOMAIN s :
    InPacket(ps, s[i]) /\ s[i] = IF i = 1 THEN <<n, 1>> ELSE Successor(ps, s[i - 1])

\* Until the sender throws bytes away or the connection goes, what lies in the
\* receiver's buffer, in TCP, in the send buffer and in the send queue is, in
\* that order, every byte of the packets not yet received, once, to the end of
\* the last.
NothingLost ==
  out.open /\ ~out.lost /\ line = "UP" =>
    LET bytes == in.buf \o wire \o out.buf \o Contents(out.queue)
    IN  /\ Runs(packets, Len(got) + 1, bytes)
        /\ Behind(packets, Len(got) + 1, bytes) = <<Len(packets) + 1, 1>>

\* Until the sender throws bytes away, packets are received in the order they
\* were sent, none twice and none left out, also while the connection closes.
InOrder == ~out.lost => \A i \in DOMAIN got : got[i] = i

\* Until the sender throws bytes away there is one send under way at most, the
\* flag m_bSending says so, and its bytes stand at the front of the buffer as
\* they were when it was posted.
InFlightIntact ==
  ~out.lost /\ line = "UP" /\ out.open =>
    /\ Len(posted) <= 1
    /\ out.sending <=> posted # <<>>
    /\ \A i \in DOMAIN posted : IsPrefix(posted[i], out.buf)

\* A read is never posted into a full buffer (it would complete with nothing,
\* which is what the end of the connection looks like).
RoomToRead == in.armed => Len(in.buf) < MaxPacket

\* The receiver catches up with what is sent, or the connection ends (the
\* packets of a behaviour are finitely many, by MaxPackets).
Arrives == []<>(handled = Len(packets) \/ ~in.open)

\* A connection one of whose sides fails is closed on both.
BothClose == out.doomed \/ ~in.armed ~> ~out.open /\ ~in.open

=============================================================================
