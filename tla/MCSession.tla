----------------------------- MODULE MCSession -----------------------------
(* A connection small enough for TLC: see Session.                         *)
EXTENDS Session

\* Bytes of the packets there may be, the queue's dead cells forgotten.
Bytes == (1..MaxPackets) \X (1..MaxPacket + 1)
Seen == <<packets, [out EXCEPT !.queue = <<@.size, @.head, @.tail, Contents(@)>>],
          posted, wire, line, in, got, handled>>

=============================================================================
