--------------------------- MODULE MCRoomManager ---------------------------
(* A small instance of RoomManager for TLC: a game room and one that is    *)
(* not, and two game servers.                                              *)
EXTENDS RoomManager, TLC

CONSTANTS g1, g2

QueueBounds == 1 :> 2 @@ 2 :> 1

=============================================================================
