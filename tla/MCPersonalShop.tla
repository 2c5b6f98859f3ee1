---------------------------- MODULE MCPersonalShop ----------------------------
(* A small instance of PersonalShop for TLC.                               *)
EXTENDS PersonalShop, TLC

CONSTANTS a, b, c, potion, sword

\* The prices differ, so that the ED of a buyer covers some purchases only.
Prices == potion :> 1 @@ sword :> 2

\* No step reads what the last one sent.
Seen == <<fsm, users, goods, waitOver, ghosts>>

=============================================================================
