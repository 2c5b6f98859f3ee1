---------------------------- MODULE MCShopSystem ----------------------------
(* A small instance of ShopSystem for TLC: a seller and a buyer.           *)
EXTENDS ShopSystem, TLC

CONSTANTS s, b, potion

OneED == [i \in Items |-> 1]
TwoEach == [u \in Units |-> IF u \in Sellers THEN 0 ELSE 2]
SellersHaveOne == [u \in Units |-> [i \in Items |-> IF u \in Sellers THEN 1 ELSE 0]]
SellersHaveThree == [u \in Units |-> [i \in Items |-> IF u \in Sellers THEN 3 ELSE 0]]

\* Both may come and go; or the seller opens its shop again, and lists again
\* if the first opening ended by being sold out.
TwoMoves == [u \in Units |-> 2]
Reopening == [u \in Units |-> IF u \in Sellers THEN 4 ELSE 1]

\* No step reads what the last one sent, nor what the shop's own ghosts noted.
Seen == <<fsm, users, goods, waitOver, gsVars, db, orders, sysGhosts>>

=============================================================================
