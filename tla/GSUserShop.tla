----------------------------- MODULE GSUserShop -----------------------------
(***************************************************************************)
(* The game servers' half of a personal shop: what KGSUser keeps of the    *)
(* shop a unit is in (GSUserPersonalShop.cpp) and how it reacts to its     *)
(* client, to the shop's room and to the answers of its own writes to the  *)
(* game DB.  As in GSUserTrade, up[u] and down[u] are the ordered channels *)
(* between u's game server and the center server, and there is one room,   *)
(* the one PersonalShop models.                                            *)
(*                                                                         *)
(* Unlike a trade, a purchase neither locks the inventory nor reserves     *)
(* anything: what a unit owns is changed by the notice of the sale, after  *)
(* the game DB has carried it out.                                         *)
(*                                                                         *)
(* Left out: the square, which is asked before a shop is opened or joined  *)
(* and shows the shops; agency shops; commissions and the opening's cost;  *)
(* the room an inventory has for what comes in; slots of items; moves      *)
(* between rooms and fields (a logout leaves the shop as they do); the     *)
(* filters of requests other than the purchase; statistics and logs.       *)
(***************************************************************************)
EXTENDS Integers, Sequences

CONSTANTS
  Units,        \* the characters, each on a game server of its own
  Items,        \* item UIDs
  Price,        \* Price[i]: what one piece of i costs
  MaxInFlight   \* bound: a client's next request waits for so full a channel

VARIABLES
  user,    \* what the game server knows of each unit
  up,      \* game server -> center server
  down     \* center server -> game server

vars == <<user, up, down>>

\* shopping:  m_iPersonalShopUID is the room's UID (it is 0 otherwise)
\* ed, init:  m_iED, its value and what of it is believed to be in the DB
\* held, heldInit: the same of each item's quantity
\* filter:    an EGS_BUY_PERSONAL_SHOP_ITEM_REQ is unanswered
\* wish:      what SetPersonalShopBuyItemInfo stored
\* writes:    the changes on their way to the DB, with the items they delete
\*            because nothing is left of them; a purchase waits for those
\*            with buy
Wish == [item : Items, quantity : Nat, ed : Int]
Write == [ed : Int, held : [Items -> Int], gone : SUBSET Items, buy : BOOLEAN]
User == [online : BOOLEAN, shopping : BOOLEAN, ed : Int, init : Int,
         held : [Items -> Int], heldInit : [Items -> Int], filter : BOOLEAN,
         wish : SUBSET Wish, writes : Seq(Write)]

\* SelectUnit: everything is read from the DB.
LoggedIn(ed, held) ==
  [online |-> TRUE, shopping |-> FALSE, ed |-> ed, init |-> ed, held |-> held,
   heldInit |-> held, filter |-> FALSE, wish |-> {}, writes |-> <<>>]

-----------------------------------------------------------------------------
\* _SendToCnRoom( GetPersonalShopUID(), ... ): a packet to UID 0 is dropped.
ToShop(u, m) ==
  up' = [up EXCEPT ![u] = IF user[u].shopping THEN Append(@, m) ELSE @]

Plain(type) == [type |-> type]

\* A client asks for something; the bound keeps the channel short.
Client(u) == user[u].online /\ Len(up[u]) < MaxInFlight

Relay(u, m) ==
  /\ Client(u) /\ user[u].shopping
  /\ ToShop(u, m)
  /\ UNCHANGED <<user, down>>

\* WriteUnitInfoToDB: what has changed since the last write goes to the DB
\* and counts as written.
Change(rec, buy) ==
  [ed |-> rec.ed - rec.init, held |-> [i \in Items |-> rec.held[i] - rec.heldInit[i]],
   gone |-> {i \in Items : rec.held[i] = 0 /\ rec.heldInit[i] # 0}, buy |-> buy]

\* The sum of numbers, and of changes.  (A recursive function and no fold: a
\* proof can show what it amounts to.)
Total(s) ==
  LET upTo[n \in 0..Len(s)] == IF n = 0 THEN 0 ELSE upTo[n - 1] + s[n]
  IN upTo[Len(s)]
AllOf(changes) ==
  [ed |-> Total([n \in DOMAIN changes |-> changes[n].ed]),
   held |-> [i \in Items |-> Total([n \in DOMAIN changes |-> changes[n].held[i]])]]

Flushed(rec) == [rec EXCEPT !.init = rec.ed, !.heldInit = rec.held]
WriteUnitInfo(rec, buy) == [Flushed(rec) EXCEPT !.writes = Append(@, Change(rec, buy))]

-----------------------------------------------------------------------------
(* Requests of the client.                                                 *)

\* EGS_CREATE_PERSONAL_SHOP_REQ
OpenShop(u) ==
  /\ Client(u) /\ ~user[u].shopping
  /\ up' = [up EXCEPT ![u] = Append(@, Plain("OPEN"))]
  /\ UNCHANGED <<user, down>>

\* EGS_REG_PERSONAL_SHOP_ITEM_REQ
RegItems(u, list) ==
  /\ DOMAIN list # {} /\ \A i \in DOMAIN list : list[i] <= user[u].held[i]
  /\ Relay(u, [type |-> "REG", list |-> list])

\* EGS_JOIN_PERSONAL_SHOP_REQ by the trade board: the unit counts as being in
\* the shop before the shop has answered.
JoinShop(u) ==
  /\ Client(u)
  /\ up' = [up EXCEPT ![u] = Append(@, Plain("JOIN"))]
  /\ user' = [user EXCEPT ![u].shopping = TRUE]
  /\ UNCHANGED down

\* EGS_BREAK_PERSONAL_SHOP_REQ, EGS_LEAVE_PERSONAL_SHOP_REQ
BreakShop(u) == Relay(u, [type |-> "BREAK", quietly |-> FALSE])
LeaveShop(u) == Relay(u, Plain("LEAVE"))

\* EGS_BUY_PERSONAL_SHOP_ITEM_REQ: the request is stored, the unit's data
\* are written to the DB, and the request follows when that is done.
BuyItem(u, i, quantity) ==
  /\ Client(u) /\ ~user[u].filter /\ user[u].shopping
  /\ user' = [user EXCEPT ![u] =
       [WriteUnitInfo(user[u], TRUE) EXCEPT
          !.filter = TRUE,
          !.wish = {[item |-> i, quantity |-> quantity, ed |-> user[u].ed]}]]
  /\ UNCHANGED <<up, down>>

\* The parts of a write fail one by one: the ED, and each item.
Part(w, ed, some) ==
  [ed |-> ed,
   held |-> [i \in Items |-> IF i \in some THEN w.held[i] ELSE 0],
   gone |-> w.gone \cap some, buy |-> w.buy]

\* An item that is gone has no quantity to restore.  If a later write deletes
\* it, that takes also what the failed one did not (there is one such write at
\* most).  If it was sold out, so that its deletion was thrown away, the
\* failed change is lost.  Only a failed deletion is tried again.
Deletions(rec, i) == {n \in DOMAIN rec.writes : i \in rec.writes[n].gone}
Deleted(rec, w) == {i \in Items \ w.gone : Deletions(rec, i) # {}}
Lost(rec, w) ==
  {i \in Items \ w.gone : /\ w.held[i] # 0 /\ rec.held[i] = 0 /\ rec.heldInit[i] = 0
                         /\ Deletions(rec, i) = {}}

Unwritten_bug(rec, w) == rec    \* a failed write counts as written

\* What a failed write did not write is taken out again.
Unwritten(rec, w) ==
  LET deleted == Deleted(rec, w)
      kept == deleted \cup Lost(rec, w)
      by == [i \in deleted |-> CHOOSE n \in Deletions(rec, i) : TRUE]
      More(n, i) == IF i \in deleted /\ by[i] = n THEN w.held[i] ELSE 0
      Longer(n) == [rec.writes[n] EXCEPT !.held = [i \in Items |-> @[i] + More(n, i)]]
  IN [rec EXCEPT
        !.init = @ - w.ed,
        !.heldInit = [i \in Items |-> IF i \in kept THEN @[i] ELSE @[i] - w.held[i]],
        !.writes = [n \in DOMAIN rec.writes |-> Longer(n)]]

\* DBE_UPDATE_UNIT_INFO_ACK: the answer holds what was not written, ed of the ED
\* and some of the items.  The stored request goes to the shop the unit is in by
\* now.
UnitInfoWritten(u, ed, some) ==
  /\ user[u].online /\ user[u].writes # <<>>
  /\ LET w == Head(user[u].writes)
         rest == [user[u] EXCEPT !.writes = Tail(@)]
     IN /\ user' = [user EXCEPT ![u] = Unwritten(rest, Part(w, ed, some))]
        /\ IF w.buy
           THEN \E wish \in user[u].wish :
                  ToShop(u, [type |-> "BUY", item |-> wish.item,
                             quantity |-> wish.quantity, ed |-> wish.ed])
           ELSE UNCHANGED up
  /\ UNCHANGED down

UseItem_bug(u, i) ==    \* the last piece can be used again
  /\ user[u].online
  /\ user' = [user EXCEPT ![u].held[i] = @ - 1]
  /\ UNCHANGED <<up, down>>

\* EGS_USE_QUICK_SLOT_REQ: in a shop or not; the DB learns of it at the next
\* write.
UseItem(u, i) ==
  /\ user[u].online /\ user[u].held[i] > 0
  /\ user' = [user EXCEPT ![u].held[i] = @ - 1]
  /\ UNCHANGED <<up, down>>

-----------------------------------------------------------------------------
(* Packets of the room.                                                    *)

Next(u) == Head(down[u])
Take(u) == user[u].online /\ down[u] # <<>> /\ down' = [down EXCEPT ![u] = Tail(@)]

\* The unit is not there.
Undelivered(u) ==
  /\ ~user[u].online /\ down[u] # <<>>
  /\ down' = [down EXCEPT ![u] = Tail(@)]
  /\ UNCHANGED <<user, up>>

\* ERM_OPEN_PERSONAL_SHOP_ACK
Opened(u) ==
  /\ Take(u) /\ Next(u).type = "OPEN_ACK"
  /\ user' = [user EXCEPT ![u].shopping = @ \/ Next(u).ok]
  /\ UNCHANGED up

\* ERM_REG_PERSONAL_SHOP_ITEM_ACK: DB and game server are brought in step.
Registered(u) ==
  /\ Take(u) /\ Next(u).type = "REG_ACK"
  /\ user' = [user EXCEPT ![u] = IF Next(u).ok THEN WriteUnitInfo(@, FALSE) ELSE @]
  /\ UNCHANGED up

\* ERM_JOIN_PERSONAL_SHOP_ACK
Joined(u) ==
  /\ Take(u) /\ Next(u).type = "JOIN_ACK"
  /\ user' = [user EXCEPT ![u].shopping = Next(u).ok]
  /\ UNCHANGED up

\* ERM_BREAK_PERSONAL_SHOP_ACK, ERM_LEAVE_PERSONAL_SHOP_ACK and
\* ERM_BREAK_PERSONAL_SHOP_NOT
Left(u) ==
  /\ Take(u) /\ Next(u).type \in {"BREAK_ACK", "LEAVE_ACK", "BREAK_NOT"}
  /\ LET refused == Next(u).type # "BREAK_NOT" /\ ~Next(u).ok
     IN user' = [user EXCEPT ![u].shopping = @ /\ refused]
  /\ UNCHANGED up

\* ERM_BUY_PERSONAL_SHOP_ITEM_ACK: SendPacket releases the filter.
BuyAck(u) ==
  /\ Take(u) /\ Next(u).type = "BUY_ACK"
  /\ user' = [user EXCEPT ![u].filter = FALSE]
  /\ UNCHANGED up

ConfirmReq_bug(u) ==    \* only good news is sent
  /\ Take(u) /\ Next(u).type = "CONFIRM_REQ"
  /\ LET m == Next(u)
         answer == [type |-> "CONFIRM_ACK", buyer |-> m.buyer, item |-> m.item,
                    quantity |-> m.quantity, ok |-> TRUE]
     IN IF m.left <= user[u].held[m.item] THEN ToShop(u, answer) ELSE UNCHANGED up
  /\ UNCHANGED user

\* ERM_CONFIRM_BUY_PERSONAL_SHOP_ITEM_REQ: does the seller have all that is
\* still listed?
ConfirmReq(u) ==
  /\ Take(u) /\ Next(u).type = "CONFIRM_REQ"
  /\ LET m == Next(u)
     IN ToShop(u, [type |-> "CONFIRM_ACK", buyer |-> m.buyer, item |-> m.item,
                   quantity |-> m.quantity, ok |-> m.left <= user[u].held[m.item]])
  /\ UNCHANGED user

\* DecreaseQuantity takes out what is there.
Fewer(n, quantity) == IF quantity <= n THEN n - quantity ELSE 0

Cost(p) == Price[p.item] * p.quantity

Sold_bug(rec, p) ==    \* with +=, which leaves init alone
  [rec EXCEPT !.ed = @ + Cost(p), !.held[p.item] = Fewer(@, p.quantity),
              !.heldInit[p.item] = Fewer(@, p.quantity)]

\* The seller's and the buyer's share of a sale.  SetValue sets both values
\* of the ED, and everything the inventory has not written yet is flushed,
\* as it "is recorded already".
Sold(rec, p) ==
  Flushed([rec EXCEPT !.ed = @ + Cost(p), !.held[p.item] = Fewer(@, p.quantity)])
Bought(rec, p) ==
  Flushed([rec EXCEPT !.ed = @ - Cost(p), !.held[p.item] = @ + p.quantity])

\* ERM_BUY_PERSONAL_SHOP_ITEM_COMPLETE_NOT
CompleteNot(u) ==
  /\ Take(u) /\ Next(u).type = "COMPLETE_NOT"
  /\ LET p == Next(u).purchase
     IN user' = [user EXCEPT ![u] = IF u = p.seller THEN Sold(@, p) ELSE Bought(@, p)]
  /\ UNCHANGED up

Receive(u) ==
  \/ Undelivered(u) \/ Opened(u) \/ Registered(u) \/ Joined(u) \/ Left(u)
  \/ BuyAck(u) \/ ConfirmReq(u) \/ CompleteNot(u)

-----------------------------------------------------------------------------
(* The unit goes and comes back.                                           *)

\* All a logout still has to write.
Outstanding(u) == AllOf(Append(user[u].writes, Change(user[u], FALSE)))

Logout(u) ==
  /\ user[u].online
  /\ user' = [user EXCEPT ![u] =
       [LoggedIn(0, [i \in Items |-> 0]) EXCEPT !.online = FALSE]]
  /\ ToShop(u, [type |-> "BREAK", quietly |-> TRUE])
  /\ UNCHANGED down

Login(u, ed, held) ==
  /\ ~user[u].online
  /\ user' = [user EXCEPT ![u] = LoggedIn(ed, held)]
  /\ UNCHANGED <<up, down>>

=============================================================================
