----------------------------- MODULE ShopSystem -----------------------------
(***************************************************************************)
(* A personal shop from end to end: the shop's room of the center server   *)
(* (PersonalShop), the game servers of its seller and its buyers           *)
(* (GSUserShop) and the game DB, with the channels and queues between      *)
(* them.  Every unit is on a game server of its own, named by the unit.    *)
(*                                                                         *)
(* The DB is what the code assumes of it: the procedure of a purchase (not *)
(* in the repository) is one transaction and moves nothing its giver does  *)
(* not have; the changes of a write are applied in the step in which its   *)
(* game server learns of it (both are sums, so the order does not matter). *)
(*                                                                         *)
(* Clients open or join a shop only while they are in none, and all are of *)
(* one server group.                                                       *)
(*                                                                         *)
(* Ghost variables: asked, moved and used count what the bounds limit;     *)
(* drifted has the units whose game server was told of a sale while        *)
(* something of theirs was not written yet, or of more pieces than were    *)
(* left, those whose item was sold out while an earlier write of it was on *)
(* its way, which then failed (GS!Lost), and those that logged in between  *)
(* the DB's part of a sale and the notice of it; a login with no sale on   *)
(* its way puts that right.  lacking has those that logged in with a       *)
(* record that lacks pieces: if a unit uses a piece that is just being     *)
(* sold, what the DB makes of the write is not known, and the model lets   *)
(* the record go below zero.                                               *)
(***************************************************************************)
EXTENDS PersonalShop, SequencesExt

CONSTANTS
  Sellers,      \* the units that open shops; the others buy
  Used,         \* the items that units use
  MaxInFlight,  \* see GSUserShop
  MaxMoves,     \* bound: MaxMoves[u] is how much else u asks for
  MaxBuys,      \* bound: purchases each client asks for
  MaxUses,      \* bound: pieces used
  MaxFaults,    \* bound: logouts, writes that fail (in part) and DB failures
  Wealth,       \* Wealth[u]: the ED of u at the start
  Stock         \* Stock[u][i]: the pieces of i that u has at the start

ASSUME SystemAssumption ==
  /\ Sellers \subseteq Units /\ Units \subseteq Servers /\ Used \subseteq Items
  /\ Wealth \in [Units -> Nat] /\ Stock \in [Units -> [Items -> Nat]]

VARIABLES
  user, up, down,  \* see GSUserShop
  db,              \* the game DB: the ED of each unit, its pieces of each item
  orders,          \* the purchases so far, with how far each has come
  asked, moved, used, drifted, lacking, faults

GS == INSTANCE GSUserShop

gsVars == <<user, up, down>>
sysGhosts == <<asked, moved, used, drifted, lacking, faults>>
sysVars == <<vars, gsVars, db, orders, sysGhosts>>

SysInit ==
  /\ Init
  /\ user = [u \in Units |-> GS!LoggedIn(Wealth[u], Stock[u])]
  /\ up = [u \in Units |-> <<>>]
  /\ down = [u \in Units |-> <<>>]
  /\ db = [ed |-> Wealth, held |-> Stock]
  /\ orders = <<>>
  /\ used = 0
  /\ asked = [u \in Units |-> 0] /\ moved = [u \in Units |-> 0]
  /\ drifted = {} /\ lacking = {} /\ faults = 0

-----------------------------------------------------------------------------
(* The room handles an event.                                              *)

Forward ==
  /\ down' = [u \in Units |-> down[u] \o sent'[u]]
  /\ orders' = orders \o SetToSeq({[purchase |-> p, status |-> "asked"] : p \in sentDB'})

Handle(u, m) ==
  \/ m.type = "OPEN"        /\ OpenReq(u, u, TRUE)
  \/ m.type = "REG"         /\ RegReq(u, m.list, TRUE)
  \/ m.type = "JOIN"        /\ JoinReq(u, u, TRUE)
  \/ m.type = "BREAK"       /\ BreakReq(u, m.quietly)
  \/ m.type = "LEAVE"       /\ LeaveReq(u)
  \/ m.type = "BUY"         /\ BuyReq(u, m.item, m.quantity, m.ed, TRUE)
  \/ m.type = "CONFIRM_ACK" /\ ConfirmAck(u, m.buyer, m.item, m.quantity, m.ok)

Deliver(u) ==
  /\ up[u] # <<>>
  /\ Handle(u, Head(up[u]))
  /\ Forward
  /\ up' = [up EXCEPT ![u] = Tail(@)]
  /\ UNCHANGED <<user, db, asked, moved, used, drifted, lacking, faults>>

RoomTick ==
  /\ Tick
  /\ Forward
  /\ UNCHANGED <<user, up, db, sysGhosts>>

-----------------------------------------------------------------------------
(* The game servers take a step; the room does nothing.                    *)

Elsewhere == Ignore /\ UNCHANGED orders

Ask(u) ==
  /\ moved[u] < MaxMoves[u]
  /\ moved' = [moved EXCEPT ![u] = @ + 1]
  /\ \/ u \in Sellers /\ GS!OpenShop(u)
     \/ u \in Sellers /\ \E list \in Lists : GS!RegItems(u, list)
     \/ u \in Sellers /\ GS!BreakShop(u)
     \/ u \notin Sellers /\ ~user[u].shopping /\ GS!JoinShop(u)
     \/ u \notin Sellers /\ GS!LeaveShop(u)
  /\ Elsewhere /\ UNCHANGED <<db, asked, used, drifted, lacking, faults>>

Buy(u) ==
  /\ u \notin Sellers /\ asked[u] < MaxBuys
  /\ \E i \in Items, quantity \in Quantities : GS!BuyItem(u, i, quantity)
  /\ asked' = [asked EXCEPT ![u] = @ + 1]
  /\ Elsewhere /\ UNCHANGED <<db, moved, used, drifted, lacking, faults>>

Credit(u, ed, held) ==
  [ed |-> [db.ed EXCEPT ![u] = @ + ed],
   held |-> [db.held EXCEPT ![u] = [i \in Items |-> @[i] + held[i]]]]

\* Some of a write arrives, and the rest fails: the ED, or items.
Written(u) ==
  /\ user[u].writes # <<>>
  /\ LET w == Head(user[u].writes)
         rest == [user[u] EXCEPT !.writes = Tail(@)]
     IN \E ed \in {0, w.ed}, some \in SUBSET {i \in Items : w.held[i] # 0} :
          LET arrived == GS!Part(w, w.ed - ed, Items \ some)
              lost == GS!Lost(rest, GS!Part(w, ed, some))
          IN /\ GS!UnitInfoWritten(u, ed, some)
             /\ db' = Credit(u, arrived.ed, arrived.held)
             /\ IF ed # 0 \/ some # {}
                THEN faults < MaxFaults /\ faults' = faults + 1
                ELSE UNCHANGED faults
             /\ drifted' = IF lost # {} THEN drifted \cup {u} ELSE drifted
  /\ Elsewhere /\ UNCHANGED <<asked, moved, used, lacking>>

Use(u) ==
  /\ used < MaxUses /\ used' = used + 1
  /\ \E i \in Used : GS!UseItem(u, i)
  /\ Elsewhere /\ UNCHANGED <<db, asked, moved, drifted, lacking, faults>>

InStep(u) == user[u].ed = user[u].init /\ user[u].held = user[u].heldInit

\* Not all of p's pieces are left.
Short(u, p) == u = p.seller /\ user[u].held[p.item] < p.quantity

Receive(u) ==
  /\ GS!Receive(u)
  /\ drifted' = IF /\ user[u].online /\ GS!Next(u).type = "COMPLETE_NOT"
                   /\ ~InStep(u) \/ Short(u, GS!Next(u).purchase)
                THEN drifted \cup {u} ELSE drifted
  /\ Elsewhere /\ UNCHANGED <<db, asked, moved, used, lacking, faults>>

\* Sales of u that the DB has carried out and u's game server is to be told of.
Concerns(u, p) == u \in {p.seller, p.buyer}
Told(u) == {n \in DOMAIN down[u] : down[u][n].type = "COMPLETE_NOT"}
Carried(u) ==
  {n \in DOMAIN orders : orders[n].status = "done" /\ Concerns(u, orders[n].purchase)}

Lacking(u) == \E i \in Items : db.held[u][i] < 0

ComeAndGo(u) ==
  /\ \/ /\ faults < MaxFaults /\ faults' = faults + 1
        /\ GS!Logout(u)
        /\ db' = LET o == GS!Outstanding(u) IN Credit(u, o.ed, o.held)
        /\ UNCHANGED <<drifted, lacking>>
     \/ /\ GS!Login(u, db.ed[u], db.held[u])
        /\ drifted' = IF Carried(u) \cup Told(u) # {} THEN drifted \cup {u} ELSE drifted \ {u}
        /\ lacking' = IF Lacking(u) THEN lacking \cup {u} ELSE lacking \ {u}
        /\ UNCHANGED <<db, faults>>
  /\ Elsewhere /\ UNCHANGED <<asked, moved, used>>

-----------------------------------------------------------------------------
(* The game DB.                                                            *)

CanCarry(p) == p.quantity <= db.held[p.seller][p.item]

CarriedOut(p) ==
  [ed |-> [db.ed EXCEPT ![p.seller] = @ + GS!Cost(p), ![p.buyer] = @ - GS!Cost(p)],
   held |-> [db.held EXCEPT ![p.seller][p.item] = @ - p.quantity,
                            ![p.buyer][p.item] = @ + p.quantity]]

\* The procedure carries the purchase out or refuses it; an ODBC error
\* leaves everything as it was.
Carry(n) ==
  /\ orders[n].status = "asked"
  /\ \/ /\ CanCarry(orders[n].purchase)
        /\ orders' = [orders EXCEPT ![n].status = "done"]
        /\ db' = CarriedOut(orders[n].purchase)
        /\ UNCHANGED faults
     \/ /\ ~CanCarry(orders[n].purchase)
        /\ orders' = [orders EXCEPT ![n].status = "refused"]
        /\ UNCHANGED <<db, faults>>
     \/ /\ faults < MaxFaults /\ faults' = faults + 1
        /\ \E status \in {"refused", "error"} :
             orders' = [orders EXCEPT ![n].status = status]
        /\ UNCHANGED db
  /\ Ignore /\ UNCHANGED <<gsVars, asked, moved, used, drifted, lacking>>

\* DBE_BUY_PERSONAL_SHOP_ITEM_COMPLETE_REQ's answer.
Answer(n) ==
  /\ \/ /\ orders[n].status = "done"
        /\ DBDone(orders[n].purchase)
        /\ orders' = [orders EXCEPT ![n].status = "sold"]
     \/ /\ orders[n].status = "refused"
        /\ \E r \in Unfilled : DBRefused(r)
        /\ orders' = [orders EXCEPT ![n].status = "lost"]
     \/ /\ orders[n].status = "error"
        /\ \E r \in Unfilled : DBUnfilled(r)
        /\ orders' = [orders EXCEPT ![n].status = "lost"]
  /\ down' = [u \in Units |-> down[u] \o sent'[u]]
  /\ UNCHANGED <<user, up, db, sysGhosts>>

-----------------------------------------------------------------------------
SysNext ==
  \/ \E u \in Units : \/ Deliver(u) \/ Ask(u) \/ Buy(u) \/ Written(u) \/ Use(u)
                      \/ Receive(u) \/ ComeAndGo(u)
  \/ RoomTick
  \/ \E n \in DOMAIN orders : Carry(n) \/ Answer(n)

SysSpec == SysInit /\ [][SysNext]_sysVars

\* Queues are drained and the DB answers writes; nobody needs to ask for
\* anything, and the DB need not answer a purchase.
SysFairSpec ==
  /\ SysSpec
  /\ \A u \in Units : /\ WF_sysVars(Deliver(u)) /\ WF_sysVars(Receive(u))
                      /\ WF_sysVars(Written(u))

-----------------------------------------------------------------------------
(* Properties.                                                             *)

\* Every variable has its type; in particular no inventory ever has less than
\* nothing of an item, if it was read from a record that has not.
SysTypeOK ==
  /\ user \in [Units -> GS!User]
  /\ \A u \in Units \ lacking, i \in Items : user[u].held[i] >= 0
  /\ \A u \in Units : \A m \in Range(down[u]) : m \in Message
  /\ db \in [ed : [Units -> Int], held : [Units -> [Items -> Int]]]
  /\ drifted \subseteq Units /\ lacking \subseteq Units

\* What a sale changes in the DB for u, one of its two parties.
NoChange == [ed |-> 0, held |-> [i \in Items |-> 0]]
OfItem(p, n) == [i \in Items |-> IF i = p.item THEN n ELSE 0]
Share(u, p) == IF u = p.seller
               THEN [ed |-> GS!Cost(p), held |-> OfItem(p, -p.quantity)]
               ELSE [ed |-> -GS!Cost(p), held |-> OfItem(p, p.quantity)]

\* The sales u's game server is still to be told of: those whose notice has
\* not been sent, and those whose notice is on its way.
Due(u) == [n \in DOMAIN orders |->
             IF n \in Carried(u) THEN Share(u, orders[n].purchase) ELSE NoChange]
OnItsWay(u) == [n \in DOMAIN down[u] |->
                  IF n \in Told(u) THEN Share(u, down[u][n].purchase) ELSE NoChange]

\* At every moment, what a game server believes to be in the DB is what is
\* there, apart from its own writes on their way and from the sales it has
\* not been told of: nothing else is counted twice or lost by purchases, by
\* writes that fail in whole or in part, or by logouts, in any order (KGSUser's
\* ED and inventory against the game DB).  Not so, until it logs in again, for
\* a unit that was told of a sale with something unwritten or used up, that
\* sold the last piece of an item while an earlier write of that item was on
\* its way and failed, or that logged in between a sale and its notice.
BooksBalance ==
  \A u \in Units \ drifted :
    user[u].online =>
      LET written == GS!AllOf(user[u].writes)
          due == GS!AllOf(Due(u))
          told == GS!AllOf(OnItsWay(u))
      IN /\ user[u].init = db.ed[u] + written.ed - due.ed - told.ed
         /\ \A i \in Items :
              user[u].heldInit[i]
                = db.held[u][i] + written.held[i] - due.held[i] - told.held[i]

\* A purchase whose write is under way gets its answer, and the client may ask
\* again, or its buyer finds itself out of the shop (the filter of
\* EGS_BUY_PERSONAL_SHOP_ITEM_REQ, whose answer may come from four places).
\* Not so of every filter: a write that returns while the buyer is in no shop
\* leaves the filter set, even if the buyer joins a shop again.
BuyerIsAnswered ==
  \A u \in Units :
    (user[u].filter /\ \E w \in Range(user[u].writes) : w.buy)
      ~> (~user[u].filter \/ ~user[u].shopping)

=============================================================================
