----------------------------- MODULE PersonalShop -----------------------------
(***************************************************************************)
(* One personal shop of the center server: KPersonalShop, the members it   *)
(* keeps (KPersonalShopUserManager) and its state machine                  *)
(* (KPersonalShopFSM).  A seller opens it, lists goods, buyers join and    *)
(* buy; a purchase goes to the seller's game server for a check of the     *)
(* inventory and then to the game DB, whose answer comes back to the room. *)
(*                                                                         *)
(* As in TradeRoom, all events are drained from one queue by one thread,   *)
(* so a handler is one action, and Spec lets any unit and the DB send any  *)
(* event at any time: what holds here holds whatever game servers, clients *)
(* and the DB do.  Prices are a constant of the item and commissions,      *)
(* which only change the amounts, are left out, as are nicknames, the      *)
(* shop's name, the trade board's copy of the list and the update notices  *)
(* for the clients' windows.                                               *)
(***************************************************************************)
EXTENDS Integers, Sequences, FiniteSets, Functions

CONSTANTS
  Units,        \* unit UIDs (characters) whose events can reach the room
  Servers,      \* game server UIDs
  Items,        \* item UIDs
  Stackable,    \* the items sold by quantity (PT_QUANTITY); others are single
  Quantities,   \* quantities a client may ask for or list
  Price,        \* Price[i]: what one piece of i costs
  EDs,          \* amounts of ED a buyer's game server may report
  MaxGoods,     \* how many kinds a shop may sell, by its type: 3, premium 9
  MaxUser,      \* KPersonalShopUserManager's m_dwMaxUser, 8 in the code
  MaxLeft       \* bound: up to which a refusal may raise a quantity

ASSUME UnitsAssumption == IsFiniteSet(Units)
ASSUME ItemsAssumption == Stackable \subseteq Items
ASSUME AmountAssumption == /\ Quantities \subseteq Nat \ {0}
                           /\ Price \in [Items -> Nat] /\ EDs \subseteq Int
                           /\ MaxGoods \subseteq Nat /\ MaxUser \in Nat \ {0}
                           /\ MaxLeft \in Nat

VARIABLES
  fsm,        \* the state of KPersonalShopFSM
  users,      \* m_mapPersonalShopUser: the members, a function on their units
  goods,      \* m_vecSellItemInfo: the quantity left of each listed item
  waitOver,   \* m_kTimer[TM_WAIT_OTHER] has reached 30 minutes
  listed,     \* ghost: the quantities this opening's seller listed
  promised,   \* ghost: the quantities this opening has sent to the DB, less
              \*   those the handler of a refusal has put back on the list
  sent,       \* what the last step sent, a sequence per destination unit
  sentDB      \* the purchases the last step sent to the game DB (0 or 1)

ghosts == <<listed, promised>>
vars == <<fsm, users, goods, waitOver, ghosts, sent, sentDB>>

FsmStates == {"INIT", "CLOSE", "WAIT", "SHOP"}

\* KDBE_BUY_PERSONAL_SHOP_ITEM_COMPLETE_REQ, but for the ED (Price says it).
Purchase == [seller : Units, buyer : Units, item : Items, quantity : Quantities]

\* KInventoryItemInfo of an answer nobody filled in: its item UID is whatever
\* the memory held, its quantity is KItemInfo's default.
Unfilled == [item : Items, quantity : {1}] \cup {[item |-> 0, quantity |-> 1]}

Nobody == [u \in {} |-> u]
Nothing == [i \in {} |-> i]

-----------------------------------------------------------------------------
(* The members.                                                            *)

\* Definitions named X_bug are plausible bugs of X.  No specification uses
\* them: each shows that some property would notice it.

Members == DOMAIN users
NumMember == Cardinality(Members)
IsHost(u) == u \in Members /\ users[u].host
Hosts == {u \in Members : users[u].host}

\* EnterPersonalShop: the first one in is the host.
CanEnter(u) == NumMember < MaxUser /\ u \notin Members
Entered(us, u, gs) ==
  [v \in DOMAIN us \cup {u} |->
     IF v = u THEN [gs |-> gs, host |-> DOMAIN us = {}] ELSE us[v]]
Without(us, leavers) == [v \in DOMAIN us \ leavers |-> us[v]]

-----------------------------------------------------------------------------
(* What a step sends.                                                      *)

Silence == [v \in Units |-> <<>>]
To(u, m) == [v \in Units |-> IF v = u THEN <<m>> ELSE <<>>]
Broadcast(us, m) == [v \in Units |-> IF v \in DOMAIN us THEN <<m>> ELSE <<>>]
Then(first, second) == [v \in Units |-> first[v] \o second[v]]

Ack(type, ok) == [type |-> type, ok |-> ok]
BreakNot == [type |-> "BREAK_NOT"]
ConfirmReq(buyer, i, quantity) ==
  [type |-> "CONFIRM_REQ", buyer |-> buyer, item |-> i, left |-> goods[i],
   quantity |-> quantity]
CompleteNot(p) == [type |-> "COMPLETE_NOT", purchase |-> p]

-----------------------------------------------------------------------------
(* The state machine.                                                      *)

StateTransition_bug(s, input) ==    \* closing only stops the sale
  CASE s = "INIT" /\ input = "TO_WAIT" -> "WAIT"
    [] s = "WAIT" /\ input = "TO_SHOP" -> "SHOP"
    [] s \in {"WAIT", "SHOP"} /\ input = "TO_CLOSE" -> "STOP_SALE"
    [] OTHER -> s

\* FSMstate::GetOutput: an input the state does not define changes nothing.
StateTransition(s, input) ==
  CASE s = "INIT" /\ input = "TO_WAIT" -> "WAIT"
    [] s = "CLOSE" /\ input = "TO_INIT" -> "INIT"
    [] s = "WAIT" /\ input = "TO_SHOP" -> "SHOP"
    [] s \in {"WAIT", "SHOP"} /\ input = "TO_CLOSE" -> "CLOSE"
    [] OTHER -> s

\* A handler that changes nothing but the members, and answers.
Reply(us, notices) ==
  /\ users' = us
  /\ sent' = notices
  /\ sentDB' = {}
  /\ UNCHANGED <<fsm, goods, waitOver, ghosts>>

Refuse(u, type) == Reply(users, To(u, Ack(type, FALSE)))
Ignore == Reply(users, Silence)

\* BreakPersonalShop: tell whoever is still in, and close.  Members and goods
\* stay until the next Tick.
BreakPersonalShop(us, before) ==
  /\ users' = us
  /\ fsm' = StateTransition(fsm, "TO_CLOSE")
  /\ sent' = Then(before, Broadcast(us, BreakNot))
  /\ sentDB' = {}
  /\ UNCHANGED <<waitOver, ghosts>>

Init ==
  /\ fsm = "INIT" /\ users = Nobody /\ goods = Nothing /\ waitOver = FALSE
  /\ listed = Nothing /\ promised = [i \in Items |-> 0]
  /\ sent = Silence /\ sentDB = {}

-----------------------------------------------------------------------------
(* Opening the shop and listing the goods.                                 *)

\* ERM_OPEN_PERSONAL_SHOP_REQ; rich: the unit can pay for the opening.
OpenReq(u, gs, rich) ==
  \/ /\ fsm # "INIT"
     /\ Refuse(u, "OPEN_ACK")
  \/ /\ fsm = "INIT"
     /\ waitOver' = FALSE
     /\ users' = IF rich THEN Entered(Nobody, u, gs) ELSE Nobody
     /\ fsm' = IF rich THEN StateTransition(fsm, "TO_WAIT")
               ELSE StateTransition(StateTransition(fsm, "TO_WAIT"), "TO_CLOSE")
     /\ sent' = To(u, Ack("OPEN_ACK", rich))
     /\ sentDB' = {}
     /\ UNCHANGED <<goods, ghosts>>

\* ERM_REG_PERSONAL_SHOP_ITEM_REQ; sound: every price is within the limits.
\* A stranger's request is answered twice.  A shop that has goods already
\* refuses the list and sells what it has.
MayList(u) == fsm = "WAIT" /\ IsHost(u)

RegReq(u, list, sound) ==
  \/ /\ fsm # "WAIT" \/ (MayList(u) /\ ~sound)
     /\ Refuse(u, "REG_ACK")
  \/ /\ fsm = "WAIT" /\ ~IsHost(u)
     /\ LET no == To(u, Ack("REG_ACK", FALSE)) IN Reply(users, Then(no, no))
  \/ /\ MayList(u) /\ sound /\ (DOMAIN goods # {} \/ \E max \in MaxGoods : Cardinality(DOMAIN list) > max)
     /\ fsm' = IF DOMAIN goods # {} THEN StateTransition(fsm, "TO_SHOP") ELSE fsm
     /\ sent' = To(u, Ack("REG_ACK", FALSE)) /\ sentDB' = {}
     /\ UNCHANGED <<users, goods, waitOver, ghosts>>
  \/ /\ MayList(u) /\ sound /\ DOMAIN goods = {}
     /\ \E max \in MaxGoods : Cardinality(DOMAIN list) <= max
     /\ fsm' = StateTransition(fsm, "TO_SHOP")
     /\ goods' = list
     /\ listed' = list /\ promised' = [i \in Items |-> 0]
     /\ sent' = To(u, Ack("REG_ACK", TRUE)) /\ sentDB' = {}
     /\ UNCHANGED <<users, waitOver>>

-----------------------------------------------------------------------------
(* Coming and going.                                                       *)

\* ERM_JOIN_PERSONAL_SHOP_REQ; near: u is of the host's server group.
MayJoin(u, near) == fsm = "SHOP" /\ Hosts # {} /\ near /\ CanEnter(u)

JoinReq(u, gs, near) ==
  \/ ~MayJoin(u, near) /\ Refuse(u, "JOIN_ACK")
  \/ MayJoin(u, near) /\ Reply(Entered(users, u, gs), To(u, Ack("JOIN_ACK", TRUE)))

\* ERM_BREAK_PERSONAL_SHOP_REQ: a unit goes; quietly: it is logging out and
\* wants no answer.  With the host the shop ends.
BreakReq_bug(u, quietly) ==    \* looks for the host when it is gone already
  LET answer == IF quietly THEN Silence ELSE To(u, Ack("BREAK_ACK", TRUE))
  IN \/ fsm \notin {"WAIT", "SHOP"} /\ Refuse(u, "BREAK_ACK")
     \/ fsm \in {"WAIT", "SHOP"} /\ Reply(Without(users, {u}), answer)

BreakReq(u, quietly) ==
  LET answer == IF quietly THEN Silence ELSE To(u, Ack("BREAK_ACK", TRUE))
  IN \/ /\ fsm \notin {"WAIT", "SHOP"}
        /\ Refuse(u, "BREAK_ACK")
     \/ /\ fsm \in {"WAIT", "SHOP"} /\ ~IsHost(u)
        /\ Reply(Without(users, {u}), answer)
     \/ /\ fsm \in {"WAIT", "SHOP"} /\ IsHost(u)
        /\ BreakPersonalShop(Without(users, {u}), answer)
        /\ UNCHANGED goods

\* ERM_LEAVE_PERSONAL_SHOP_REQ
LeaveReq(u) ==
  \/ /\ fsm # "SHOP"
     /\ Refuse(u, "LEAVE_ACK")
  \/ /\ fsm = "SHOP" /\ IsHost(u)
     /\ BreakPersonalShop(users, Silence)
     /\ UNCHANGED goods
  \/ /\ fsm = "SHOP" /\ ~IsHost(u)    \* the last one out closes the shop
     /\ users' = Without(users, {u})
     /\ fsm' = IF DOMAIN users' = {} THEN StateTransition(fsm, "TO_CLOSE") ELSE fsm
     /\ sent' = To(u, Ack("LEAVE_ACK", TRUE)) /\ sentDB' = {}
     /\ UNCHANGED <<goods, waitOver, ghosts>>

\* ERM_CHECK_INVALID_USER_NOT: game server gs has died.  The members it
\* served are taken out one after the other; at the host the loop ends, so
\* those behind it in the map's order stay (earlier: those before it).
CheckInvalidUser(gs) ==
  LET lost == {u \in Members : users[u].gs = gs}
  IN \/ lost = {} /\ Ignore
     \/ /\ lost # {} /\ lost \cap Hosts = {}
        /\ Reply(Without(users, lost), Silence)
     \/ /\ lost \cap Hosts # {}
        /\ \E earlier \in SUBSET (lost \ Hosts) :
             BreakPersonalShop(Without(users, earlier), Silence)
        /\ UNCHANGED goods

-----------------------------------------------------------------------------
(* Buying.                                                                 *)

\* ERM_BUY_PERSONAL_SHOP_ITEM_REQ: is it listed, is enough left, can the
\* buyer pay by the ED its game server reported?  Then the seller's game
\* server is asked whether the goods are in the inventory.  The room notes
\* nothing about a purchase it has only asked about.  sound: the item may be
\* traded, the buyer's game server names that one item, the price is in range.
CanBuy(u, i, quantity, ed) ==
  /\ fsm = "SHOP" /\ i \in DOMAIN goods
  /\ quantity <= goods[i]
  /\ Price[i] * quantity <= ed
  /\ u \in Members /\ Hosts # {}

BuyReq(u, i, quantity, ed, sound) ==
  \/ ~(sound /\ CanBuy(u, i, quantity, ed)) /\ Refuse(u, "BUY_ACK")
  \/ /\ sound /\ CanBuy(u, i, quantity, ed)
     /\ \E host \in Hosts : Reply(users, To(host, ConfirmReq(u, i, quantity)))

\* ERM_CONFIRM_BUY_PERSONAL_SHOP_ITEM_ACK, from unit u (the seller): ok: the
\* goods are there.  In a shop that is not selling, u and not the buyer gets
\* the refusal; a buyer that is gone gets none.  What is left may have shrunk
\* since the request and is checked again; a sale is acknowledged twice.
EnoughLeft_bug(i, quantity) == i \in DOMAIN goods
EnoughLeft(i, quantity) == i \in DOMAIN goods /\ quantity <= goods[i]
Pieces(i, quantity) == IF i \in Stackable THEN quantity ELSE 1

ConfirmAck(u, buyer, i, quantity, ok) ==
  LET sellable == ok /\ Hosts # {} /\ EnoughLeft(i, quantity)
      pieces == Pieces(i, quantity)
      left == goods[i] - pieces
      yes == To(buyer, Ack("BUY_ACK", TRUE))
  IN \/ fsm # "SHOP" /\ Refuse(u, "BUY_ACK")
     \/ fsm = "SHOP" /\ buyer \notin Members /\ Ignore
     \/ /\ fsm = "SHOP" /\ buyer \in Members /\ ~sellable
        /\ Refuse(buyer, "BUY_ACK")
     \/ /\ fsm = "SHOP" /\ buyer \in Members /\ sellable
        /\ goods' = [goods EXCEPT ![i] = IF left <= 0 THEN 0 ELSE left]
        /\ promised' = [promised EXCEPT ![i] = @ + pieces]
        /\ sent' = Then(yes, yes)
        /\ \E host \in Hosts :
             sentDB' = {[seller |-> host, buyer |-> buyer, item |-> i, quantity |-> pieces]}
        /\ UNCHANGED <<fsm, users, waitOver, listed>>

\* DBE_BUY_PERSONAL_SHOP_ITEM_COMPLETE_ACK of a purchase made: an item of
\* which nothing is left goes off the list, and the shop closes when that was
\* the last one; told: the messages of the sale itself, sent in any case.
SoldOut(i) == i \notin Stackable \/ goods[i] = 0

GoesOffList(i) == i \in DOMAIN goods /\ SoldOut(i)

Settle_bug(i, told) ==    \* the shop stays open with nothing to sell
  \/ ~GoesOffList(i) /\ Reply(users, told)
  \/ /\ GoesOffList(i)
     /\ goods' = [j \in DOMAIN goods \ {i} |-> goods[j]]
     /\ sent' = told /\ sentDB' = {}
     /\ UNCHANGED <<fsm, users, waitOver, ghosts>>

Settle(i, told) ==
  \/ /\ ~GoesOffList(i)
     /\ Reply(users, told)
  \/ /\ GoesOffList(i) /\ DOMAIN goods # {i}
     /\ goods' = [j \in DOMAIN goods \ {i} |-> goods[j]]
     /\ sent' = told /\ sentDB' = {}
     /\ UNCHANGED <<fsm, users, waitOver, ghosts>>
  \/ /\ GoesOffList(i) /\ DOMAIN goods = {i}
     /\ goods' = Nothing
     /\ users' = users
     /\ fsm' = StateTransition(fsm, "TO_CLOSE")
     /\ sent' = Then(Broadcast(users, BreakNot), told) /\ sentDB' = {}
     /\ UNCHANGED <<waitOver, ghosts>>

DBDone(p) ==
  Settle(p.item, Then(To(p.seller, CompleteNot(p)), To(p.buyer, CompleteNot(p))))

\* The query itself failed: answered as a success that nobody filled in, so
\* the messages of the sale go to unit 0.
DBUnfilled(r) == Settle(r.item, Silence)

\* The procedure refused: the handler means to put the quantity back, but
\* the DB thread has left the answer unfilled.
DBRefused(r) ==
  LET put(f, quantity) == IF r.item \in DOMAIN goods THEN [f EXCEPT ![r.item] = @ + quantity]
                          ELSE f
  IN /\ r.item \in DOMAIN goods => goods[r.item] < MaxLeft
     /\ goods' = put(goods, r.quantity)
     /\ promised' = put(promised, -r.quantity)
     /\ sent' = Silence /\ sentDB' = {}
     /\ UNCHANGED <<fsm, users, waitOver, listed>>

-----------------------------------------------------------------------------
(* The manager's tick.                                                     *)

\* In S_CLOSE: empty the room and give its UID back.
CloseRoom_bug ==    \* the list stays
  /\ fsm = "CLOSE"
  /\ users' = Nobody
  /\ fsm' = StateTransition(fsm, "TO_INIT")
  /\ listed' = Nothing /\ promised' = [i \in Items |-> 0]
  /\ sent' = Silence /\ sentDB' = {}
  /\ UNCHANGED <<goods, waitOver>>

CloseRoom ==
  /\ fsm = "CLOSE"
  /\ users' = Nobody /\ goods' = Nothing
  /\ fsm' = StateTransition(fsm, "TO_INIT")
  /\ listed' = Nothing /\ promised' = [i \in Items |-> 0]
  /\ sent' = Silence /\ sentDB' = {}
  /\ UNCHANGED waitOver

GiveUpWaiting_bug ==    \* only of an empty room
  /\ fsm = "WAIT" /\ NumMember = 0 /\ waitOver
  /\ BreakPersonalShop(users, Silence)
  /\ UNCHANGED goods

\* In S_WAIT: no goods were listed within 30 minutes.
GiveUpWaiting ==
  /\ fsm = "WAIT" /\ NumMember <= 1 /\ waitOver
  /\ BreakPersonalShop(users, Silence)
  /\ UNCHANGED goods

Tick == CloseRoom \/ GiveUpWaiting

WaitTimeout ==
  /\ ~waitOver
  /\ waitOver' = TRUE
  /\ sent' = Silence /\ sentDB' = {}
  /\ UNCHANGED <<fsm, users, goods, ghosts>>

-----------------------------------------------------------------------------
\* A game server lists at least one item, and a single item as one piece
\* (EGS_REG_PERSONAL_SHOP_ITEM_REQ).  Lists that name an item twice, which
\* neither server refuses, are left out.
Lists == {list \in UNION {[some -> Quantities] : some \in (SUBSET Items) \ {{}}} :
            \A i \in DOMAIN list : i \notin Stackable => list[i] = 1}

Request(u) ==
  \/ \E gs \in Servers : \/ \E rich \in BOOLEAN : OpenReq(u, gs, rich)
                          \/ \E near \in BOOLEAN : JoinReq(u, gs, near)
  \/ \E list \in Lists, sound \in BOOLEAN : RegReq(u, list, sound)
  \/ \E quietly \in BOOLEAN : BreakReq(u, quietly)
  \/ LeaveReq(u)
  \/ \E i \in Items, quantity \in Quantities :
        \/ \E ed \in EDs, sound \in BOOLEAN : BuyReq(u, i, quantity, ed, sound)
        \/ \E buyer \in Units, ok \in BOOLEAN : ConfirmAck(u, buyer, i, quantity, ok)

DBAnswer ==
  \/ \E p \in Purchase : DBDone(p)
  \/ \E r \in Unfilled : DBUnfilled(r) \/ DBRefused(r)

Next ==
  \/ \E u \in Units : Request(u)
  \/ \E gs \in Servers : CheckInvalidUser(gs)
  \/ DBAnswer
  \/ Tick
  \/ WaitTimeout

Spec == Init /\ [][Next]_vars

\* The manager's thread ticks every room without end and the clock runs on;
\* no client, game server or DB owes the room anything.
FairSpec == Spec /\ WF_vars(Tick) /\ WF_vars(WaitTimeout)

-----------------------------------------------------------------------------
(* Properties.                                                             *)

Message ==
  [type : {"OPEN_ACK", "REG_ACK", "JOIN_ACK", "BREAK_ACK", "LEAVE_ACK", "BUY_ACK"},
   ok : BOOLEAN]
    \cup [type : {"BREAK_NOT"}]
    \cup [type : {"CONFIRM_REQ"}, buyer : Units, item : Items, left : Nat,
          quantity : Quantities]
    \cup [type : {"COMPLETE_NOT"}, purchase : Purchase]

\* Every variable has its type.
TypeOK ==
  /\ fsm \in FsmStates
  /\ Members \in SUBSET Units
  /\ users \in [Members -> [gs : Servers, host : BOOLEAN]]
  /\ DOMAIN goods \in SUBSET Items
  /\ goods \in [DOMAIN goods -> Nat]
  /\ waitOver \in BOOLEAN
  /\ DOMAIN listed \in SUBSET Items
  /\ listed \in [DOMAIN listed -> Nat]
  /\ promised \in [Items -> Int]
  /\ sent \in [Units -> Seq(Message)]
  /\ sentDB \in SUBSET [seller : Units, buyer : Units, item : Items, quantity : Nat]

\* However many buyers ask at once, and in whatever order the seller's
\* confirmations come, what an opening has sent to the DB and what it still
\* offers is never more than its seller listed and refusals have put back.
NeverOversold ==
  \A i \in Items :
    promised[i] + (IF i \in DOMAIN goods THEN goods[i] ELSE 0)
      <= IF i \in DOMAIN listed THEN listed[i] ELSE 0

\* A shop that is being set up or sells has exactly one owner in it, whoever
\* else has left, logged out or was lost with a game server.
OneSeller ==
  fsm \in {"WAIT", "SHOP"} => \E u \in Members : Hosts = {u}

\* A shop sells exactly while it has something on its list: nothing listed
\* in an earlier opening is left in a shop that is being set up (so RegReq
\* never finds goods it did not list), and one that has sold all closes,
\* although late answers of the DB reach the room in any state.
SellsWhileListed ==
  /\ fsm \in {"INIT", "WAIT"} => DOMAIN goods = {}
  /\ fsm = "SHOP" => DOMAIN goods # {}

\* A shop in which nothing gets listed, and one that is closed, become free
\* for another seller.
IdleShopIsReleased == fsm \in {"WAIT", "CLOSE"} ~> fsm \in {"INIT", "SHOP"}

=============================================================================
