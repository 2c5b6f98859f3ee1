-------------------------- MODULE PersonalShopProofs --------------------------
(***************************************************************************)
(* The shop's type invariant, its one seller, its list and the quantities  *)
(* it promises, for any units, servers, items, quantities and limits, and  *)
(* whatever the other processes send in whatever order.                    *)
(***************************************************************************)
EXTENDS PersonalShop, TLAPS

Mail == [Units -> Seq(Message)]
Room(us) == /\ DOMAIN us \in SUBSET Units
            /\ us \in [DOMAIN us -> [gs : Servers, host : BOOLEAN]]
Listing(gs) == /\ DOMAIN gs \in SUBSET Items
             /\ gs \in [DOMAIN gs -> Nat]
Orders == SUBSET [seller : Units, buyer : Units, item : Items, quantity : Nat]
OneHost(us) == \E u \in DOMAIN us : {v \in DOMAIN us : us[v].host} = {u}

-----------------------------------------------------------------------------
(* What the helpers return.                                                *)

\* What a step sends is a sequence of messages per unit, of any kind.
LEMMA MailOf ==
  ASSUME NEW M
  PROVE  /\ Silence \in [Units -> Seq(M)]
         /\ \A u \in Units, m \in M : To(u, m) \in [Units -> Seq(M)]
         /\ \A us : \A m \in M : Broadcast(us, m) \in [Units -> Seq(M)]
         /\ \A f, g \in [Units -> Seq(M)] : Then(f, g) \in [Units -> Seq(M)]
<1>1. Silence \in [Units -> Seq(M)]
  BY DEF Silence
<1>2. ASSUME NEW u \in Units, NEW m \in M PROVE To(u, m) \in [Units -> Seq(M)]
  BY DEF To
<1>3. ASSUME NEW us, NEW m \in M PROVE Broadcast(us, m) \in [Units -> Seq(M)]
  BY DEF Broadcast
<1>4. ASSUME NEW f \in [Units -> Seq(M)], NEW g \in [Units -> Seq(M)]
      PROVE  Then(f, g) \in [Units -> Seq(M)]
  BY DEF Then
<1> QED BY <1>1, <1>2, <1>3, <1>4

LEMMA MailTypes ==
  /\ Silence \in Mail
  /\ \A u \in Units, m \in Message : To(u, m) \in Mail
  /\ \A us : \A m \in Message : Broadcast(us, m) \in Mail
  /\ \A f, g \in Mail : Then(f, g) \in Mail
BY MailOf DEF Mail

\* The messages are messages.
LEMMA MessageTypes ==
  /\ \A ok \in BOOLEAN : /\ Ack("OPEN_ACK", ok) \in Message
                         /\ Ack("REG_ACK", ok) \in Message
                         /\ Ack("JOIN_ACK", ok) \in Message
                         /\ Ack("BREAK_ACK", ok) \in Message
                         /\ Ack("LEAVE_ACK", ok) \in Message
                         /\ Ack("BUY_ACK", ok) \in Message
  /\ BreakNot \in Message
  /\ \A p \in Purchase : CompleteNot(p) \in Message
BY DEF Ack, BreakNot, CompleteNot, Message

LEMMA ConfirmType ==
  ASSUME NEW buyer \in Units, NEW i \in Items, NEW quantity \in Quantities,
         goods[i] \in Nat
  PROVE  ConfirmReq(buyer, i, quantity) \in Message
BY DEF ConfirmReq, Message

\* The state machine stays in its states, and does what its inputs say.
LEMMA Transitions ==
  /\ \A s \in FsmStates : \A input : StateTransition(s, input) \in FsmStates
  /\ \A s \in FsmStates : /\ s \in {"WAIT", "SHOP"} => StateTransition(s, "TO_CLOSE") = "CLOSE"
                          /\ s \notin {"WAIT", "SHOP"} => StateTransition(s, "TO_CLOSE") = s
  /\ StateTransition("INIT", "TO_WAIT") = "WAIT"
  /\ StateTransition("WAIT", "TO_SHOP") = "SHOP"
  /\ StateTransition("CLOSE", "TO_INIT") = "INIT"
BY DEF StateTransition, FsmStates

\* Entering and leaving.
LEMMA RoomTypes ==
  /\ Room(Nobody)
  /\ \A us : \A u \in Units, gs \in Servers : Room(us) => Room(Entered(us, u, gs))
  /\ \A us, leavers : Room(us) => Room(Without(us, leavers))
<1>1. Room(Nobody)
  BY DEF Room, Nobody
<1>2. ASSUME NEW us, NEW u \in Units, NEW gs \in Servers, Room(us)
      PROVE  Room(Entered(us, u, gs))
  BY <1>2 DEF Room, Entered
<1>3. ASSUME NEW us, NEW leavers, Room(us) PROVE Room(Without(us, leavers))
  BY <1>3 DEF Room, Without
<1> QED BY <1>1, <1>2, <1>3

\* The first one in is the host, later ones are not, and leavers that are not
\* the host leave the host alone.
LEMMA HostStays ==
  /\ \A u, gs : OneHost(Entered(Nobody, u, gs))
  /\ \A us, u, gs : OneHost(us) /\ u \notin DOMAIN us => OneHost(Entered(us, u, gs))
  /\ \A us, leavers :
       OneHost(us) /\ (\A v \in DOMAIN us \cap leavers : ~us[v].host)
         => OneHost(Without(us, leavers))
<1>1. ASSUME NEW u, NEW gs PROVE OneHost(Entered(Nobody, u, gs))
  BY ZenonT(60) DEF OneHost, Entered, Nobody
<1>2. ASSUME NEW us, NEW u, NEW gs, OneHost(us), u \notin DOMAIN us
      PROVE  OneHost(Entered(us, u, gs))
  <2>1. PICK h \in DOMAIN us : {v \in DOMAIN us : us[v].host} = {h}
    BY <1>2 DEF OneHost
  <2> DEFINE new == Entered(us, u, gs)
  <2>2. /\ DOMAIN new = DOMAIN us \cup {u}
        /\ new[u].host = (DOMAIN us = {})
        /\ \A v \in DOMAIN us : new[v] = us[v]
    BY <1>2 DEF Entered
  <2>3. \A v \in DOMAIN new : new[v].host <=> v = h
    BY <2>1, <2>2, <1>2
  <2> QED BY <2>1, <2>2, <2>3 DEF OneHost
<1>3. ASSUME NEW us, NEW leavers, OneHost(us), \A v \in DOMAIN us \cap leavers : ~us[v].host
      PROVE  OneHost(Without(us, leavers))
  <2>1. PICK h \in DOMAIN us : {v \in DOMAIN us : us[v].host} = {h}
    BY <1>3 DEF OneHost
  <2>2. h \notin leavers
    BY <2>1, <1>3
  <2>3. {v \in DOMAIN Without(us, leavers) : Without(us, leavers)[v].host} = {h}
    BY <2>1, <2>2 DEF Without
  <2> QED BY <2>2, <2>3, <2>1 DEF OneHost, Without
<1> QED BY <1>1, <1>2, <1>3

-----------------------------------------------------------------------------
(* The inductive invariant: OneSeller and SellsWhileListed are inductive   *)
(* with the types, which say that the members come with a game server and  *)
(* a host flag and that the list holds natural numbers.                    *)

Safe ==
  /\ fsm \in FsmStates /\ waitOver \in BOOLEAN
  /\ Room(users) /\ Listing(goods)
  /\ Listing(listed) /\ promised \in [Items -> Int]
  /\ sent \in Mail /\ sentDB \in Orders
  /\ fsm \in {"WAIT", "SHOP"} => OneHost(users)
  /\ SellsWhileListed

LEMMA SafeInit == Init => Safe
<1>1. Listing(Nothing)
  BY DEF Listing, Nothing
<1>2. DOMAIN Nothing = {}
  BY DEF Nothing
<1>3. Silence \in Mail /\ Room(Nobody)
  BY MailTypes, RoomTypes
<1>4. {} \in Orders
  BY DEF Orders
<1> SUFFICES ASSUME Init PROVE Safe
  OBVIOUS
<1>5. promised \in [Items -> Int] /\ waitOver \in BOOLEAN /\ fsm \in FsmStates
  <2>1. promised = [i \in Items |-> 0]
    BY DEF Init
  <2>2. promised \in [Items -> Int]
    BY <2>1
  <2> QED BY <2>2 DEF Init, FsmStates
<1>6. Listing(goods) /\ Listing(listed) /\ Room(users) /\ sent \in Mail /\ sentDB \in Orders
  BY <1>1, <1>3, <1>4 DEF Init
<1>7. fsm = "INIT" /\ DOMAIN goods = {}
  BY <1>2 DEF Init
<1> QED BY <1>5, <1>6, <1>7 DEF Safe, SellsWhileListed

\* A handler that only answers and changes the members.
LEMMA ReplyKeepsSafe ==
  ASSUME Safe, NEW us, Room(us), NEW notices \in Mail, Reply(us, notices),
         fsm \in {"WAIT", "SHOP"} => OneHost(us)
  PROVE  Safe'
BY DEF Safe, Reply, ghosts, SellsWhileListed, Orders

\* Closing the shop, with whoever is still in it.
LEMMA BreakKeepsSafe ==
  ASSUME Safe, NEW us, Room(us), NEW before \in Mail, BreakPersonalShop(us, before),
         UNCHANGED goods, fsm \in {"WAIT", "SHOP"}
  PROVE  Safe'
<1>1. fsm' = "CLOSE"
  BY Transitions DEF BreakPersonalShop, Safe
<1>2. sent' \in Mail
  BY MailTypes, MessageTypes DEF BreakPersonalShop
<1> QED BY <1>1, <1>2 DEF Safe, BreakPersonalShop, ghosts, SellsWhileListed, FsmStates, Orders

LEMMA RefuseKeepsSafe ==
  ASSUME Safe, NEW u \in Units,
         NEW type \in {"OPEN_ACK", "REG_ACK", "JOIN_ACK", "BREAK_ACK", "LEAVE_ACK", "BUY_ACK"},
         Refuse(u, type)
  PROVE  Safe'
<1>1. To(u, Ack(type, FALSE)) \in Mail
  BY MailTypes, MessageTypes
<1> QED BY <1>1, ReplyKeepsSafe DEF Refuse, Safe

LEMMA OpenStep ==
  ASSUME Safe, NEW u \in Units, NEW gs \in Servers, NEW rich \in BOOLEAN, OpenReq(u, gs, rich)
  PROVE  Safe'
<1>1. CASE Refuse(u, "OPEN_ACK")
  BY <1>1, RefuseKeepsSafe
<1>2. CASE fsm = "INIT" /\ users' = (IF rich THEN Entered(Nobody, u, gs) ELSE Nobody)
  <2>0. /\ waitOver' = FALSE /\ sentDB' = {} /\ UNCHANGED <<goods, ghosts>>
        /\ fsm' = IF rich THEN StateTransition(fsm, "TO_WAIT")
                  ELSE StateTransition(StateTransition(fsm, "TO_WAIT"), "TO_CLOSE")
        /\ sent' = To(u, Ack("OPEN_ACK", rich))
    BY <1>2 DEF OpenReq
  <2>1. Room(users')
    BY <1>2, RoomTypes
  <2>2. sent' \in Mail
    BY <2>0, MailTypes, MessageTypes
  <2>3. /\ rich => fsm' = "WAIT" /\ OneHost(users')
        /\ ~rich => fsm' = "CLOSE"
    BY <1>2, <2>0, Transitions, HostStays DEF FsmStates
  <2>4. DOMAIN goods' = {}
    BY <1>2, <2>0 DEF Safe, SellsWhileListed
  <2> QED BY <2>0, <2>1, <2>2, <2>3, <2>4 DEF Safe, ghosts, SellsWhileListed, FsmStates, Orders
<1> QED BY <1>1, <1>2 DEF OpenReq

LEMMA ListStep ==
  ASSUME Safe, NEW u \in Units, NEW list \in Lists, NEW sound \in BOOLEAN, RegReq(u, list, sound)
  PROVE  Safe'
<1>0. /\ To(u, Ack("REG_ACK", FALSE)) \in Mail
      /\ To(u, Ack("REG_ACK", TRUE)) \in Mail
  BY MailTypes, MessageTypes
<1>1. CASE Refuse(u, "REG_ACK")
  BY <1>1, RefuseKeepsSafe
<1>2. CASE Reply(users, Then(To(u, Ack("REG_ACK", FALSE)), To(u, Ack("REG_ACK", FALSE))))
  BY <1>0, <1>2, MailTypes, ReplyKeepsSafe DEF Safe
<1>3. CASE /\ MayList(u) /\ sound /\ (DOMAIN goods # {} \/ \E max \in MaxGoods : Cardinality(DOMAIN list) > max)
           /\ fsm' = IF DOMAIN goods # {} THEN StateTransition(fsm, "TO_SHOP") ELSE fsm
           /\ sent' = To(u, Ack("REG_ACK", FALSE)) /\ sentDB' = {}
           /\ UNCHANGED <<users, goods, waitOver, ghosts>>
  <2>1. fsm = "WAIT" /\ DOMAIN goods = {}
    BY <1>3 DEF MayList, Safe, SellsWhileListed
  <2> QED BY <2>1, <1>3, <1>0 DEF Safe, ghosts, SellsWhileListed, Orders
<1>4. CASE /\ MayList(u)
           /\ fsm' = StateTransition(fsm, "TO_SHOP")
           /\ goods' = list
           /\ listed' = list /\ promised' = [i \in Items |-> 0]
           /\ sent' = To(u, Ack("REG_ACK", TRUE)) /\ sentDB' = {}
           /\ UNCHANGED <<users, waitOver>>
  <2>1. fsm = "WAIT" /\ fsm' = "SHOP"
    BY <1>4, Transitions DEF MayList
  <2>2. Listing(list) /\ DOMAIN list # {}
    BY AmountAssumption DEF Lists, Listing
  <2>3. promised' \in [Items -> Int]
    BY <1>4
  <2> QED BY <2>1, <2>2, <2>3, <1>4, <1>0 DEF Safe, SellsWhileListed, FsmStates, Orders
<1> QED BY <1>1, <1>2, <1>3, <1>4 DEF RegReq

LEMMA JoinStep ==
  ASSUME Safe, NEW u \in Units, NEW gs \in Servers, NEW near \in BOOLEAN,
         JoinReq(u, gs, near)
  PROVE  Safe'
<1>1. CASE Refuse(u, "JOIN_ACK")
  BY <1>1, RefuseKeepsSafe
<1>2. CASE MayJoin(u, near) /\ Reply(Entered(users, u, gs), To(u, Ack("JOIN_ACK", TRUE)))
  <2>1. OneHost(Entered(users, u, gs)) /\ Room(Entered(users, u, gs))
    BY <1>2, HostStays, RoomTypes DEF MayJoin, CanEnter, Members, Safe
  <2>2. To(u, Ack("JOIN_ACK", TRUE)) \in Mail
    BY MailTypes, MessageTypes
  <2> QED BY <1>2, <2>1, <2>2, ReplyKeepsSafe
<1> QED BY <1>1, <1>2 DEF JoinReq

LEMMA BreakStep ==
  ASSUME Safe, NEW u \in Units, NEW quietly \in BOOLEAN, BreakReq(u, quietly)
  PROVE  Safe'
<1> DEFINE answer == IF quietly THEN Silence ELSE To(u, Ack("BREAK_ACK", TRUE))
<1>0. answer \in Mail
  BY MailTypes, MessageTypes
<1>1. Room(Without(users, {u}))
  BY RoomTypes DEF Safe
<1>2. CASE Refuse(u, "BREAK_ACK")
  BY <1>2, RefuseKeepsSafe
<1>3. CASE fsm \in {"WAIT", "SHOP"} /\ ~IsHost(u) /\ Reply(Without(users, {u}), answer)
  <2>1. OneHost(Without(users, {u}))
    BY <1>3, HostStays DEF IsHost, Members, Safe
  <2> QED BY <1>0, <1>1, <1>3, <2>1, ReplyKeepsSafe
<1>4. CASE /\ fsm \in {"WAIT", "SHOP"} /\ BreakPersonalShop(Without(users, {u}), answer)
           /\ UNCHANGED goods
  BY <1>0, <1>1, <1>4, BreakKeepsSafe
<1> QED BY <1>2, <1>3, <1>4 DEF BreakReq

LEMMA LeaveStep ==
  ASSUME Safe, NEW u \in Units, LeaveReq(u)
  PROVE  Safe'
<1>1. CASE Refuse(u, "LEAVE_ACK")
  BY <1>1, RefuseKeepsSafe
<1>2. CASE fsm = "SHOP" /\ BreakPersonalShop(users, Silence) /\ UNCHANGED goods
  BY <1>2, BreakKeepsSafe, MailTypes DEF Safe
<1>3. CASE /\ fsm = "SHOP" /\ ~IsHost(u)
           /\ users' = Without(users, {u})
           /\ fsm' = IF DOMAIN users' = {} THEN StateTransition(fsm, "TO_CLOSE") ELSE fsm
           /\ sent' = To(u, Ack("LEAVE_ACK", TRUE)) /\ sentDB' = {}
           /\ UNCHANGED <<goods, waitOver, ghosts>>
  <2>1. OneHost(users') /\ Room(users')
    BY <1>3, HostStays, RoomTypes DEF IsHost, Members, Safe
  <2>2. fsm' \in {"SHOP", "CLOSE"}
    BY <1>3, Transitions DEF Safe
  <2>3. sent' \in Mail
    BY <1>3, MailTypes, MessageTypes
  <2> QED BY <1>3, <2>1, <2>2, <2>3 DEF Safe, ghosts, SellsWhileListed, FsmStates, Orders
<1> QED BY <1>1, <1>2, <1>3 DEF LeaveReq

LEMMA ServerLossStep ==
  ASSUME Safe, NEW gs \in Servers, CheckInvalidUser(gs)
  PROVE  Safe'
<1> DEFINE lost == {u \in Members : users[u].gs = gs}
<1>1. CASE Ignore
  BY <1>1, ReplyKeepsSafe, MailTypes DEF Ignore, Safe
<1>2. CASE lost \cap Hosts = {} /\ Reply(Without(users, lost), Silence)
  <2>1. \A v \in DOMAIN users \cap lost : ~users[v].host
    BY <1>2 DEF Hosts, Members
  <2>2. fsm \in {"WAIT", "SHOP"} => OneHost(Without(users, lost))
    BY <2>1, HostStays DEF Safe
  <2> QED BY <1>2, <2>2, ReplyKeepsSafe, MailTypes, RoomTypes DEF Safe
<1>3. CASE /\ \E earlier \in SUBSET (lost \ Hosts) :
                BreakPersonalShop(Without(users, earlier), Silence)
           /\ UNCHANGED goods
  <2>1. PICK earlier \in SUBSET (lost \ Hosts) : BreakPersonalShop(Without(users, earlier), Silence)
    BY <1>3
  <2>2. CASE fsm \in {"WAIT", "SHOP"}
    BY <1>3, <2>1, <2>2, BreakKeepsSafe, MailTypes, RoomTypes DEF Safe
  <2>3. CASE fsm \notin {"WAIT", "SHOP"}
    <3>1. fsm' = fsm /\ Room(users') /\ sent' \in Mail
      BY <2>1, <2>3, Transitions, MailTypes, MessageTypes, RoomTypes DEF BreakPersonalShop, Safe
    <3> QED BY <1>3, <2>1, <2>3, <3>1 DEF BreakPersonalShop, Safe, ghosts, SellsWhileListed, Orders
  <2> QED BY <2>2, <2>3
<1> QED BY <1>1, <1>2, <1>3 DEF CheckInvalidUser

LEMMA BuyStep ==
  ASSUME Safe, NEW u \in Units, NEW i \in Items, NEW quantity \in Quantities,
         NEW ed, NEW sound \in BOOLEAN, BuyReq(u, i, quantity, ed, sound)
  PROVE  Safe'
<1>1. CASE Refuse(u, "BUY_ACK")
  BY <1>1, RefuseKeepsSafe
<1>2. CASE CanBuy(u, i, quantity, ed)
           /\ \E host \in Hosts : Reply(users, To(host, ConfirmReq(u, i, quantity)))
  <2>1. PICK host \in Hosts : Reply(users, To(host, ConfirmReq(u, i, quantity)))
    BY <1>2
  <2>2. host \in Units /\ goods[i] \in Nat
    BY <1>2 DEF Hosts, Members, Safe, Room, Listing, CanBuy
  <2>3. To(host, ConfirmReq(u, i, quantity)) \in Mail
    BY <2>2, ConfirmType, MailTypes
  <2> QED BY <2>1, <2>3, ReplyKeepsSafe DEF Safe
<1> QED BY <1>1, <1>2 DEF BuyReq

LEMMA ConfirmStep ==
  ASSUME Safe, NEW u \in Units, NEW buyer \in Units, NEW i \in Items,
         NEW quantity \in Quantities, NEW ok \in BOOLEAN,
         ConfirmAck(u, buyer, i, quantity, ok)
  PROVE  Safe'
<1> DEFINE pieces == Pieces(i, quantity)
           left == goods[i] - pieces
           yes == To(buyer, Ack("BUY_ACK", TRUE))
<1>1. CASE Refuse(u, "BUY_ACK") \/ Refuse(buyer, "BUY_ACK")
  BY <1>1, RefuseKeepsSafe
<1>2. CASE Ignore
  BY <1>2, ReplyKeepsSafe, MailTypes DEF Ignore, Safe
<1>3. CASE /\ EnoughLeft(i, quantity)
           /\ goods' = [goods EXCEPT ![i] = IF left <= 0 THEN 0 ELSE left]
           /\ promised' = [promised EXCEPT ![i] = @ + pieces]
           /\ sent' = Then(yes, yes)
           /\ \E host \in Hosts :
                sentDB' = {[seller |-> host, buyer |-> buyer, item |-> i, quantity |-> pieces]}
           /\ UNCHANGED <<fsm, users, waitOver, listed>>
  <2>1. pieces \in Nat
    BY AmountAssumption DEF Pieces
  <2>2. goods[i] \in Nat /\ i \in DOMAIN goods
    BY <1>3 DEF EnoughLeft, Safe, Listing
  <2>3. Listing(goods') /\ DOMAIN goods' = DOMAIN goods
    BY <1>3, <2>1, <2>2 DEF Safe, Listing
  <2>4. promised' \in [Items -> Int]
    BY <1>3, <2>1 DEF Safe
  <2>5. sent' \in Mail
    BY <1>3, MailTypes, MessageTypes
  <2>6. sentDB' \in Orders
    BY <1>3, <2>1 DEF Hosts, Members, Safe, Room, Orders
  <2> QED BY <1>3, <2>3, <2>4, <2>5, <2>6 DEF Safe, SellsWhileListed
<1> QED BY <1>1, <1>2, <1>3 DEF ConfirmAck

\* Whatever the DB's answer makes of the list.
LEMMA SettleKeepsSafe ==
  ASSUME Safe, NEW i, NEW told \in Mail, Settle(i, told)
  PROVE  Safe'
<1> DEFINE rest == [j \in DOMAIN goods \ {i} |-> goods[j]]
<1>1. Listing(rest) /\ DOMAIN rest = DOMAIN goods \ {i}
  BY DEF Safe, Listing
<1>2. CASE Reply(users, told)
  BY <1>2, ReplyKeepsSafe DEF Safe
<1>3. CASE /\ GoesOffList(i) /\ DOMAIN goods # {i}
           /\ goods' = rest
           /\ sent' = told /\ sentDB' = {}
           /\ UNCHANGED <<fsm, users, waitOver, ghosts>>
  <2>1. DOMAIN goods \ {i} # {}
    BY <1>3 DEF GoesOffList
  <2> QED BY <1>1, <1>3, <2>1 DEF Safe, ghosts, SellsWhileListed, Orders
<1>4. CASE /\ GoesOffList(i) /\ DOMAIN goods = {i}
           /\ goods' = Nothing
           /\ users' = users
           /\ fsm' = StateTransition(fsm, "TO_CLOSE")
           /\ sent' = Then(Broadcast(users, BreakNot), told) /\ sentDB' = {}
           /\ UNCHANGED <<waitOver, ghosts>>
  <2>1. Listing(goods') /\ DOMAIN goods' = {}
    BY <1>4 DEF Listing, Nothing
  <2>2. fsm' \in {"INIT", "CLOSE"}
    BY <1>4, Transitions DEF Safe, SellsWhileListed, FsmStates
  <2>3. sent' \in Mail
    BY <1>4, MailTypes, MessageTypes
  <2> QED BY <1>4, <2>1, <2>2, <2>3 DEF Safe, ghosts, SellsWhileListed, FsmStates, Orders
<1> QED BY <1>2, <1>3, <1>4 DEF Settle

LEMMA DBStep ==
  ASSUME Safe, DBAnswer
  PROVE  Safe'
<1>1. ASSUME NEW p \in Purchase, DBDone(p) PROVE Safe'
  <2>1. Then(To(p.seller, CompleteNot(p)), To(p.buyer, CompleteNot(p))) \in Mail
    BY MailTypes, MessageTypes DEF Purchase
  <2> QED BY <1>1, <2>1, SettleKeepsSafe DEF DBDone
<1>2. ASSUME NEW r \in Unfilled, DBUnfilled(r) PROVE Safe'
  BY <1>2, SettleKeepsSafe, MailTypes DEF DBUnfilled
<1>3. ASSUME NEW r \in Unfilled, DBRefused(r) PROVE Safe'
  <2>1. r.quantity \in Nat
    BY DEF Unfilled
  <2>2. Listing(goods') /\ DOMAIN goods' = DOMAIN goods
    <3>1. CASE r.item \in DOMAIN goods
      <4>1. goods' = [goods EXCEPT ![r.item] = @ + r.quantity]
        BY <1>3, <3>1 DEF DBRefused
      <4> QED BY <2>1, <3>1, <4>1 DEF Safe, Listing
    <3>2. CASE r.item \notin DOMAIN goods
      BY <1>3, <3>2 DEF DBRefused, Safe
    <3> QED BY <3>1, <3>2
  <2>3. promised' \in [Items -> Int]
    <3>1. promised \in [Items -> Int] /\ -r.quantity \in Int
      BY <2>1 DEF Safe
    <3>2. \/ promised' = promised
          \/ promised' = [promised EXCEPT ![r.item] = @ + (-r.quantity)]
      BY <1>3 DEF DBRefused
    <3> QED BY <3>1, <3>2
  <2>4. /\ UNCHANGED <<fsm, users, waitOver, listed>>
        /\ sent' = Silence /\ sentDB' = {}
    BY <1>3 DEF DBRefused
  <2>5. sent' \in Mail /\ sentDB' \in Orders
    BY <2>4, MailTypes DEF Orders
  <2> QED BY <2>2, <2>3, <2>4, <2>5 DEF Safe, SellsWhileListed
<1> QED BY <1>1, <1>2, <1>3 DEF DBAnswer

LEMMA TickStep ==
  ASSUME Safe, Tick \/ WaitTimeout
  PROVE  Safe'
<1>1. CASE CloseRoom
  <2>1. fsm' = "INIT"
    BY <1>1, Transitions DEF CloseRoom
  <2>2. /\ Listing(goods') /\ DOMAIN goods' = {} /\ Listing(listed') /\ Room(users')
        /\ sent' \in Mail /\ sentDB' \in Orders
    BY <1>1, RoomTypes, MailTypes DEF CloseRoom, Listing, Nothing, Orders
  <2> QED BY <1>1, <2>1, <2>2 DEF CloseRoom, Safe, SellsWhileListed, FsmStates
<1>2. CASE GiveUpWaiting
  BY <1>2, BreakKeepsSafe, MailTypes DEF GiveUpWaiting, Safe
<1>3. CASE WaitTimeout
  BY <1>3, MailTypes DEF WaitTimeout, Safe, ghosts, SellsWhileListed, Orders
<1> QED BY <1>1, <1>2, <1>3 DEF Tick

LEMMA SafeStep == Safe /\ [Next]_vars => Safe'
<1> SUFFICES ASSUME Safe, [Next]_vars PROVE Safe'
  OBVIOUS
<1>1. ASSUME NEW u \in Units, Request(u) PROVE Safe'
  BY <1>1, OpenStep, ListStep, JoinStep, BreakStep, LeaveStep, BuyStep, ConfirmStep
     DEF Request
<1>2. ASSUME NEW gs \in Servers, CheckInvalidUser(gs) PROVE Safe'
  BY <1>2, ServerLossStep
<1>3. CASE DBAnswer
  BY <1>3, DBStep
<1>4. CASE Tick \/ WaitTimeout
  BY <1>4, TickStep
<1>5. CASE UNCHANGED vars
  BY <1>5 DEF vars, ghosts, Safe, SellsWhileListed
<1> QED BY <1>1, <1>2, <1>3, <1>4, <1>5 DEF Next

LEMMA AlwaysSafe == Spec => []Safe
BY SafeInit, SafeStep, PTL DEF Spec

-----------------------------------------------------------------------------
(* The theorems.                                                           *)

\* The variables keep their types: the shop's state, the members, the list
\* and whatever KPersonalShop sends.
THEOREM ShopTypes == Spec => []TypeOK
<1>1. Safe => TypeOK
  BY DEF Safe, TypeOK, Room, Listing, Mail, Orders, Members
<1> QED BY <1>1, AlwaysSafe, PTL

\* A shop being set up or selling has one seller (KPersonalShop's host), and
\* only one, whoever leaves and whatever server dies.
THEOREM SellerStays == Spec => []OneSeller
<1>1. Safe => OneSeller
  BY DEF Safe, OneSeller, OneHost, Members, Hosts
<1> QED BY <1>1, AlwaysSafe, PTL

\* KPersonalShop's list is empty until the seller's request fills it, and a
\* shop that has sold all of it is closed.
THEOREM SellsOnlyAList == Spec => []SellsWhileListed
<1>1. Safe => SellsWhileListed
  BY DEF Safe
<1> QED BY <1>1, AlwaysSafe, PTL

\* What a shop sends to the DB is never more than what its seller listed and
\* refusals have put back: the second look at the quantity in
\* ON_ERM_CONFIRM_BUY_PERSONAL_SHOP_ITEM_ACK is enough.
THEOREM NothingOversold == Spec => []NeverOversold
<1>0. Nothing = [i \in {} |-> i] /\ DOMAIN Nothing = {}
  BY DEF Nothing
<1>1. Init => NeverOversold
  BY <1>0 DEF Init, NeverOversold
<1>2. Safe /\ NeverOversold /\ [Next]_vars => NeverOversold'
  <2> SUFFICES ASSUME Safe, NeverOversold, [Next]_vars PROVE NeverOversold'
    OBVIOUS
  <2>1. CASE UNCHANGED <<goods, ghosts>>
    BY <2>1 DEF NeverOversold, ghosts
  <2>2. ASSUME NEW u \in Units, NEW list \in Lists, NEW sound \in BOOLEAN, RegReq(u, list, sound)
        PROVE  NeverOversold'
    <3>1. CASE goods' = list /\ listed' = list /\ promised' = [i \in Items |-> 0]
      <4>1. Listing(list)
        BY AmountAssumption DEF Lists, Listing
      <4> QED BY <3>1, <4>1 DEF NeverOversold, Listing
    <3>2. CASE UNCHANGED <<goods, ghosts>>
      BY <3>2, <2>1
    <3> QED BY <2>2, <3>1, <3>2 DEF RegReq, Refuse, Reply
  <2>3. ASSUME NEW u \in Units, NEW buyer \in Units, NEW i \in Items,
               NEW quantity \in Quantities, NEW ok \in BOOLEAN,
               ConfirmAck(u, buyer, i, quantity, ok)
        PROVE  NeverOversold'
    <3> DEFINE pieces == Pieces(i, quantity)
               left == goods[i] - pieces
    <3>1. CASE UNCHANGED <<goods, ghosts>>
      BY <3>1, <2>1
    <3>2. CASE /\ EnoughLeft(i, quantity)
               /\ goods' = [goods EXCEPT ![i] = IF left <= 0 THEN 0 ELSE left]
               /\ promised' = [promised EXCEPT ![i] = @ + pieces]
               /\ listed' = listed
      <4>1. pieces \in Nat /\ pieces <= quantity /\ quantity \in Nat
        BY AmountAssumption DEF Pieces
      <4>2. i \in DOMAIN goods /\ goods[i] \in Nat /\ quantity <= goods[i]
        BY <3>2 DEF EnoughLeft, Safe, Listing
      <4>3. left >= 0 /\ goods'[i] = left /\ promised'[i] = promised[i] + pieces
        BY <3>2, <4>1, <4>2 DEF Safe
      <4>4. \A j \in Items \ {i} : promised'[j] = promised[j]
        BY <3>2 DEF Safe
      <4>5. DOMAIN goods' = DOMAIN goods /\ \A j \in DOMAIN goods \ {i} : goods'[j] = goods[j]
        BY <3>2
      <4>6. promised \in [Items -> Int] /\ goods \in [DOMAIN goods -> Nat]
        BY DEF Safe, Listing
      <4> SUFFICES ASSUME NEW j \in Items
                   PROVE  promised'[j] + (IF j \in DOMAIN goods' THEN goods'[j] ELSE 0)
                            <= IF j \in DOMAIN listed' THEN listed'[j] ELSE 0
        BY DEF NeverOversold
      <4>7. promised[j] + (IF j \in DOMAIN goods THEN goods[j] ELSE 0)
              <= IF j \in DOMAIN listed THEN listed[j] ELSE 0
        BY DEF NeverOversold
      <4>8. promised'[j] + (IF j \in DOMAIN goods' THEN goods'[j] ELSE 0)
              = promised[j] + (IF j \in DOMAIN goods THEN goods[j] ELSE 0)
        BY <4>1, <4>2, <4>3, <4>4, <4>5, <4>6
      <4> QED BY <3>2, <4>7, <4>8
    <3> QED BY <2>3, <3>1, <3>2 DEF ConfirmAck, Refuse, Reply, Ignore
  <2>4. ASSUME NEW i, NEW told, Settle(i, told) PROVE NeverOversold'
    <3>1. CASE UNCHANGED <<goods, ghosts>>
      BY <3>1, <2>1
    <3>2. CASE /\ \/ goods' = [j \in DOMAIN goods \ {i} |-> goods[j]]
                  \/ goods' = Nothing
               /\ UNCHANGED ghosts
      <4>1. DOMAIN goods' \subseteq DOMAIN goods /\ \A j \in DOMAIN goods' : goods'[j] = goods[j]
        BY <1>0, <3>2
      <4>2. promised \in [Items -> Int] /\ goods \in [DOMAIN goods -> Nat] /\ Listing(listed)
        BY DEF Safe, Listing
      <4> QED BY <3>2, <4>1, <4>2 DEF NeverOversold, ghosts, Listing
    <3> QED BY <2>4, <3>1, <3>2 DEF Settle, Reply
  <2>5. CASE DBAnswer
    <3>1. ASSUME NEW r \in Unfilled, DBRefused(r) PROVE NeverOversold'
      <4>1. CASE r.item \notin DOMAIN goods
        BY <2>1, <3>1, <4>1 DEF DBRefused, ghosts
      <4>2. CASE r.item \in DOMAIN goods
        <5>1. r.quantity \in Nat /\ goods[r.item] \in Nat /\ r.item \in Items
          BY <4>2 DEF Unfilled, Safe, Listing
        <5>2. /\ DOMAIN goods' = DOMAIN goods
              /\ goods'[r.item] = goods[r.item] + r.quantity
              /\ \A j \in DOMAIN goods \ {r.item} : goods'[j] = goods[j]
          BY <3>1, <4>2 DEF DBRefused
        <5>3. /\ promised'[r.item] = promised[r.item] - r.quantity
              /\ \A j \in Items \ {r.item} : promised'[j] = promised[j]
              /\ listed' = listed
          BY <3>1, <4>2, <5>1 DEF DBRefused, Safe
        <5>4. \A j \in Items : promised[j] \in Int /\ (j \in DOMAIN goods => goods[j] \in Nat)
          BY DEF Safe, Listing
        <5>5. ASSUME NEW j \in Items
              PROVE  promised'[j] + (IF j \in DOMAIN goods' THEN goods'[j] ELSE 0)
                       = promised[j] + (IF j \in DOMAIN goods THEN goods[j] ELSE 0)
          BY <4>2, <5>1, <5>2, <5>3, <5>4
        <5> QED BY <5>3, <5>5 DEF NeverOversold
      <4> QED BY <4>1, <4>2
    <3> QED BY <2>4, <2>5, <3>1 DEF DBAnswer, DBDone, DBUnfilled
  <2>6. CASE CloseRoom
    BY <1>0, <2>6 DEF CloseRoom, NeverOversold
  <2>7. CASE GiveUpWaiting \/ WaitTimeout \/ UNCHANGED vars
    BY <2>1, <2>7 DEF GiveUpWaiting, BreakPersonalShop, WaitTimeout, vars, ghosts
  <2>8. ASSUME NEW gs \in Servers, CheckInvalidUser(gs) PROVE NeverOversold'
    BY <2>1, <2>8 DEF CheckInvalidUser, BreakPersonalShop, Ignore, Reply
  <2>9. ASSUME NEW u \in Units, Request(u) PROVE NeverOversold'
    <3>1. ASSUME NEW gs \in Servers, NEW rich \in BOOLEAN, OpenReq(u, gs, rich) PROVE NeverOversold'
      BY <2>1, <3>1 DEF OpenReq, Refuse, Reply
    <3>2. ASSUME NEW gs \in Servers, NEW near \in BOOLEAN, JoinReq(u, gs, near)
          PROVE  NeverOversold'
      BY <2>1, <3>2 DEF JoinReq, Refuse, Reply
    <3>3. ASSUME NEW quietly \in BOOLEAN, BreakReq(u, quietly) PROVE NeverOversold'
      BY <2>1, <3>3 DEF BreakReq, BreakPersonalShop, Refuse, Reply
    <3>4. CASE LeaveReq(u)
      BY <2>1, <3>4 DEF LeaveReq, BreakPersonalShop, Refuse, Reply
    <3>5. ASSUME NEW i \in Items, NEW quantity \in Quantities, NEW ed \in EDs,
                 NEW sound \in BOOLEAN, BuyReq(u, i, quantity, ed, sound)
          PROVE  NeverOversold'
      BY <2>1, <3>5 DEF BuyReq, Refuse, Reply
    <3> QED BY <2>2, <2>3, <2>9, <3>1, <3>2, <3>3, <3>4, <3>5 DEF Request
  <2> QED BY <2>5, <2>6, <2>7, <2>8, <2>9 DEF Next, Tick
<1> QED BY <1>1, <1>2, AlwaysSafe, PTL DEF Spec

=============================================================================
