------------------------------ MODULE TradeRoom ------------------------------
(***************************************************************************)
(* One personal-trade room of the center server: KTrade (Trade.cpp), the   *)
(* members it keeps (KTradeUserManager, KTradeUser) and its state machine  *)
(* (KTradeFSM).  The room is driven by events: requests of the two         *)
(* traders relayed by their game servers, answers of those game servers    *)
(* and of the game DB, and the room manager's Tick.  All of them are       *)
(* drained from one queue by one thread, so a handler is one action.       *)
(*                                                                         *)
(* Handlers are total: an event the code refuses is a step that changes    *)
(* nothing and sends nothing (Ignore).  The acks that only tell the        *)
(* requesting client whether it was refused, the join, offer and approval  *)
(* notices that only move the client's window, logs, nicknames and the     *)
(* quantities noted for the partner's window (m_kItemQuantityUpdateTemp)   *)
(* are left out; every message that changes what a game server knows of    *)
(* the trade, or a client of the goods, is kept, in the order it is sent.  *)
(*                                                                         *)
(* Spec lets any unit send any event at any time: what holds here holds    *)
(* whatever game servers and clients do.                                   *)
(***************************************************************************)
EXTENDS Integers, Sequences, FiniteSets, Functions

CONSTANTS
  Units,         \* unit UIDs (characters) whose events can reach the room
  Items,         \* item UIDs
  EDs,           \* amounts of ED (the game's money) a trader may put up
  Wallets,       \* amounts of ED a unit may own when it enters
  Servers,       \* game server UIDs
  ServerGroup,   \* ServerGroup[u]: the server group in u's UID
  DBInfo,        \* what a game server reports for the DB; the room passes it on
  MaxItems,      \* KTradeUser::IsCanInsertTradeItem, 10 in the code
  MaxED,         \* SEnum::UI_MAX_ED_CHAR_HAVE
  Reasons        \* reasons a game server gives in a break request

ASSUME UnitsAssumption == IsFiniteSet(Units)
ASSUME AmountAssumption == /\ EDs \subseteq Int /\ 0 \in EDs
                           /\ MaxItems \in Nat /\ MaxED \in Int
ASSUME GroupAssumption == DOMAIN ServerGroup = Units
ASSUME ReasonAssumption == Reasons \subseteq Nat

VARIABLES
  fsm,        \* the state of KTradeFSM
  users,      \* m_mapTradeUser: the members, a function on their units
  waitOver,   \* m_kTimer[TM_WAIT_OTHER] has reached 5 seconds
  sent,       \* what the last step sent, a sequence per destination unit
  sentDB      \* the requests the last step sent to the game DB (0 or 1)

vars == <<fsm, users, waitOver, sent, sentDB>>

FsmStates == {"INIT", "CLOSE", "WAIT", "CONFIRM", "DB_UPDATE"}

Goods == [items : SUBSET Items, ed : EDs]

TradeUser == [gs : Servers, wallet : Wallets, items : SUBSET Items, ed : EDs,
              offer : BOOLEAN, approval : BOOLEAN, confirm : BOOLEAN,
              dbInfo : SUBSET DBInfo]

\* The break reasons the room itself gives (NOT_LEAVE_ROOM_REASON_xx).
Logout     == 1    \* also a request's reason: leave, the trade goes on
Completed  == 6
JoinFailed == 7
JoinLate   == 8
Cancelled  == 9
WrongCount == 10
BadGoods   == 12
NoGoods    == 15

Message ==
  [type : {"OPEN_ACK", "ACCEPT_JOIN", "JOIN_ACK", "BREAK_ACK"}]
    \cup [type : {"BREAK_NOT"}, reason : Nat]
    \cup [type : {"UPDATE_ITEM_NOT"}, unit : Units, item : Items, delete : BOOLEAN]
    \cup [type : {"UPDATE_ED_NOT"}, unit : Units, ed : EDs]
    \cup [type : {"CONFIRM_REQ", "CONFIRM_NOT"}, out : Goods, in : Goods]
    \cup [type : {"COMPLETE_NOT"}, info : DBInfo]

-----------------------------------------------------------------------------
(* The members: KTradeUserManager and KTradeUser.                          *)

Members == DOMAIN users
NumMember(us) == Cardinality(DOMAIN us)

\* Definitions named X_bug are plausible bugs of X.  No specification uses
\* them: each shows that some property would notice it.

\* A freshly entered trader: nothing put up, no flag set.
NewUser(gs, wallet) ==
  [gs |-> gs, wallet |-> wallet, items |-> {}, ed |-> 0, offer |-> FALSE,
   approval |-> FALSE, confirm |-> FALSE, dbInfo |-> {}]

NoUsers == [u \in {} |-> u]

\* EnterTrade succeeds unless the room is full or u is already in it.
CanEnter(u) == NumMember(users) < 2 /\ u \notin Members
Entered(us, u, gs, wallet) ==
  [v \in DOMAIN us \cup {u} |-> IF v = u THEN NewUser(gs, wallet) ELSE us[v]]
Without(us, leavers) == [v \in DOMAIN us \ leavers |-> us[v]]

\* GetOtherUser and GetOtherCID find a partner only in a room of two.
HasOther(u) == NumMember(users) = 2 /\ u \in Members
Other(u) == CHOOSE v \in Members : v # u

SameServerGroup_bug(u) == Members # {}    \* that somebody is there is enough

SameServerGroup(u) == \A v \in Members : ServerGroup[v] = ServerGroup[u]

GoodsOf(us, u) == [items |-> us[u].items, ed |-> us[u].ed]
Unsettled(t) == ~t.offer /\ ~t.approval /\ ~t.confirm
CheckMaxED(t, added) == t.wallet + added <= MaxED

\* IsOffered, IsApproved, IsConfirmed and IsDBUpdateReady ask every current
\* member, however many there are.
AllOffered(us)   == \A u \in DOMAIN us : us[u].offer
AllApproved(us)  == \A u \in DOMAIN us : us[u].approval
AllConfirmed(us) == \A u \in DOMAIN us : us[u].confirm
AllDBReady(us)   == \A u \in DOMAIN us : us[u].dbInfo # {}
NothingToTrade(us) == \A u \in DOMAIN us : us[u].items = {} /\ us[u].ed <= 0

-----------------------------------------------------------------------------
(* What a step sends.                                                      *)

Silence == [v \in Units |-> <<>>]
To(u, m) == [v \in Units |-> IF v = u THEN <<m>> ELSE <<>>]
Broadcast(us, m) == [v \in Units |-> IF v \in DOMAIN us THEN <<m>> ELSE <<>>]
Then(first, second) == [v \in Units |-> first[v] \o second[v]]

Plain(type) == [type |-> type]
BreakNot(reason) == [type |-> "BREAK_NOT", reason |-> reason]

Mirrored_bug(type, us) ==    \* each gets back the money it gives
  [v \in Units |->
     IF v \in DOMAIN us
     THEN <<[type |-> type, out |-> GoodsOf(us, v),
             in |-> [GoodsOf(us, Other(v)) EXCEPT !.ed = us[v].ed]]>>
     ELSE <<>>]

\* To both traders: what they give and what they get, for the game server to
\* check (CONFIRM_REQ) or to carry out (CONFIRM_NOT).
Mirrored(type, us) ==
  [v \in Units |->
     IF v \in DOMAIN us
     THEN <<[type |-> type, out |-> GoodsOf(us, v), in |-> GoodsOf(us, Other(v))]>>
     ELSE <<>>]

-----------------------------------------------------------------------------
(* The state machine.                                                      *)

\* FSMstate::GetOutput: an input the state does not define changes nothing.
StateTransition(s, input) ==
  CASE s = "INIT" /\ input = "TO_WAIT" -> "WAIT"
    [] s = "CLOSE" /\ input = "TO_INIT" -> "INIT"
    [] s = "WAIT" /\ input = "TO_CONFIRM" -> "CONFIRM"
    [] s = "CONFIRM" /\ input = "TO_DB_UPDATE" -> "DB_UPDATE"
    [] s \in {"WAIT", "CONFIRM", "DB_UPDATE"} /\ input = "TO_CLOSE" -> "CLOSE"
    [] OTHER -> s

\* BreakTrade: tell whoever is still in, and close.  The members stay in the
\* map until the next Tick.
BreakTrade(us, reason, before) ==
  /\ users' = us
  /\ sent' = Then(before, Broadcast(us, BreakNot(reason)))
  /\ sentDB' = {}
  /\ fsm' = StateTransition(fsm, "TO_CLOSE")
  /\ UNCHANGED waitOver

\* A handler that only changes members' data and notifies.
Keep(us, notices) ==
  /\ users' = us
  /\ sent' = notices
  /\ sentDB' = {}
  /\ UNCHANGED <<fsm, waitOver>>

\* An event the room refuses, or one of no consequence.
Ignore == Keep(users, Silence)

Init ==
  /\ fsm = "INIT"
  /\ users = NoUsers
  /\ waitOver = FALSE
  /\ sent = Silence
  /\ sentDB = {}

-----------------------------------------------------------------------------
(* Opening, joining, leaving.                                              *)

\* ERM_OPEN_TRADE_REQ: the requester enters the emptied room and the game
\* server of the one who accepted is told to bring it in within 5 seconds.
OpenTradeReq(u, gs, wallet, peer) ==
  \/ /\ fsm # "INIT"
     /\ Ignore
  \/ /\ fsm = "INIT"
     /\ users' = Entered(NoUsers, u, gs, wallet)
     /\ fsm' = StateTransition(fsm, "TO_WAIT")
     /\ waitOver' = FALSE
     /\ sent' = Then(To(u, Plain("OPEN_ACK")), To(peer, Plain("ACCEPT_JOIN")))
     /\ sentDB' = {}

\* ERM_JOIN_TRADE_REQ
MayJoin_bug(u) == fsm \in {"WAIT", "CONFIRM"} /\ SameServerGroup(u)
MayJoin(u) == fsm = "WAIT" /\ SameServerGroup(u)

JoinTradeReq(u, gs, wallet) ==
  \/ ~MayJoin(u) /\ Ignore
  \/ /\ MayJoin(u)
     /\ \/ /\ CanEnter(u)
           /\ Keep(Entered(users, u, gs, wallet), To(u, Plain("JOIN_ACK")))
        \/ /\ ~CanEnter(u) /\ NumMember(users) <= 1
           /\ BreakTrade(users, JoinFailed, Silence)
        \/ /\ ~CanEnter(u) /\ NumMember(users) > 1
           /\ Ignore

\* ERM_BREAK_TRADE_REQ: LeaveTrade succeeds for a non-member too, so any
\* unit's request closes the room, except a logout, which only leaves it.
MayLeave_bug == fsm \in {"WAIT", "CONFIRM", "DB_UPDATE"}
MayLeave == fsm \in {"WAIT", "CONFIRM"}

BreakTradeReq(u, reason) ==
  \/ ~MayLeave /\ Ignore
  \/ /\ MayLeave
     /\ \/ /\ reason = Logout
           /\ Keep(Without(users, {u}), Silence)
        \/ /\ reason # Logout
           /\ BreakTrade(Without(users, {u}), reason, To(u, Plain("BREAK_ACK")))

\* ERM_CHECK_INVALID_USER_NOT: game server gs has died.
CheckInvalidUser(gs) ==
  LET lost == {u \in Members : users[u].gs = gs}
  IN \/ lost = {} /\ Ignore
     \/ lost # {} /\ BreakTrade(Without(users, lost), Cancelled, Silence)

-----------------------------------------------------------------------------
(* Putting goods up, offering, approving.                                  *)

Updated_bug(u, items, ed) ==    \* the partner's offer stands
  [users EXCEPT ![u].items = items, ![u].ed = ed]

\* A change of u's goods takes back the partner's offer.
Updated(u, items, ed) ==
  [users EXCEPT ![u].items = items, ![u].ed = ed, ![Other(u)].offer = FALSE]

ItemNotice(u, item, delete) ==
  Broadcast(users, [type |-> "UPDATE_ITEM_NOT", unit |-> u, item |-> item,
                    delete |-> delete])

\* ERM_UPDATE_TRADE_ITEM_REQ.  RemoveTradeItem does not look at the flags of
\* the trader; CheckStateUpdateTradeItem does so for both.
CanUpdateItem_bug(u) ==    \* the approval alone settles the goods
  fsm \in {"WAIT", "CONFIRM"} /\ u \in Members /\ ~users[u].approval
CanUpdateItem(u) ==
  fsm = "WAIT" /\ u \in Members /\ ~users[u].offer /\ ~users[u].approval
CanInsert(u, item) ==
  /\ Cardinality(users[u].items) < MaxItems /\ item \notin users[u].items
  /\ HasOther(u) /\ Unsettled(users[u])
CanRemove(u, item) == item \in users[u].items /\ HasOther(u)

UpdateTradeItemReq(u, item, delete) ==
  \/ /\ CanUpdateItem(u) /\ ~delete /\ CanInsert(u, item)
     /\ Keep(Updated(u, users[u].items \cup {item}, users[u].ed),
             ItemNotice(u, item, delete))
  \/ /\ CanUpdateItem(u) /\ delete /\ CanRemove(u, item)
     /\ Keep(Updated(u, users[u].items \ {item}, users[u].ed),
             ItemNotice(u, item, delete))
  \/ /\ ~( CanUpdateItem(u)
             /\ IF delete THEN CanRemove(u, item) ELSE CanInsert(u, item) )
     /\ Ignore

\* ERM_UPDATE_TRADE_ED_REQ
CanUpdateED(u, ed) ==
  /\ fsm = "WAIT" /\ HasOther(u)
  /\ users[u].ed # ed /\ Unsettled(users[u])

UpdateTradeEDReq(u, ed) ==
  \/ /\ CanUpdateED(u, ed)
     /\ Keep(Updated(u, users[u].items, ed),
             Broadcast(users, [type |-> "UPDATE_ED_NOT", unit |-> u, ed |-> ed]))
  \/ ~CanUpdateED(u, ed) /\ Ignore

CanOffer_bug(u) ==    \* alone in the room, too
  /\ fsm = "WAIT" /\ u \in Members
  /\ HasOther(u) => CheckMaxED(users[Other(u)], users[u].ed)

\* ERM_OFFER_TRADE_REQ: u stands by the goods on the table.  The partner's
\* room for the money is judged by the ED it owned when it entered.
CanOffer(u) ==
  fsm = "WAIT" /\ HasOther(u) /\ CheckMaxED(users[Other(u)], users[u].ed)

OfferTradeReq(u) ==
  \/ ~CanOffer(u) /\ Ignore
  \/ /\ CanOffer(u)
     /\ LET us == [users EXCEPT ![u].offer = TRUE]
        IN \/ ~AllOffered(us) /\ Keep(us, Silence)
           \/ AllOffered(us) /\ NothingToTrade(us) /\ BreakTrade(us, NoGoods, Silence)
           \/ /\ AllOffered(us) /\ ~NothingToTrade(us)
              /\ users' = us
              /\ fsm' = StateTransition(fsm, "TO_CONFIRM")
              /\ sent' = Silence /\ sentDB' = {}
              /\ UNCHANGED waitOver

MayApprove_bug(u) == fsm \in {"WAIT", "CONFIRM"} /\ u \in Members
MayApprove(u) == fsm = "CONFIRM" /\ u \in Members

\* ERM_APPROVE_TRADE_REQ: once every member approves, each approval (a
\* repeated one too) has both game servers check the goods.
ApproveTradeReq(u) ==
  \/ ~MayApprove(u) /\ Ignore
  \/ /\ MayApprove(u)
     /\ LET us == [users EXCEPT ![u].approval = TRUE]
        IN \/ ~AllApproved(us) /\ Keep(us, Silence)
           \/ /\ AllApproved(us) /\ NumMember(us) # 2
              /\ BreakTrade(us, WrongCount, Silence)
           \/ /\ AllApproved(us) /\ NumMember(us) = 2
              /\ Keep(us, Mirrored("CONFIRM_REQ", us))

-----------------------------------------------------------------------------
(* Carrying the trade out.                                                 *)

\* ERM_CONFIRM_TRADE_ACK: a game server's verdict on the goods.  A refusal
\* is taken from anyone; an OK of a non-member is logged and then treated as
\* any other occasion to look whether all members have confirmed.
ConfirmTradeAck(u, ok) ==
  \/ fsm # "CONFIRM" /\ Ignore
  \/ /\ fsm = "CONFIRM" /\ ~ok
     /\ BreakTrade(users, BadGoods, Silence)
  \/ /\ fsm = "CONFIRM" /\ ok
     /\ LET us == IF u \in Members THEN [users EXCEPT ![u].confirm = TRUE] ELSE users
        IN \/ ~AllConfirmed(us) /\ Keep(us, Silence)
           \/ /\ AllConfirmed(us) /\ NumMember(us) # 2
              /\ BreakTrade(us, WrongCount, Silence)
           \/ /\ AllConfirmed(us) /\ NumMember(us) = 2
              /\ users' = us
              /\ fsm' = StateTransition(fsm, "TO_DB_UPDATE")
              /\ sent' = Mirrored("CONFIRM_NOT", us) /\ sentDB' = {}
              /\ UNCHANGED waitOver

\* ERM_DB_UPDATE_TRADE_RESULT_NOT: u's game server has taken the goods out
\* of u's inventory and reports g for the DB.  With both traders' reports
\* the game DB is asked to swap.
DBUpdateTradeResultNot(u, g) ==
  \/ fsm # "DB_UPDATE" /\ Ignore
  \/ /\ fsm = "DB_UPDATE" /\ u \notin Members
     /\ BreakTrade(users, Cancelled, Silence)
  \/ /\ fsm = "DB_UPDATE" /\ u \in Members
     /\ LET us == [users EXCEPT ![u].dbInfo = {g}]
        IN \/ ~AllDBReady(us) /\ Keep(us, Silence)
           \/ /\ AllDBReady(us) /\ NumMember(us) # 2
              /\ BreakTrade(us, WrongCount, Silence)
           \/ /\ AllDBReady(us) /\ NumMember(us) = 2
              /\ users' = us
              /\ sent' = Silence
              /\ sentDB' = {[v \in Members |-> CHOOSE h \in us[v].dbInfo : TRUE]}
              /\ UNCHANGED <<fsm, waitOver>>

\* DBE_DB_UPDATE_TRADE_RESULT_ACK: the units of the answer that are members
\* get what the DB made of their trade, and the room closes.
DBUpdateTradeResultAck(ok, info) ==
  \/ fsm # "DB_UPDATE" /\ Ignore
  \/ /\ fsm = "DB_UPDATE" /\ ~ok
     /\ BreakTrade(users, WrongCount, Silence)
  \/ /\ fsm = "DB_UPDATE" /\ ok
     /\ BreakTrade(users, Completed,
          [v \in Units |-> IF v \in DOMAIN info \cap Members
                           THEN <<[type |-> "COMPLETE_NOT", info |-> info[v]]>>
                           ELSE <<>>])

-----------------------------------------------------------------------------
(* The room manager's Tick and the passing of time.                        *)

\* Tick in S_CLOSE: CloseRoom empties the room and gives its UID back.
CloseRoom ==
  /\ fsm = "CLOSE"
  /\ users' = NoUsers
  /\ fsm' = StateTransition(fsm, "TO_INIT")
  /\ sent' = Silence /\ sentDB' = {}
  /\ UNCHANGED waitOver

GiveUpWaiting_bug ==    \* only of an empty room
  /\ fsm = "WAIT" /\ NumMember(users) = 0 /\ waitOver
  /\ BreakTrade(users, JoinLate, Silence)

\* Tick in S_WAIT: the one who accepted did not come within 5 seconds.  In
\* the other states a Tick does nothing.
GiveUpWaiting ==
  /\ fsm = "WAIT" /\ NumMember(users) <= 1 /\ waitOver
  /\ BreakTrade(users, JoinLate, Silence)

Tick == CloseRoom \/ GiveUpWaiting

WaitTimeout ==
  /\ ~waitOver
  /\ waitOver' = TRUE
  /\ sent' = Silence /\ sentDB' = {}
  /\ UNCHANGED <<fsm, users>>

-----------------------------------------------------------------------------
\* Answers of the game DB name two units.
DBInfos == UNION {[pair -> DBInfo] : pair \in {p \in SUBSET Units : Cardinality(p) = 2}}

Request(u) ==
  \/ \E gs \in Servers, wallet \in Wallets :
        \/ \E peer \in Units : OpenTradeReq(u, gs, wallet, peer)
        \/ JoinTradeReq(u, gs, wallet)
  \/ \E reason \in Reasons : BreakTradeReq(u, reason)
  \/ \E item \in Items, delete \in BOOLEAN : UpdateTradeItemReq(u, item, delete)
  \/ \E ed \in EDs : UpdateTradeEDReq(u, ed)
  \/ OfferTradeReq(u)
  \/ ApproveTradeReq(u)
  \/ \E ok \in BOOLEAN : ConfirmTradeAck(u, ok)
  \/ \E g \in DBInfo : DBUpdateTradeResultNot(u, g)

Next ==
  \/ \E u \in Units : Request(u)
  \/ \E gs \in Servers : CheckInvalidUser(gs)
  \/ \E ok \in BOOLEAN, info \in DBInfos : DBUpdateTradeResultAck(ok, info)
  \/ Tick
  \/ WaitTimeout

Spec == Init /\ [][Next]_vars

\* The manager's thread ticks every room without end and the clock runs on;
\* no client, game server or DB owes the room anything.
FairSpec == Spec /\ WF_vars(Tick) /\ WF_vars(WaitTimeout)

-----------------------------------------------------------------------------
(* Properties.                                                             *)

\* Every variable has its type.
TypeOK ==
  /\ fsm \in FsmStates
  /\ Members \in SUBSET Units
  /\ users \in [Members -> TradeUser]
  /\ waitOver \in BOOLEAN
  /\ sent \in [Units -> Seq(Message)]
  /\ sentDB \in SUBSET [Members -> DBInfo]

\* While goods can still change, no member carries an approval or a
\* confirmation, and before the execution none carries DB data: none of an
\* earlier trade in this room, and none given before both offers stood
\* (every later check is a scan of flags).
NoFlagBeforeItsTime ==
  \A u \in Members :
    /\ fsm = "WAIT" => ~users[u].approval /\ ~users[u].confirm
    /\ fsm \in {"WAIT", "CONFIRM"} => users[u].dbInfo = {}

\* A room past S_WAIT holds only members whose own offer stands: no change
\* of goods has slipped in after the last offer.
OffersStand ==
  fsm \in {"CONFIRM", "DB_UPDATE"} => AllOffered(users)

\* A room waits for the DB only with exactly two traders, both confirmed by
\* their game servers and of one server group, and with something to swap.
ReadyToSwap ==
  fsm = "DB_UPDATE" =>
    /\ NumMember(users) = 2
    /\ AllConfirmed(users)
    /\ ~NothingToTrade(users)
    /\ \A u \in Members : SameServerGroup(u)

\* ReadyToSwap is not inductive: it needs that a room has at most two
\* members, that they are of one group from the start, and that two traders
\* with nothing to trade never get as far as S_CONFIRM.  IndInv adds that.
AtMostTwo == NumMember(users) <= 2
OneServerGroup == \A u, v \in Members : ServerGroup[u] = ServerGroup[v]
SomethingAtStake ==
  fsm = "CONFIRM" /\ NumMember(users) = 2 => ~NothingToTrade(users)

IndInv == /\ TypeOK /\ AtMostTwo /\ OneServerGroup
          /\ NoFlagBeforeItsTime /\ OffersStand /\ SomethingAtStake /\ ReadyToSwap

\* What the room tells the two game servers to carry out is one deal seen
\* from its two ends: nobody is told alone, and out of one is in of the
\* other.
ExecutionIsMutual ==
  \A u \in Units : \A m \in Range(sent[u]) :
    m.type = "CONFIRM_NOT" =>
      \E v \in Units \ {u} : \E n \in Range(sent[v]) :
        /\ n.type = "CONFIRM_NOT"
        /\ n.out = m.in /\ n.in = m.out

\* From the moment both offers stand until the room closes, nobody enters
\* and nobody's goods change, whatever requests are still on their way.
GoodsFrozen ==
  [][ (fsm \in {"CONFIRM", "DB_UPDATE"} /\ fsm' \in {"CONFIRM", "DB_UPDATE"}) =>
        ( /\ Members' \subseteq Members
          /\ \A u \in Members' : GoodsOf(users', u) = GoodsOf(users, u) ) ]_vars

\* Nobody's goods change under an offer: neither the offer of the one who
\* changes them, nor the offer the partner made for them.
ChangeVoidsOffers ==
  [][ \A u \in Members \cap Members' :
        GoodsOf(users', u) # GoodsOf(users, u)
          => ~users[u].offer /\ (\A v \in Members' : v # u => ~users'[v].offer) ]_vars

\* The room keeps the promises of TradeDeal: past the last offer a deal is
\* carried out as both offered it, by the same two, or not at all.
Stage == CASE fsm = "WAIT" -> "open"
           [] fsm = "CONFIRM" -> "sealed"
           [] fsm = "DB_UPDATE" -> "executing"
           [] OTHER -> "none"
OnTable == [u \in (IF Stage = "none" THEN {} ELSE Members) |-> GoodsOf(users, u)]
Agreed == {u \in DOMAIN OnTable : users[u].offer}

Deal == INSTANCE TradeDeal WITH stage <- Stage, deal <- OnTable, agreed <- Agreed

KeepsTheDeal == Deal!Spec

\* A trader whose partner never comes is not kept waiting for ever: the room
\* gives up and its UID is free for another trade.
LoneTraderIsReleased ==
  (fsm = "WAIT" /\ NumMember(users) <= 1) ~> (fsm = "INIT" \/ NumMember(users) = 2)

=============================================================================
