---------------------------- MODULE GSUserTrade ----------------------------
(***************************************************************************)
(* The game servers' half of a personal trade: what KGSUser keeps of the   *)
(* trade a unit is in (GSUserTrade.cpp) and how it reacts to its client,   *)
(* to the trade room and to the answer of its own write to the game DB.    *)
(* One unit's events are handled one after the other, those of different   *)
(* units in any order.                                                     *)
(*                                                                         *)
(* up[u] and down[u] are the ordered channels between u's game server and  *)
(* the center server.  A packet addressed to trade UID 0 is thrown away by *)
(* the room manager (QueueingEventToRoom), so it is not put in the channel.*)
(* Trading is over one room, the one TradeRoom models.                     *)
(*                                                                         *)
(* Left out: the acks and notices passed on to the client, the repeat      *)
(* filters of item and ED requests (without them a client can only do      *)
(* more), quantities and slots of items, statistics and logs, the death of *)
(* the center server.  Of the handlers outside the trade that touch money  *)
(* only the repair is here, for all that check the inventory's lock and    *)
(* not the trade.                                                          *)
(***************************************************************************)
EXTENDS Integers, Sequences, FiniteSets

CONSTANTS
  Units,        \* the characters, each on a game server of its own
  Items,        \* item UIDs
  EDs,          \* amounts of ED a client may ask to put up
  Reasons,      \* reasons of the break requests other than a logout
  MaxInFlight   \* bound: a client's next request waits for so full a channel

VARIABLES
  user,    \* what the game server knows of each unit
  up,      \* game server -> center server
  down     \* center server -> game server

vars == <<user, up, down>>

\* here:    the unit is in S_FIELD_MAP or S_ROOM, where trades are handled
\* trading: m_iTradeUID is the room's UID (it is 0 otherwise)
\* ed, init: m_iED, its value and what of it is believed to be in the DB
\* filter:  an EGS_APPROVE_TRADE_REQ is unanswered
\* writes:  the ED increments on their way to the DB (at most one)
User == [alive : BOOLEAN, here : BOOLEAN, trading : BOOLEAN,
         items : SUBSET Items, ed : Int, init : Int, locked : BOOLEAN,
         filter : BOOLEAN, writes : SUBSET Int]

LoggedIn(items, ed) ==
  [alive |-> TRUE, here |-> TRUE, trading |-> FALSE, items |-> items,
   ed |-> ed, init |-> ed, locked |-> FALSE, filter |-> FALSE, writes |-> {}]

-----------------------------------------------------------------------------
\* _SendToCnRoom( GetTradeUID(), ... )
ToRoom(u, m) ==
  up' = [up EXCEPT ![u] = IF user[u].trading THEN Append(@, m) ELSE @]

Plain(type) == [type |-> type]

\* A client asks for something; the bound keeps the channel short.
Client(u) == user[u].alive /\ Len(up[u]) < MaxInFlight

Relay(u, m) ==
  /\ Client(u) /\ user[u].here /\ user[u].trading
  /\ ToRoom(u, m)
  /\ UNCHANGED <<user, down>>

-----------------------------------------------------------------------------
(* Requests of the client.                                                 *)

\* ERM_REQUEST_TRADE_REPLY_NOT: the peer has accepted, a room is asked for,
\* whether or not the unit is in a trade by now.
OpenTrade(u, peer) ==
  /\ Client(u) /\ user[u].here
  /\ up' = [up EXCEPT ![u] = Append(@, [type |-> "OPEN", wallet |-> user[u].ed,
                                        peer |-> peer])]
  /\ UNCHANGED <<user, down>>

\* EGS_BREAK_TRADE_REQ, from any state; also sent on moving to the field.
BreakTrade(u, reason) ==
  /\ Client(u) /\ user[u].trading
  /\ ToRoom(u, [type |-> "BREAK", reason |-> reason])
  /\ UNCHANGED <<user, down>>

UpdateTradeItem(u, item, delete) ==
  /\ ~user[u].locked
  /\ delete \/ item \in user[u].items
  /\ Relay(u, [type |-> "UPDATE_ITEM", item |-> item, delete |-> delete])

UpdateTradeED(u, ed) ==
  /\ ~user[u].locked
  /\ 0 <= ed /\ ed <= user[u].ed
  /\ Relay(u, [type |-> "UPDATE_ED", ed |-> ed])

OfferTrade(u) == Relay(u, Plain("OFFER"))

\* EGS_APPROVE_TRADE_REQ: first the unit's data are written to the DB, the
\* approval follows when that is done.  Whether the unit is in a trade is
\* not asked.
ApproveTrade(u) ==
  /\ Client(u) /\ user[u].here
  /\ ~user[u].filter /\ ~user[u].locked
  /\ user' = [user EXCEPT ![u].filter = TRUE,
                          ![u].writes = {user[u].ed - user[u].init},
                          ![u].init = user[u].ed]
  /\ UNCHANGED <<up, down>>

\* DBE_UPDATE_UNIT_INFO_ACK: what was not written is taken out of init
\* again; the approval goes to the trade the unit is in by now.
UnitInfoWritten(u, change, ok) ==
  /\ user[u].alive /\ change \in user[u].writes
  /\ user' = [user EXCEPT ![u].writes = {},
                          ![u].init = IF ok THEN @ ELSE @ - change]
  /\ ToRoom(u, Plain("APPROVE"))
  /\ UNCHANGED down

\* EGS_REPAIR_ITEM_REQ costs one ED.
RepairItem(u) ==
  /\ user[u].alive /\ user[u].here /\ ~user[u].locked /\ user[u].ed > 0
  /\ user' = [user EXCEPT ![u].ed = @ - 1]
  /\ UNCHANGED <<up, down>>

-----------------------------------------------------------------------------
(* Packets of the room.                                                    *)

Next(u) == Head(down[u])
Take(u) == user[u].alive /\ down[u] # <<>> /\ down' = [down EXCEPT ![u] = Tail(@)]

\* ERM_OPEN_TRADE_ACK, ERM_JOIN_TRADE_ACK
EnterTrade(u) ==
  /\ Take(u) /\ Next(u).type \in {"OPEN_ACK", "JOIN_ACK"}
  /\ user' = [user EXCEPT ![u].trading = @ \/ user[u].here]
  /\ UNCHANGED up

\* ERM_ACCEPT_JOIN_TRADE_NOT: goes to the room it names.
AcceptJoin(u) ==
  /\ Take(u) /\ Next(u).type = "ACCEPT_JOIN"
  /\ up' = [up EXCEPT ![u] =
              IF user[u].here /\ ~user[u].trading
              THEN Append(@, [type |-> "JOIN", wallet |-> user[u].ed]) ELSE @]
  /\ UNCHANGED user

TradeBroken_bug(u) ==    \* releases the filter of an approval under way
  /\ Take(u) /\ Next(u).type \in {"BREAK_ACK", "BREAK_NOT"}
  /\ user' = [user EXCEPT ![u].trading = FALSE, ![u].filter = FALSE]
  /\ UNCHANGED up

TradeBroken_half(u) ==    \* the one who broke the trade stays in it
  /\ Take(u) /\ Next(u).type \in {"BREAK_ACK", "BREAK_NOT"}
  /\ user' = [user EXCEPT ![u].trading = @ /\ Next(u).type = "BREAK_ACK"]
  /\ UNCHANGED up

\* ERM_BREAK_TRADE_ACK, ERM_BREAK_TRADE_NOT: in any state.
TradeBroken(u) ==
  /\ Take(u) /\ Next(u).type \in {"BREAK_ACK", "BREAK_NOT"}
  /\ user' = [user EXCEPT ![u].trading = FALSE]
  /\ UNCHANGED up

\* ERM_APPROVE_TRADE_ACK: SendPacket releases the filter.
ApproveAck(u) ==
  /\ Take(u) /\ Next(u).type = "APPROVE_ACK"
  /\ user' = [user EXCEPT ![u].filter = FALSE]
  /\ UNCHANGED up

\* A packet the unit's state does not allow.
NotHere(u) ==
  /\ Take(u) /\ ~user[u].here
  /\ Next(u).type \in {"CONFIRM_REQ", "CONFIRM_NOT", "COMPLETE_NOT"}
  /\ UNCHANGED <<user, up>>

HasGoods(u, out) == out.items \subseteq user[u].items /\ out.ed <= user[u].ed

\* ERM_CONFIRM_TRADE_REQ; room says whether the inventory has room for what
\* comes in.
ConfirmReq(u, room) ==
  /\ Take(u) /\ Next(u).type = "CONFIRM_REQ" /\ user[u].here
  /\ ToRoom(u, [type |-> "CONFIRM_ACK", ok |-> HasGoods(u, Next(u).out) /\ room])
  /\ UNCHANGED user

\* What the DB is to change: the items that leave, and the ED in less out.
Report_bug(m) ==    \* in less out, with the sign of the giver
  [out |-> m.out.items, change |-> m.out.ed - m.in.ed, in |-> {}]
Report(m) == [out |-> m.out.items, change |-> m.in.ed - m.out.ed, in |-> {}]

Deducted_bug(u, m) ==    \* the items stay until the trade is complete
  [user EXCEPT ![u].ed = @ + m.in.ed - m.out.ed,
               ![u].init = user[u].ed + m.in.ed - m.out.ed,
               ![u].locked = TRUE]

Deducted_unsynced(u, m) ==    \* with -= and +=, which leave init alone
  [user EXCEPT ![u].ed = @ + m.in.ed - m.out.ed,
               ![u].items = @ \ m.out.items,
               ![u].locked = TRUE]

\* KCacheDataMaxLimit::SetValue sets both values of the ED.
Deducted(u, m) ==
  [user EXCEPT ![u].ed = @ + m.in.ed - m.out.ed,
               ![u].init = user[u].ed + m.in.ed - m.out.ed,
               ![u].items = @ \ m.out.items,
               ![u].locked = TRUE]

ConfirmNot_twice(u) ==    \* the report is repeated
  /\ Take(u) /\ Next(u).type = "CONFIRM_NOT" /\ user[u].here
  /\ user' = Deducted(u, Next(u))
  /\ LET report == [type |-> "DB_RESULT", info |-> Report(Next(u))]
     IN up' = [up EXCEPT ![u] = @ \o <<report, report>>]

ConfirmNot_silent(u) ==    \* nothing is reported when no item leaves
  /\ Take(u) /\ Next(u).type = "CONFIRM_NOT" /\ user[u].here
  /\ user' = Deducted(u, Next(u))
  /\ IF Next(u).out.items = {} THEN UNCHANGED up
     ELSE ToRoom(u, [type |-> "DB_RESULT", info |-> Report(Next(u))])

\* ERM_CONFIRM_TRADE_NOT: take the goods out, settle the money, report, and
\* lock the inventory for 60 seconds.
ConfirmNot(u) ==
  /\ Take(u) /\ Next(u).type = "CONFIRM_NOT" /\ user[u].here
  /\ user' = Deducted(u, Next(u))
  /\ ToRoom(u, [type |-> "DB_RESULT", info |-> Report(Next(u))])

CompleteNot_bug(u) ==    \* the lock is left to its time-out
  /\ Take(u) /\ Next(u).type = "COMPLETE_NOT" /\ user[u].here
  /\ user' = [user EXCEPT ![u].items = @ \cup Next(u).info.in]
  /\ UNCHANGED up

\* ERM_DB_UPDATE_TRADE_COMPLETE_NOT: unlock and put in what came.
CompleteNot(u) ==
  /\ Take(u) /\ Next(u).type = "COMPLETE_NOT" /\ user[u].here
  /\ user' = [user EXCEPT ![u].locked = FALSE, ![u].items = @ \cup Next(u).info.in]
  /\ UNCHANGED up

Receive(u) ==
  \/ EnterTrade(u) \/ AcceptJoin(u) \/ TradeBroken(u) \/ ApproveAck(u)
  \/ NotHere(u) \/ ConfirmNot(u) \/ CompleteNot(u)
  \/ \E room \in BOOLEAN : ConfirmReq(u, room)

-----------------------------------------------------------------------------
(* The unit comes and goes, time passes, the server dies.                  *)

\* The unit enters a room or a field, or changes state to one in which no
\* trade is handled: a trade it knows to be in is left.
Leave(u, here) ==
  /\ user[u].alive /\ user[u].here
  /\ user[u].trading \/ ~here
  /\ ToRoom(u, [type |-> "BREAK", reason |-> 1])
  /\ user' = [user EXCEPT ![u].trading = FALSE, ![u].here = here]
  /\ UNCHANGED down

Return(u) ==
  /\ user[u].alive /\ ~user[u].here
  /\ user' = [user EXCEPT ![u].here = TRUE]
  /\ UNCHANGED <<up, down>>

\* KInventoryLocker: a lock with a time-out opens after 60 seconds.
LockTimeout(u) ==
  /\ user[u].locked
  /\ user' = [user EXCEPT ![u].locked = FALSE]
  /\ UNCHANGED <<up, down>>

\* u's game server dies; the center server sees the connection close after
\* everything that was sent through it.
Crash(u) ==
  /\ user[u].alive
  /\ user' = [user EXCEPT ![u] = [LoggedIn({}, 0) EXCEPT !.alive = FALSE,
                                                         !.here = FALSE]]
  /\ up' = [up EXCEPT ![u] = Append(@, Plain("GS_DOWN"))]
  /\ down' = [down EXCEPT ![u] = <<>>]

=============================================================================
