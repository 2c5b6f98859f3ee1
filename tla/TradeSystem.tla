---------------------------- MODULE TradeSystem ----------------------------
(***************************************************************************)
(* A personal trade from end to end: the trade room of the center server   *)
(* (TradeRoom), the traders' game servers (GSUserTrade) and the game DB.   *)
(* The room's requests and answers travel in ordered channels, one pair    *)
(* for each game server; the room takes the next event from any of them.   *)
(* Every unit is on a game server of its own, named by the unit.           *)
(*                                                                         *)
(* The DB is what the code assumes of it: the swap procedure               *)
(* (dbo.P_GItem_Total_Trade, not in the repository) is one transaction,    *)
(* and the increment of an approval is written in the step in which its    *)
(* game server learns of it (both are sums, so the order does not matter). *)
(*                                                                         *)
(* Ghost variables: trades counts the trades opened in the room, pressed   *)
(* notes for each unit the trades in which its client approved, drifted    *)
(* the units whose trade was carried out with unwritten ED, astray those   *)
(* that left a trade while about to enter one, upset whether something     *)
(* happened that the code has no remedy for.                               *)
(***************************************************************************)
EXTENDS TradeRoom

CONSTANTS
  Openers,      \* the units that ask others for a trade
  Bids,         \* the amounts of ED clients put up
  Deletes,      \* whether clients add items (FALSE), or take them back too
  MaxInFlight,  \* see GSUserTrade
  MaxTrades,    \* bound: trades opened in the room
  MaxPresses,   \* bound: approvals of each client
  MaxFaults,    \* bound: departures, deaths and DB failures
  Owner,        \* Owner[i]: who has item i at the start
  Wealth        \* Wealth[u]: the ED of u at the start

ASSUME SystemAssumption ==
  /\ Units \subseteq Servers /\ Openers \subseteq Units
  /\ Wallets = Int /\ Bids \subseteq EDs
  /\ Deletes \subseteq BOOLEAN /\ Logout \in Reasons
  /\ Owner \in [Items -> Units] /\ Wealth \in [Units -> Int]

\* DBInfo has what a game server may report of any two amounts, and what the
\* DB may answer.
ASSUME InfoAssumption ==
  /\ DBInfo \subseteq [out : SUBSET Items, change : Int, in : SUBSET Items]
  /\ \A out \in SUBSET Items : \A give, get \in EDs :
       [out |-> out, change |-> get - give, in |-> {}] \in DBInfo
  /\ \A info \in DBInfo : \A in \in SUBSET Items : [info EXCEPT !.in = in] \in DBInfo

VARIABLES
  user, up, down,  \* see GSUserTrade
  db,              \* the game DB: the owner of each item, the ED of each unit
  swaps,           \* the swap requests so far, with how far each has come
  trades, pressed, drifted, astray, upset, faults

GS == INSTANCE GSUserTrade

gsVars == <<user, up, down>>
ghosts == <<trades, pressed, drifted, astray, upset, faults>>
sysVars == <<vars, gsVars, db, swaps, ghosts>>

SysInit ==
  /\ Init
  /\ user = [u \in Units |-> GS!LoggedIn({i \in Items : Owner[i] = u}, Wealth[u])]
  /\ up = [u \in Units |-> <<>>]
  /\ down = [u \in Units |-> <<>>]
  /\ db = [items |-> Owner, ed |-> Wealth]
  /\ swaps = <<>>
  /\ trades = 0 /\ pressed = [u \in Units |-> <<>>]
  /\ drifted = {} /\ astray = {} /\ upset = FALSE /\ faults = 0

-----------------------------------------------------------------------------
(* The room handles an event.                                              *)

\* Notices that only the clients look at end at the game server.  They are
\* sent alone.
ForServer(notices) ==
  IF \E m \in Range(notices) : m.type \in {"UPDATE_ITEM_NOT", "UPDATE_ED_NOT"}
  THEN <<>> ELSE notices

\* What a handler sends reaches the game servers that are still there; acks
\* are sent before anything else.  A swap goes into the DB's queue.
Forward(acks) ==
  /\ down' = [u \in Units |-> IF user[u].alive
                              THEN down[u] \o acks[u] \o ForServer(sent'[u])
                              ELSE <<>>]
  /\ swaps' = IF sentDB' = {} THEN swaps
              ELSE Append(swaps, [trade |-> trades, info |-> CHOOSE info \in sentDB' : TRUE,
                                  status |-> "asked"])

Handle(u, m) ==
  \/ m.type = "OPEN"        /\ OpenTradeReq(u, u, m.wallet, m.peer)
  \/ m.type = "JOIN"        /\ JoinTradeReq(u, u, m.wallet)
  \/ m.type = "BREAK"       /\ BreakTradeReq(u, m.reason)
  \/ m.type = "UPDATE_ITEM" /\ UpdateTradeItemReq(u, m.item, m.delete)
  \/ m.type = "UPDATE_ED"   /\ UpdateTradeEDReq(u, m.ed)
  \/ m.type = "OFFER"       /\ OfferTradeReq(u)
  \/ m.type = "APPROVE"     /\ ApproveTradeReq(u)
  \/ m.type = "CONFIRM_ACK" /\ ConfirmTradeAck(u, m.ok)
  \/ m.type = "DB_RESULT"   /\ DBUpdateTradeResultNot(u, m.info)
  \/ m.type = "GS_DOWN"     /\ CheckInvalidUser(u)

\* An approval is acknowledged whether it is taken or not.
Deliver(u) ==
  LET m == Head(up[u])
  IN /\ up[u] # <<>>
     /\ Handle(u, m)
     /\ Forward(IF m.type = "APPROVE" THEN To(u, [type |-> "APPROVE_ACK"]) ELSE Silence)
     /\ up' = [up EXCEPT ![u] = Tail(@)]
     /\ trades' = IF fsm = "INIT" /\ fsm' = "WAIT" THEN trades + 1 ELSE trades
     /\ UNCHANGED <<user, db, pressed, drifted, astray, upset, faults>>

RoomTick ==
  /\ Tick
  /\ Forward(Silence)
  /\ UNCHANGED <<user, up, db, ghosts>>

\* The time-out matters to a Tick only in a room of at most one; letting it
\* pass just then loses no behaviour.
RoomTimeout ==
  /\ fsm = "WAIT" /\ NumMember(users) <= 1 /\ WaitTimeout
  /\ UNCHANGED <<gsVars, db, swaps, ghosts>>

-----------------------------------------------------------------------------
(* The game servers take a step; the room does nothing.                    *)

Elsewhere == Ignore /\ UNCHANGED <<swaps, trades>>

Openings == Cardinality({u \in Units : \E m \in Range(up[u]) : m.type = "OPEN"})

Ask(u) ==
  /\ \/ /\ trades + Openings < MaxTrades
        /\ u \in Openers
        /\ \E peer \in Units \ {u} : GS!OpenTrade(u, peer)
     \/ \E reason \in Reasons \ {Logout} : GS!BreakTrade(u, reason)
     \/ \E item \in Items, delete \in Deletes : GS!UpdateTradeItem(u, item, delete)
     \/ \E ed \in Bids : GS!UpdateTradeED(u, ed)
     \/ GS!OfferTrade(u)
  /\ Elsewhere /\ UNCHANGED <<db, pressed, drifted, astray, upset, faults>>

\* The client has a button for it only while its trade window is open.
Approve(u) ==
  /\ user[u].trading /\ Len(pressed[u]) < MaxPresses
  /\ GS!ApproveTrade(u)
  /\ pressed' = [pressed EXCEPT ![u] = Append(@, trades)]
  /\ Elsewhere /\ UNCHANGED <<db, drifted, astray, upset, faults>>

Written(u) ==
  /\ \E change \in user[u].writes :
       \/ /\ GS!UnitInfoWritten(u, change, TRUE)
          /\ db' = [db EXCEPT !.ed[u] = @ + change]
          /\ UNCHANGED faults
       \/ /\ GS!UnitInfoWritten(u, change, FALSE)
          /\ faults < MaxFaults /\ faults' = faults + 1
          /\ UNCHANGED db
  /\ Elsewhere /\ UNCHANGED <<pressed, drifted, astray, upset>>

\* Of no remedy: a trade is to be carried out, or is complete, and the unit
\* is not there for it; or the report has no trade to go to any more.
Missed(u) ==
  /\ GS!Next(u).type \in {"CONFIRM_NOT", "COMPLETE_NOT"}
  /\ ~user[u].here \/ (GS!Next(u).type = "CONFIRM_NOT" /\ ~user[u].trading)

Receive(u) ==
  /\ GS!Receive(u)
  /\ upset' = (upset \/ Missed(u))
  /\ drifted' = IF GS!Next(u).type = "CONFIRM_NOT" /\ user[u].ed # user[u].init
                THEN drifted \cup {u} ELSE drifted
  /\ Elsewhere /\ UNCHANGED <<db, pressed, astray, faults>>

Repair(u) ==
  /\ GS!RepairItem(u)
  /\ Elsewhere /\ UNCHANGED <<db, pressed, drifted, astray, upset, faults>>

\* An entry of u into a trade is under way.
Entering(u) ==
  \/ \E m \in Range(up[u]) : m.type \in {"OPEN", "JOIN"}
  \/ \E m \in Range(down[u]) : m.type \in {"OPEN_ACK", "JOIN_ACK"}

ComeAndGo(u) ==
  /\ \/ /\ faults < MaxFaults /\ faults' = faults + 1
        /\ \E here \in BOOLEAN : GS!Leave(u, here)
        /\ astray' = IF user[u].trading /\ Entering(u) THEN astray \cup {u} ELSE astray
     \/ (GS!Return(u) \/ GS!LockTimeout(u)) /\ UNCHANGED <<astray, faults>>
  /\ Elsewhere /\ UNCHANGED <<db, pressed, drifted, upset>>

Die(u) ==
  /\ faults < MaxFaults /\ faults' = faults + 1
  /\ GS!Crash(u)
  /\ upset' = TRUE
  /\ Elsewhere /\ UNCHANGED <<db, pressed, drifted, astray>>

-----------------------------------------------------------------------------
(* The game DB.                                                            *)

Partner(info, u) == CHOOSE v \in DOMAIN info : v # u

\* The procedure refuses to move what its giver does not own.
CanSwap(info) == \A u \in DOMAIN info : \A i \in info[u].out : db.items[i] = u

Swapped(info) ==
  [items |-> [i \in Items |->
                IF \E u \in DOMAIN info : i \in info[u].out
                THEN Partner(info, CHOOSE u \in DOMAIN info : i \in info[u].out)
                ELSE db.items[i]],
   ed |-> [u \in Units |-> IF u \in DOMAIN info THEN db.ed[u] + info[u].change
                           ELSE db.ed[u]]]

\* P_GItem_Total_Trade, or an ODBC error that leaves everything as it was.
Swap(n) ==
  /\ swaps[n].status = "asked"
  /\ \/ /\ CanSwap(swaps[n].info)
        /\ swaps' = [swaps EXCEPT ![n].status = "done"]
        /\ db' = Swapped(swaps[n].info)
        /\ UNCHANGED <<upset, faults>>
     \/ /\ faults < MaxFaults \/ ~CanSwap(swaps[n].info)
        /\ faults' = IF CanSwap(swaps[n].info) THEN faults + 1 ELSE faults
        /\ upset' = (upset \/ CanSwap(swaps[n].info))
        /\ swaps' = [swaps EXCEPT ![n].status = "failed"]
        /\ UNCHANGED db
  /\ Ignore /\ UNCHANGED <<gsVars, trades, pressed, drifted, astray>>

\* DBE_DB_UPDATE_TRADE_RESULT_REQ's answer: each gets what the other gave.
Crosswise(info) ==
  [u \in DOMAIN info |-> [info[u] EXCEPT !.in = info[Partner(info, u)].out]]

Answer(n) ==
  /\ swaps[n].status \in {"done", "failed"}
  /\ DBUpdateTradeResultAck(swaps[n].status = "done", Crosswise(swaps[n].info))
  /\ down' = [u \in Units |-> IF user[u].alive THEN down[u] \o ForServer(sent'[u])
                              ELSE <<>>]
  /\ swaps' = [swaps EXCEPT ![n].status = "answered"]
  /\ UNCHANGED <<user, up, db, ghosts>>

-----------------------------------------------------------------------------
SysNext ==
  \/ \E u \in Units : \/ Deliver(u) \/ Ask(u) \/ Approve(u) \/ Written(u) \/ Receive(u)
                      \/ Repair(u) \/ ComeAndGo(u) \/ Die(u)
  \/ RoomTick \/ RoomTimeout
  \/ \E n \in DOMAIN swaps : Swap(n) \/ Answer(n)

SysSpec == SysInit /\ [][SysNext]_sysVars

\* Queues are drained and the DB answers; nobody needs to ask for anything.
SysFairSpec ==
  /\ SysSpec
  /\ \A u \in Units : WF_sysVars(Deliver(u)) /\ WF_sysVars(Receive(u))
  /\ WF_sysVars(\E n \in DOMAIN swaps : Swap(n))
  /\ WF_sysVars(\E n \in DOMAIN swaps : Answer(n))

-----------------------------------------------------------------------------
(* Properties.                                                             *)

\* Every variable has its type; a unit's data are on their way to the DB only
\* while its approval is unanswered.
SysTypeOK ==
  /\ user \in [Units -> GS!User]
  /\ \A u \in Units : user[u].writes # {} => user[u].filter
  /\ \A u \in Units : \A m \in Range(down[u]) : m \in Message \cup [type : {"APPROVE_ACK"}]
  /\ db \in [items : [Items -> Units], ed : [Units -> Int]]
  /\ drifted \subseteq Units /\ astray \subseteq Units /\ upset \in BOOLEAN

\* An item a unit can use is that unit's in the DB too, and is not one it is
\* just giving away: at no time do two units have the same item.
OneHolder ==
  \A u \in Units : \A i \in user[u].items :
    /\ db.items[i] = u
    /\ \A n \in DOMAIN swaps :
         swaps[n].status = "asked" /\ u \in DOMAIN swaps[n].info => i \notin swaps[n].info[u].out

\* Every trade asks the DB for at most one swap, however often approvals and
\* checks were repeated.
OneSwapPerTrade ==
  \A m, n \in DOMAIN swaps : swaps[m].trade = swaps[n].trade => m = n

\* The DB is asked to swap exactly what lay on the table when both offers
\* stood, although the request is put together from the game servers'
\* reports; and no ED is made or lost by it.
SwapIsTheDeal ==
  \A n \in DOMAIN swaps :
    LET info == swaps[n].info
    IN swaps[n].status = "asked" /\ swaps[n].trade = trades
         /\ fsm = "DB_UPDATE" /\ Members = DOMAIN info
       => \A u \in Members : /\ info[u].out = users[u].items
                             /\ info[u].change = users[Other(u)].ed - users[u].ed

\* When nothing is on its way any more and the room is free, each unit's
\* inventory and written ED are those of the DB, nobody is left in a trade
\* or locked (the lock's time apart), unless something of no remedy has
\* happened; for the ED, unless the trade was carried out over unwritten ED.
\* Only one that left while about to enter may be left in a trade: the ack
\* of its entry arrives when its departure has taken it out of the room.
Quiet ==
  /\ fsm = "INIT"
  /\ \A u \in Units : up[u] = <<>> /\ down[u] = <<>> /\ user[u].writes = {}
  /\ \A n \in DOMAIN swaps : swaps[n].status = "answered"

QuietMeansSettled ==
  Quiet /\ ~upset =>
    \A u \in Units :
      /\ user[u].items = {i \in Items : db.items[i] = u}
      /\ u \notin drifted => user[u].init = db.ed[u]
      /\ user[u].trading => u \in astray
      /\ ~user[u].locked

\* A swap the room has entered ends, unless something of no remedy happens.
SwapEnds == fsm = "DB_UPDATE" ~> (fsm # "DB_UPDATE" \/ upset)

\* Trade.cpp:651 "have both traders approved?": a trader counts as having
\* approved a trade only if its client did so in that trade.
ApprovedHere ==
  \A u \in Members : users[u].approval => trades \in Range(pressed[u])

\* GSUserTrade.cpp:1023 "before the ED changes, check that it is
\* synchronised": a trade is carried out with all ED written to the DB.
SyncedWhenExecuted == drifted = {}

=============================================================================
