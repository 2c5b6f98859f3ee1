-------------------------- MODULE TradeSystemProofs --------------------------
(***************************************************************************)
(* Proofs about TradeSystem, for any units, items, amounts and bounds.     *)
(*                                                                         *)
(* First the types: every step of the system is a step of the trade room   *)
(* or leaves it alone, so the room's invariant holds in the system, and    *)
(* the channels hold what the two ends may send.  Then what a trade may    *)
(* rely on while no game server has died: each trader is told once to      *)
(* carry it out and reports once, what it reports is what lay on the       *)
(* table, the DB is asked once, and no item is with two.  Last, what is    *)
(* still to come unless something of no remedy has happened: whatever the  *)
(* DB or the room owes a unit is on its way to it, so that a quiet system  *)
(* is settled.                                                             *)
(***************************************************************************)
EXTENDS TradeSystem, TradeRoomProofs

UpMessage ==
  [type : {"OPEN"}, wallet : Int, peer : Units]
    \cup [type : {"JOIN"}, wallet : Int]
    \cup [type : {"BREAK"}, reason : Reasons]
    \cup [type : {"UPDATE_ITEM"}, item : Items, delete : BOOLEAN]
    \cup [type : {"UPDATE_ED"}, ed : EDs]
    \cup [type : {"OFFER", "APPROVE", "GS_DOWN"}]
    \cup [type : {"CONFIRM_ACK"}, ok : BOOLEAN]
    \cup [type : {"DB_RESULT"}, info : DBInfo]

DownMessage == Message \cup [type : {"APPROVE_ACK"}]

SwapRequest ==
  [trade : Nat, info : DBInfos, status : {"asked", "done", "failed", "answered"}]

\* How often, and in which order, messages of a type are in a channel.
None(s, t) == \A n \in DOMAIN s : s[n].type # t
One(s, t) == \A n, k \in DOMAIN s : s[n].type = t /\ s[k].type = t => n = k
Before(s, t, r) == \A n, k \in DOMAIN s : s[n].type = t /\ s[k].type = r => n < k

\* An approval is in one place at a time: on its way to the DB with the
\* unit's data, to the room, or answered on its way back; and as long as it is
\* anywhere the repeat filter holds the next one back.
OneApproval(x, s, t) ==
  IF x.alive
  THEN /\ One(s, "APPROVE") /\ One(t, "APPROVE_ACK")
       /\ None(s, "APPROVE") \/ None(t, "APPROVE_ACK")
       /\ x.writes # {} => None(s, "APPROVE") /\ None(t, "APPROVE_ACK")
       /\ ~x.filter => x.writes = {} /\ None(s, "APPROVE") /\ None(t, "APPROVE_ACK")
  ELSE x.writes = {}

GSTypes ==
  /\ user \in [Units -> GS!User]
  /\ up \in [Units -> Seq(UpMessage)]
  /\ down \in [Units -> Seq(DownMessage)]
  /\ \A u \in Units : OneApproval(user[u], up[u], down[u])

DBTypes == db \in [items : [Items -> Units], ed : [Units -> Int]]
SwapTypes == swaps \in Seq(SwapRequest) /\ trades \in Nat
GhostTypes == drifted \subseteq Units /\ astray \subseteq Units /\ upset \in BOOLEAN

SysTypes == IndInv /\ GSTypes /\ DBTypes /\ SwapTypes /\ GhostTypes

-----------------------------------------------------------------------------
(* Channels.                                                               *)

LEMMA TailElement ==
  ASSUME NEW S, NEW s \in Seq(S), s # <<>>
  PROVE  /\ Tail(s) \in Seq(S) /\ DOMAIN s = 1..Len(s) /\ DOMAIN Tail(s) = 1..Len(s)-1
         /\ Len(s) \in Nat /\ 1 \in DOMAIN s /\ Head(s) = s[1] /\ Head(s) \in S
         /\ \A n \in DOMAIN Tail(s) : n + 1 \in DOMAIN s /\ Tail(s)[n] = s[n+1]
         /\ \A n \in DOMAIN s : n # 1 => n - 1 \in DOMAIN Tail(s) /\ s[n] = Tail(s)[n - 1]
<1>1. Len(s) \in Nat /\ Len(s) # 0 /\ Len(Tail(s)) = Len(s) - 1
  OBVIOUS
<1>2. \A n \in 1..Len(s)-1 : Tail(s)[n] = s[n+1]
  OBVIOUS
<1> QED
  BY <1>1, <1>2

LEMMA AfterHead ==
  ASSUME NEW S, NEW s \in Seq(S), s # <<>>, NEW t, NEW r
  PROVE  /\ None(s, t) <=> Head(s).type # t /\ None(Tail(s), t)
         /\ One(s, t) => One(Tail(s), t)
         /\ One(s, t) /\ Head(s).type = t => None(Tail(s), t)
         /\ Before(s, t, r) => Before(Tail(s), t, r)
         /\ Before(s, t, r) /\ Head(s).type = r => None(s, t)
         /\ Range(Tail(s)) \subseteq Range(s) /\ Head(s) \in Range(s)
<1>0. /\ DOMAIN s = 1..Len(s) /\ DOMAIN Tail(s) = 1..Len(s)-1
      /\ Len(s) \in Nat /\ 1 \in DOMAIN s /\ Head(s) = s[1]
      /\ \A n \in DOMAIN Tail(s) : n + 1 \in DOMAIN s /\ Tail(s)[n] = s[n+1]
      /\ \A n \in DOMAIN s : n # 1 => n - 1 \in DOMAIN Tail(s) /\ s[n] = Tail(s)[n - 1]
  BY ONLY TailElement, s \in Seq(S), s # <<>>
<1> DEFINE q == Tail(s)
<1> HIDE DEF q
<1>1. None(s, t) <=> Head(s).type # t /\ None(q, t)
  BY ZenonT(60), <1>0 DEF None, q
<1>2. One(s, t) => One(q, t)
  BY <1>0 DEF One, q
<1>3. One(s, t) /\ Head(s).type = t => None(q, t)
  BY <1>0 DEF One, None, q
<1>4. Before(s, t, r) => Before(q, t, r)
  BY <1>0 DEF Before, q
<1>5. Before(s, t, r) /\ Head(s).type = r => None(s, t)
  BY <1>0 DEF Before, None
<1>6. Range(q) \subseteq Range(s) /\ Head(s) \in Range(s)
  BY <1>0 DEF Range, q
<1> QED
  BY <1>1, <1>2, <1>3, <1>4, <1>5, <1>6 DEF q

LEMMA AfterAppend ==
  ASSUME NEW S, NEW s \in Seq(S), NEW m, NEW t
  PROVE  /\ None(Append(s, m), t) <=> None(s, t) /\ m.type # t
         /\ One(s, t) /\ (m.type # t \/ None(s, t)) => One(Append(s, m), t)
         /\ Range(Append(s, m)) = Range(s) \cup {m}
<1>0. /\ DOMAIN s = 1..Len(s) /\ Len(s) \in Nat
      /\ DOMAIN Append(s, m) = 1..Len(s) + 1
      /\ Append(s, m)[Len(s) + 1] = m
      /\ \A n \in 1..Len(s) : Append(s, m)[n] = s[n]
  OBVIOUS
<1> DEFINE q == Append(s, m)
<1> HIDE DEF q
<1>1. None(q, t) <=> None(s, t) /\ m.type # t
  BY <1>0 DEF None, q
<1>2. One(s, t) /\ (m.type # t \/ None(s, t)) => One(q, t)
  BY <1>0 DEF One, None, q
<1>3. Range(q) = Range(s) \cup {m}
  BY <1>0 DEF Range, q
<1> QED
  BY <1>1, <1>2, <1>3 DEF q

LEMMA AfterConcat ==
  ASSUME NEW S, NEW s \in Seq(S), NEW q \in Seq(S), NEW t, NEW r
  PROVE  /\ None(s \o q, t) <=> None(s, t) /\ None(q, t)
         /\ One(s, t) /\ None(q, t) => One(s \o q, t)
         /\ None(s, t) /\ One(q, t) => One(s \o q, t)
         /\ Before(s, t, r) /\ None(q, t) => Before(s \o q, t, r)
         /\ None(s, r) /\ Before(q, t, r) => Before(s \o q, t, r)
         /\ Range(s \o q) = Range(s) \cup Range(q)
<1> DEFINE p == s \o q
<1>0. /\ Len(s) \in Nat /\ Len(q) \in Nat
      /\ DOMAIN s = 1..Len(s) /\ DOMAIN q = 1..Len(q)
      /\ DOMAIN p = 1..Len(s) + Len(q)
      /\ \A n \in DOMAIN s : p[n] = s[n]
      /\ \A n \in DOMAIN q : p[n + Len(s)] = q[n]
  BY ConcatProperties
<1>1. \A n \in DOMAIN p : \/ n \in DOMAIN s /\ p[n] = s[n]
                          \/ n - Len(s) \in DOMAIN q /\ p[n] = q[n - Len(s)]
  BY ConcatElement
<1> HIDE DEF p
<1>2. None(p, t) <=> None(s, t) /\ None(q, t)
  <2>1. None(p, t) => None(s, t)
    BY <1>0 DEF None
  <2>2. None(p, t) => None(q, t)
    <3> SUFFICES ASSUME None(p, t), NEW n \in DOMAIN q PROVE q[n].type # t
      BY DEF None
    <3>1. n + Len(s) \in DOMAIN p
      BY <1>0
    <3> QED
      BY <1>0, <3>1 DEF None
  <2>3. None(s, t) /\ None(q, t) => None(p, t)
    BY <1>1 DEF None
  <2> QED
    BY <2>1, <2>2, <2>3
<1>3. One(s, t) /\ None(q, t) => One(p, t)
  BY <1>0, <1>1 DEF One, None
<1>4. None(s, t) /\ One(q, t) => One(p, t)
  <2> SUFFICES ASSUME None(s, t), One(q, t), NEW n \in DOMAIN p, NEW k \in DOMAIN p,
                      p[n].type = t, p[k].type = t
               PROVE  n = k
    BY DEF One
  <2>1. n - Len(s) \in DOMAIN q /\ k - Len(s) \in DOMAIN q
        /\ q[n - Len(s)].type = t /\ q[k - Len(s)].type = t
    BY <1>1 DEF None
  <2>2. n - Len(s) = k - Len(s)
    BY <2>1 DEF One
  <2> QED
    BY <1>0, <2>2
<1>5. Before(s, t, r) /\ None(q, t) => Before(p, t, r)
  <2> SUFFICES ASSUME Before(s, t, r), None(q, t), NEW n \in DOMAIN p, NEW k \in DOMAIN p,
                      p[n].type = t, p[k].type = r
               PROVE  n < k
    BY DEF Before
  <2>1. n \in DOMAIN s /\ s[n].type = t
    BY <1>1 DEF None
  <2>2. CASE k \in DOMAIN s /\ p[k] = s[k]
    BY <2>1, <2>2 DEF Before
  <2>3. CASE k - Len(s) \in DOMAIN q
    BY <1>0, <2>1, <2>3
  <2> QED
    BY <1>1, <2>2, <2>3
<1>6. None(s, r) /\ Before(q, t, r) => Before(p, t, r)
  <2> SUFFICES ASSUME None(s, r), Before(q, t, r), NEW n \in DOMAIN p, NEW k \in DOMAIN p,
                      p[n].type = t, p[k].type = r
               PROVE  n < k
    BY DEF Before
  <2>1. k - Len(s) \in DOMAIN q /\ q[k - Len(s)].type = r
    BY <1>1 DEF None
  <2>2. CASE n \in DOMAIN s
    BY <1>0, <2>1, <2>2
  <2>3. CASE n - Len(s) \in DOMAIN q /\ p[n] = q[n - Len(s)]
    <3>1. n - Len(s) < k - Len(s)
      BY <2>1, <2>3 DEF Before
    <3> QED
      BY <1>0, <3>1
  <2> QED
    BY <1>1, <2>2, <2>3
<1>7. Range(p) = Range(s) \cup Range(q)
  <2>1. \A n \in DOMAIN q : n + Len(s) \in DOMAIN p
    BY <1>0
  <2>2. \A n \in DOMAIN s : n \in DOMAIN p
    BY <1>0
  <2> QED
    BY <1>0, <1>1, <2>1, <2>2 DEF Range
<1> QED
  BY <1>2, <1>3, <1>4, <1>5, <1>6, <1>7 DEF p

-----------------------------------------------------------------------------
(* The room's steps in the system are steps of the room.                   *)

LEMMA Handled ==
  ASSUME NEW u \in Units, NEW m \in UpMessage, Handle(u, m)
  PROVE  Request(u) \/ (m.type = "GS_DOWN" /\ CheckInvalidUser(u))
<1>0. u \in Servers /\ Wallets = Int
  BY SystemAssumption
<1>1. ASSUME m.type = "OPEN", OpenTradeReq(u, u, m.wallet, m.peer) PROVE Request(u)
  BY <1>0, <1>1 DEF UpMessage, Request
<1>2. ASSUME m.type = "JOIN", JoinTradeReq(u, u, m.wallet) PROVE Request(u)
  BY <1>0, <1>2 DEF UpMessage, Request
<1>3. ASSUME m.type = "BREAK", BreakTradeReq(u, m.reason) PROVE Request(u)
  BY <1>3 DEF UpMessage, Request
<1>4. ASSUME m.type = "UPDATE_ITEM", UpdateTradeItemReq(u, m.item, m.delete) PROVE Request(u)
  BY <1>4 DEF UpMessage, Request
<1>5. ASSUME m.type = "UPDATE_ED", UpdateTradeEDReq(u, m.ed) PROVE Request(u)
  BY <1>5 DEF UpMessage, Request
<1>6. ASSUME m.type = "CONFIRM_ACK", ConfirmTradeAck(u, m.ok) PROVE Request(u)
  BY <1>6 DEF UpMessage, Request
<1>7. ASSUME m.type = "DB_RESULT", DBUpdateTradeResultNot(u, m.info) PROVE Request(u)
  BY <1>7 DEF UpMessage, Request
<1> QED
  BY <1>1, <1>2, <1>3, <1>4, <1>5, <1>6, <1>7 DEF Handle, Request

LEMMA HandledInv ==
  ASSUME IndInv, NEW u \in Units, NEW m \in UpMessage, Handle(u, m)
  PROVE  IndInv'
  BY Handled, RequestInv, CheckInvalidUserInv

\* The one handler that asks the DB.
Report(u, g) ==
  LET us == [users EXCEPT ![u].dbInfo = {g}]
  IN /\ fsm = "DB_UPDATE" /\ fsm' = fsm /\ u \in Members
     /\ users' = us /\ sent' = Silence
     /\ \/ ~AllDBReady(us) /\ sentDB' = {}
        \/ AllDBReady(us) /\ sentDB' = {[v \in Members |-> CHOOSE h \in us[v].dbInfo : TRUE]}

LEMMA RequestAsks ==
  ASSUME IndInv, NEW u \in Units, Request(u)
  PROVE  sentDB' = {} \/ \E g \in DBInfo : Report(u, g)
<1>1. ASSUME NEW g \in DBInfo, DBUpdateTradeResultNot(u, g)
      PROVE  sentDB' = {} \/ Report(u, g)
  BY <1>1 DEF DBUpdateTradeResultNot, Ignore, Keep, BreakTrade, Report
<1>2. ASSUME \/ \E gs \in Servers, wallet \in Wallets :
                   \/ \E peer \in Units : OpenTradeReq(u, gs, wallet, peer)
                   \/ JoinTradeReq(u, gs, wallet)
             \/ \E reason \in Reasons : BreakTradeReq(u, reason)
      PROVE  sentDB' = {}
  BY <1>2 DEF OpenTradeReq, JoinTradeReq, BreakTradeReq, Ignore, Keep, BreakTrade
<1>3. ASSUME \/ \E item \in Items, delete \in BOOLEAN : UpdateTradeItemReq(u, item, delete)
             \/ \E ed \in EDs : UpdateTradeEDReq(u, ed)
      PROVE  sentDB' = {}
  BY <1>3 DEF UpdateTradeItemReq, UpdateTradeEDReq, Ignore, Keep
<1>4. ASSUME OfferTradeReq(u) \/ ApproveTradeReq(u) PROVE sentDB' = {}
  BY <1>4 DEF OfferTradeReq, ApproveTradeReq, Ignore, Keep, BreakTrade
<1>5. ASSUME NEW ok \in BOOLEAN, ConfirmTradeAck(u, ok) PROVE sentDB' = {}
  BY <1>5 DEF ConfirmTradeAck, Ignore, Keep, BreakTrade
<1> QED
  BY <1>1, <1>2, <1>3, <1>4, <1>5 DEF Request

\* What is asked of the DB names the two traders.
LEMMA AskedOfDB ==
  ASSUME IndInv, IndInv', NEW u \in Units, NEW m \in UpMessage, Handle(u, m)
  PROVE  sentDB' \subseteq DBInfos
<1>1. CASE sentDB' = {}
  BY <1>1
<1>2. CASE \E g \in DBInfo : Report(u, g)
  <2>1. users \in UserMap /\ Members \subseteq Units /\ Cardinality(Members) = 2
    BY <1>2, TypeOKUsers, UserMapDomain DEF Report, IndInv, ReadyToSwap, NumMember, Members
  <2>2. DOMAIN users' = Members
    BY <1>2 DEF Report, Members
  <2>3. sentDB' \subseteq [Members -> DBInfo]
    BY <2>2, TypeOKNext DEF IndInv
  <2>4. [Members -> DBInfo] \subseteq DBInfos
    BY <2>1 DEF DBInfos
  <2> QED
    BY <2>3, <2>4
<1>3. CheckInvalidUser(u) => sentDB' = {}
  BY DEF CheckInvalidUser, Ignore, Keep, BreakTrade
<1> QED
  BY <1>1, <1>2, <1>3, Handled, RequestAsks

LEMMA Concat3 ==
  ASSUME NEW S, NEW r \in Seq(S), NEW s \in Seq(S), NEW t \in Seq(S)
  PROVE  r \o s \o t \in Seq(S)
<1>1. r \o s \in Seq(S)
  BY ConcatProperties
<1> DEFINE rs == r \o s
<1> HIDE DEF rs
<1>2. rs \o t \in Seq(S)
  BY <1>1, ConcatProperties DEF rs
<1> QED
  BY <1>2 DEF rs

LEMMA Forwarded ==
  ASSUME GSTypes, SwapTypes, sent' \in Notices, sentDB' \subseteq DBInfos,
         NEW acks \in [Units -> Seq(DownMessage)], Forward(acks)
  PROVE  /\ down' \in [Units -> Seq(DownMessage)]
         /\ swaps' \in Seq(SwapRequest)
<1>1. ASSUME NEW u \in Units PROVE down[u] \o acks[u] \o ForServer(sent'[u]) \in Seq(DownMessage)
  <2>1. sent'[u] \in Seq(Message)
    BY DEF Notices
  <2>2. sent'[u] \in Seq(DownMessage)
    BY <2>1 DEF DownMessage
  <2>3. ForServer(sent'[u]) \in Seq(DownMessage)
    BY <2>2 DEF ForServer
  <2>4. down[u] \in Seq(DownMessage) /\ acks[u] \in Seq(DownMessage)
    BY DEF GSTypes
  <2> QED
    BY ONLY <2>3, <2>4, Concat3
<1>2. down' \in [Units -> Seq(DownMessage)]
  BY <1>1 DEF Forward
<1>3. CASE sentDB' = {}
  BY <1>2, <1>3 DEF Forward, SwapTypes
<1>4. CASE sentDB' # {}
  <2> DEFINE info == CHOOSE i \in sentDB' : TRUE
             s == [trade |-> trades, info |-> info, status |-> "asked"]
  <2>1. info \in DBInfos
    BY <1>4
  <2> HIDE DEF info
  <2>2. s \in SwapRequest
    BY <2>1 DEF SwapRequest, SwapTypes
  <2>3. Append(swaps, s) \in Seq(SwapRequest)
    BY <2>2 DEF SwapTypes
  <2> QED
    BY <1>2, <1>4, <2>3 DEF Forward, info
<1> QED
  BY <1>2, <1>3, <1>4

-----------------------------------------------------------------------------
(* The game servers' steps keep the types.                                 *)

\* At[f, u, x]: f with x for u.
At(f, u, x) == [v \in Units |-> IF v = u THEN x ELSE f[v]]

LEMMA OneUnit ==
  ASSUME GSTypes, NEW u \in Units, NEW x \in GS!User, NEW s \in Seq(UpMessage),
         NEW t \in Seq(DownMessage), OneApproval(x, s, t),
         user' = At(user, u, x), up' = At(up, u, s), down' = At(down, u, t)
  PROVE  GSTypes'
<1>1. /\ user' \in [Units -> GS!User]
      /\ up' \in [Units -> Seq(UpMessage)]
      /\ down' \in [Units -> Seq(DownMessage)]
  BY DEF GSTypes, At
<1>2. \A v \in Units : OneApproval(user'[v], up'[v], down'[v])
  BY Zenon DEF GSTypes, At
<1> QED
  BY <1>1, <1>2 DEF GSTypes

\* f is as it was for everybody.
LEMMA AtSame ==
  ASSUME GSTypes, NEW u \in Units
  PROVE  /\ user = At(user, u, user[u]) /\ up = At(up, u, up[u]) /\ down = At(down, u, down[u])
         /\ \A x : /\ [user EXCEPT ![u] = x] = At(user, u, x)
                   /\ [up EXCEPT ![u] = x] = At(up, u, x)
                   /\ [down EXCEPT ![u] = x] = At(down, u, x)
         /\ user[u] \in GS!User /\ up[u] \in Seq(UpMessage) /\ down[u] \in Seq(DownMessage)
         /\ OneApproval(user[u], up[u], down[u])
  BY DEF GSTypes, At

LEMMA Sends ==
  ASSUME GSTypes, NEW u \in Units, NEW m \in UpMessage, m.type # "APPROVE",
         NEW s, s = up[u] \/ s = Append(up[u], m)
  PROVE  /\ s \in Seq(UpMessage)
         /\ None(s, "APPROVE") <=> None(up[u], "APPROVE")
         /\ One(up[u], "APPROVE") => One(s, "APPROVE")
<1>1. up[u] \in Seq(UpMessage)
  BY DEF GSTypes
<1>2. Append(up[u], m) \in Seq(UpMessage)
  BY <1>1
<1>3. /\ None(Append(up[u], m), "APPROVE") <=> None(up[u], "APPROVE")
      /\ One(up[u], "APPROVE") => One(Append(up[u], m), "APPROVE")
  BY <1>1, AfterAppend
<1> QED
  BY <1>1, <1>2, <1>3

LEMMA Takes ==
  ASSUME GSTypes, NEW u \in Units, GS!Take(u)
  PROVE  /\ user[u].alive /\ GS!Next(u) \in DownMessage
         /\ Tail(down[u]) \in Seq(DownMessage) /\ down' = At(down, u, Tail(down[u]))
         /\ None(down[u], "APPROVE_ACK") => None(Tail(down[u]), "APPROVE_ACK")
         /\ One(down[u], "APPROVE_ACK") => One(Tail(down[u]), "APPROVE_ACK")
         /\ One(down[u], "APPROVE_ACK") /\ GS!Next(u).type = "APPROVE_ACK"
              => None(Tail(down[u]), "APPROVE_ACK")
<1>1. down[u] \in Seq(DownMessage) /\ down[u] # <<>>
  BY DEF GSTypes, GS!Take
<1>2. Tail(down[u]) \in Seq(DownMessage) /\ GS!Next(u) \in DownMessage
  BY <1>1 DEF GS!Next
<1>3. user[u].alive /\ down' = At(down, u, Tail(down[u]))
  BY AtSame DEF GS!Take
<1> QED
  BY <1>1, <1>2, <1>3, AfterHead DEF GS!Next

\* A request of the client that is sent on: the unit itself is unchanged.
LEMMA Requests ==
  ASSUME GSTypes, NEW u \in Units, NEW m \in UpMessage, m.type # "APPROVE",
         NEW s, s = up[u] \/ s = Append(up[u], m), up' = At(up, u, s),
         UNCHANGED <<user, down>>
  PROVE  GSTypes'
<1>1. OneApproval(user[u], s, down[u])
  BY Sends, AtSame DEF OneApproval
<1> QED
  BY <1>1, OneUnit, AtSame, Sends

LEMMA AskTypes ==
  ASSUME GSTypes, NEW u \in Units, Ask(u)
  PROVE  GSTypes'
<1>0. user[u] \in GS!User /\ up \in [Units -> Seq(UpMessage)]
  BY DEF GSTypes
<1>1. ASSUME NEW peer \in Units, GS!OpenTrade(u, peer) PROVE GSTypes'
  <2>1. [type |-> "OPEN", wallet |-> user[u].ed, peer |-> peer] \in UpMessage
    BY <1>0 DEF GS!User, UpMessage
  <2> DEFINE m == [type |-> "OPEN", wallet |-> user[u].ed, peer |-> peer]
  <2>2. m.type # "APPROVE" /\ UNCHANGED <<user, down>>
        /\ up' = [up EXCEPT ![u] = Append(up[u], m)]
    BY <1>1 DEF GS!OpenTrade
  <2> HIDE DEF m
  <2>3. up' = At(up, u, Append(up[u], m))
    BY <2>2, AtSame
  <2> QED
    BY <2>1, <2>2, <2>3, Requests DEF m
<1>2. ASSUME NEW m \in UpMessage, m.type # "APPROVE", GS!ToRoom(u, m), UNCHANGED <<user, down>>
      PROVE  GSTypes'
  <2> DEFINE s == IF user[u].trading THEN Append(up[u], m) ELSE up[u]
  <2>1. up' = At(up, u, s)
    BY <1>0, <1>2 DEF GS!ToRoom, At
  <2> QED
    BY <1>2, <2>1, Requests
<1>3. ASSUME NEW reason \in Reasons, GS!BreakTrade(u, reason) PROVE GSTypes'
  <2>1. [type |-> "BREAK", reason |-> reason] \in UpMessage
    BY DEF UpMessage
  <2> QED
    BY <1>2, <1>3, <2>1 DEF GS!BreakTrade
<1>4. ASSUME NEW item \in Items, NEW delete \in Deletes, GS!UpdateTradeItem(u, item, delete)
      PROVE  GSTypes'
  <2>1. [type |-> "UPDATE_ITEM", item |-> item, delete |-> delete] \in UpMessage
    BY SystemAssumption DEF UpMessage
  <2> QED
    BY <1>2, <1>4, <2>1 DEF GS!UpdateTradeItem, GS!Relay
<1>5. ASSUME NEW ed \in Bids, GS!UpdateTradeED(u, ed) PROVE GSTypes'
  <2>1. [type |-> "UPDATE_ED", ed |-> ed] \in UpMessage
    BY SystemAssumption DEF UpMessage
  <2> QED
    BY <1>2, <1>5, <2>1 DEF GS!UpdateTradeED, GS!Relay
<1>6. ASSUME GS!OfferTrade(u) PROVE GSTypes'
  <2>1. GS!Plain("OFFER") \in UpMessage /\ GS!Plain("OFFER").type # "APPROVE"
    BY DEF GS!Plain, UpMessage
  <2> QED
    BY <1>2, <1>6, <2>1 DEF GS!OfferTrade, GS!Relay
<1> QED
  BY <1>1, <1>3, <1>4, <1>5, <1>6 DEF Ask

LEMMA ApproveTypes ==
  ASSUME GSTypes, NEW u \in Units, Approve(u)
  PROVE  GSTypes'
<1> DEFINE x == [[[user[u] EXCEPT !.filter = TRUE]
                    EXCEPT !.writes = {user[u].ed - user[u].init}]
                    EXCEPT !.init = user[u].ed]
<1>0. user[u] \in GS!User /\ user \in [Units -> GS!User]
  BY DEF GSTypes
<1>1. user[u].ed \in Int /\ {user[u].ed - user[u].init} \in SUBSET Int
  BY <1>0 DEF GS!User
<1>2. x \in GS!User
  <2> DEFINE w == {user[u].ed - user[u].init}
  <2> HIDE DEF w
  <2>1. w \in SUBSET Int
    BY <1>1 DEF w
  <2>2. [[[user[u] EXCEPT !.filter = TRUE] EXCEPT !.writes = w] EXCEPT !.init = user[u].ed]
          \in GS!User
    BY <1>0, <1>1, <2>1 DEF GS!User
  <2> QED
    BY <2>2 DEF w
<1>3. x.filter /\ x.alive = user[u].alive
  BY <1>0 DEF GS!User
<1>4. UNCHANGED <<up, down>> /\ user' = At(user, u, x)
  BY <1>0 DEF Approve, GS!ApproveTrade, At
<1>5. user[u].alive /\ ~user[u].filter
  BY DEF Approve, GS!ApproveTrade, GS!Client
<1> HIDE DEF x
<1>6. OneApproval(x, up[u], down[u])
  BY <1>3, <1>5, AtSame DEF OneApproval
<1> QED
  BY <1>2, <1>4, <1>6, OneUnit, AtSame

LEMMA WrittenTypes ==
  ASSUME GSTypes, NEW u \in Units, Written(u)
  PROVE  GSTypes'
<1>0. user[u] \in GS!User /\ user \in [Units -> GS!User] /\ up \in [Units -> Seq(UpMessage)]
  BY DEF GSTypes
<1>1. PICK change \in user[u].writes : \E ok \in BOOLEAN : GS!UnitInfoWritten(u, change, ok)
  BY DEF Written
<1>2. PICK ok \in BOOLEAN : GS!UnitInfoWritten(u, change, ok)
  BY <1>1
<1> DEFINE i == IF ok THEN user[u].init ELSE user[u].init - change
           x == [[user[u] EXCEPT !.writes = {}] EXCEPT !.init = i]
           m == GS!Plain("APPROVE")
           s == IF user[u].trading THEN Append(up[u], m) ELSE up[u]
<1>3. i \in Int
  BY <1>0 DEF GS!User
<1>4. user' = At(user, u, x)
  BY <1>0, <1>2 DEF GS!UnitInfoWritten, At
<1>5. down' = down /\ up' = At(up, u, s) /\ user[u].alive
  BY <1>0, <1>2 DEF GS!UnitInfoWritten, GS!ToRoom, At
<1> HIDE DEF i
<1>6. x \in GS!User /\ x.writes = {} /\ x.filter = user[u].filter /\ x.alive
  BY <1>0, <1>3, <1>5 DEF GS!User
<1> HIDE DEF x
<1>7. m \in UpMessage /\ m.type = "APPROVE"
  BY DEF GS!Plain, UpMessage
<1> HIDE DEF m
<1>8. /\ up[u] \in Seq(UpMessage) /\ Append(up[u], m) \in Seq(UpMessage)
      /\ None(up[u], "APPROVE") => One(Append(up[u], m), "APPROVE")
  <2>1. up[u] \in Seq(UpMessage)
    BY <1>0
  <2>2. None(up[u], "APPROVE") => One(up[u], "APPROVE")
    BY DEF None, One
  <2> QED
    BY <1>7, <2>1, <2>2, AfterAppend
<1>9. s \in Seq(UpMessage) /\ OneApproval(x, s, down[u])
  <2>1. /\ user[u].writes # {} /\ user[u].filter
        /\ None(up[u], "APPROVE") /\ None(down[u], "APPROVE_ACK")
        /\ One(up[u], "APPROVE") /\ One(down[u], "APPROVE_ACK")
    BY <1>1, <1>5, AtSame DEF OneApproval
  <2> QED
    BY <1>6, <1>8, <2>1 DEF OneApproval
<1> HIDE DEF s
<1> QED
  BY <1>4, <1>5, <1>6, <1>9, OneUnit, AtSame

\* A packet that is taken, with a change of the unit that leaves its
\* approval alone, and an answer perhaps.
LEMMA TakenTypes ==
  ASSUME GSTypes, NEW u \in Units, GS!Take(u), NEW x \in GS!User, user' = At(user, u, x),
         x.alive = user[u].alive /\ x.filter = user[u].filter /\ x.writes = user[u].writes,
         NEW s, s \in Seq(UpMessage), up' = At(up, u, s),
         None(s, "APPROVE") <=> None(up[u], "APPROVE"),
         One(up[u], "APPROVE") => One(s, "APPROVE")
  PROVE  GSTypes'
<1>1. OneApproval(x, s, Tail(down[u]))
  BY Takes, AtSame DEF OneApproval
<1> QED
  BY <1>1, OneUnit, Takes

LEMMA AnsweredTypes ==
  ASSUME GSTypes, NEW u \in Units, GS!Take(u), NEW x \in GS!User, user' = At(user, u, x),
         x.alive = user[u].alive /\ x.filter = user[u].filter /\ x.writes = user[u].writes,
         NEW m \in UpMessage, m.type # "APPROVE", GS!ToRoom(u, m)
  PROVE  GSTypes'
<1> DEFINE s == IF user[u].trading THEN Append(up[u], m) ELSE up[u]
<1>1. up' = At(up, u, s)
  BY DEF GSTypes, GS!ToRoom, At
<1>2. s = up[u] \/ s = Append(up[u], m)
  OBVIOUS
<1> HIDE DEF s
<1> QED
  BY <1>1, <1>2, Sends, TakenTypes

\* What the room orders, and what is reported of it.
LEMMA OrderTypes ==
  ASSUME NEW m \in DownMessage, m.type = "CONFIRM_NOT"
  PROVE  /\ m.out \in Goods /\ m.in \in Goods
         /\ GS!Report(m) \in DBInfo
         /\ [type |-> "DB_RESULT", info |-> GS!Report(m)] \in UpMessage
<1>1. m.out \in Goods /\ m.in \in Goods
  BY DEF DownMessage, Message
<1>2. m.out.items \in SUBSET Items /\ m.out.ed \in EDs /\ m.in.ed \in EDs
  BY <1>1 DEF Goods
<1>3. GS!Report(m) \in DBInfo
  BY <1>2, InfoAssumption DEF GS!Report
<1> QED
  BY <1>1, <1>3 DEF UpMessage

LEMMA DeductedUser ==
  ASSUME GSTypes, NEW u \in Units, NEW m, m.out \in Goods, m.in \in Goods
  PROVE  \E x \in GS!User : /\ GS!Deducted(u, m) = At(user, u, x)
                            /\ x.alive = user[u].alive /\ x.filter = user[u].filter
                            /\ x.writes = user[u].writes
                            /\ x.items = user[u].items \ m.out.items
<1>0. user[u] \in GS!User /\ user \in [Units -> GS!User]
  BY DEF GSTypes
<1>1. m.out.items \in SUBSET Items /\ m.out.ed \in Int /\ m.in.ed \in Int
  BY AmountAssumption DEF Goods
<1> DEFINE ed == user[u].ed + m.in.ed - m.out.ed
           items == user[u].items \ m.out.items
           x == [[[[user[u] EXCEPT !.ed = ed] EXCEPT !.init = ed] EXCEPT !.items = items]
                   EXCEPT !.locked = TRUE]
<1>2. ed \in Int /\ items \in SUBSET Items
  BY <1>0, <1>1 DEF GS!User
<1>3. GS!Deducted(u, m) = At(user, u, x)
  BY <1>0 DEF GS!Deducted, At
<1> HIDE DEF ed, items
<1>4. x \in GS!User /\ x.alive = user[u].alive /\ x.filter = user[u].filter
      /\ x.writes = user[u].writes /\ x.items = items
  BY <1>0, <1>2 DEF GS!User
<1> HIDE DEF x
<1> QED
  BY <1>3, <1>4 DEF items

LEMMA CompletedUser ==
  ASSUME GSTypes, NEW u \in Units, NEW in \in SUBSET Items,
         user' = [user EXCEPT ![u].locked = FALSE, ![u].items = @ \cup in]
  PROVE  \E x \in GS!User : /\ user' = At(user, u, x)
                            /\ x.alive = user[u].alive /\ x.filter = user[u].filter
                            /\ x.writes = user[u].writes
                            /\ x.items = user[u].items \cup in
<1>0. user[u] \in GS!User /\ user \in [Units -> GS!User]
  BY DEF GSTypes
<1> DEFINE items == user[u].items \cup in
           x == [[user[u] EXCEPT !.locked = FALSE] EXCEPT !.items = items]
<1>1. user' = At(user, u, x)
  BY <1>0 DEF At
<1>2. items \in SUBSET Items
  BY <1>0 DEF GS!User
<1> HIDE DEF items
<1>3. x \in GS!User /\ x.alive = user[u].alive /\ x.filter = user[u].filter
      /\ x.writes = user[u].writes /\ x.items = items
  BY <1>0, <1>2 DEF GS!User
<1> HIDE DEF x
<1> QED
  BY <1>1, <1>3 DEF items

LEMMA ReceiveTypes ==
  ASSUME GSTypes, NEW u \in Units, GS!Receive(u)
  PROVE  GSTypes'
<1>0. /\ user[u] \in GS!User /\ user \in [Units -> GS!User]
      /\ up \in [Units -> Seq(UpMessage)] /\ up[u] \in Seq(UpMessage)
  BY DEF GSTypes
<1>1. GS!Take(u) /\ GS!Next(u) \in DownMessage
  <2>1. GS!Take(u)
    BY DEF GS!Receive, GS!EnterTrade, GS!AcceptJoin, GS!TradeBroken, GS!ApproveAck,
           GS!NotHere, GS!ConfirmNot, GS!CompleteNot, GS!ConfirmReq
  <2> QED
    BY <2>1, Takes
<1>2. ASSUME GS!EnterTrade(u) \/ GS!TradeBroken(u) PROVE GSTypes'
  <2>1. PICK t \in BOOLEAN : user' = [user EXCEPT ![u].trading = t] /\ up' = up
    <3>1. CASE GS!EnterTrade(u)
      <4>1. (user[u].trading \/ user[u].here) \in BOOLEAN
        OBVIOUS
      <4> QED
        BY <3>1, <4>1 DEF GS!EnterTrade
    <3> QED
      BY <1>2, <3>1 DEF GS!TradeBroken
  <2> DEFINE x == [user[u] EXCEPT !.trading = t]
  <2>2. x \in GS!User /\ x.alive = user[u].alive /\ x.filter = user[u].filter
        /\ x.writes = user[u].writes
    BY <1>0 DEF GS!User
  <2>3. user' = At(user, u, x)
    BY <2>1, AtSame
  <2> HIDE DEF x
  <2> QED
    BY ZenonT(60), <1>0, <1>1, <2>1, <2>2, <2>3, TakenTypes, AtSame
<1>3. ASSUME GS!AcceptJoin(u) PROVE GSTypes'
  <2> DEFINE m == [type |-> "JOIN", wallet |-> user[u].ed]
             s == IF user[u].here /\ ~user[u].trading THEN Append(up[u], m) ELSE up[u]
  <2>1. m \in UpMessage /\ m.type # "APPROVE"
    BY <1>0 DEF GS!User, UpMessage
  <2>2. user' = user /\ up' = At(up, u, s)
    BY <1>0, <1>3 DEF GS!AcceptJoin, At
  <2> HIDE DEF m
  <2>3. s = up[u] \/ s = Append(up[u], m)
    OBVIOUS
  <2> HIDE DEF s
  <2> QED
    BY <1>0, <1>1, <2>1, <2>2, <2>3, Sends, TakenTypes, AtSame
<1>4. ASSUME GS!ApproveAck(u) PROVE GSTypes'
  <2> DEFINE x == [user[u] EXCEPT !.filter = FALSE]
  <2>1. x \in GS!User /\ x.alive = user[u].alive /\ x.writes = user[u].writes
    BY <1>0 DEF GS!User
  <2>2. user' = At(user, u, x) /\ up' = up
    BY <1>4, AtSame DEF GS!ApproveAck
  <2> HIDE DEF x
  <2>3. GS!Next(u).type = "APPROVE_ACK" /\ ~None(down[u], "APPROVE_ACK")
    <3>1. down[u] \in Seq(DownMessage) /\ down[u] # <<>>
      BY <1>1, AtSame DEF GS!Take
    <3> QED
      BY <1>4, <3>1, AfterHead DEF GS!ApproveAck, GS!Next
  <2>4. OneApproval(x, up[u], Tail(down[u]))
    BY <1>1, <2>1, <2>3, Takes, AtSame DEF OneApproval
  <2> QED
    BY ZenonT(60), <1>1, <2>1, <2>2, <2>4, Takes, OneUnit, AtSame
<1>5. ASSUME GS!NotHere(u) PROVE GSTypes'
  BY <1>0, <1>1, <1>5, TakenTypes, AtSame DEF GS!NotHere
<1>6. ASSUME GS!ConfirmNot(u) PROVE GSTypes'
  <2> DEFINE m == [type |-> "DB_RESULT", info |-> GS!Report(GS!Next(u))]
  <2>1. /\ GS!Next(u).out \in Goods /\ GS!Next(u).in \in Goods
        /\ m \in UpMessage /\ m.type # "APPROVE"
    BY <1>1, <1>6, OrderTypes DEF GS!ConfirmNot
  <2>2. user' = GS!Deducted(u, GS!Next(u)) /\ GS!ToRoom(u, m)
    BY <1>6 DEF GS!ConfirmNot
  <2> HIDE DEF m
  <2>3. PICK x \in GS!User :
          /\ user' = At(user, u, x) /\ x.alive = user[u].alive
          /\ x.filter = user[u].filter /\ x.writes = user[u].writes
    BY <2>1, <2>2, DeductedUser
  <2> QED
    BY <1>1, <2>1, <2>2, <2>3, AnsweredTypes
<1>7. ASSUME GS!CompleteNot(u) PROVE GSTypes'
  <2>1. GS!Next(u).info.in \in SUBSET Items
    BY <1>1, <1>7, InfoAssumption DEF GS!CompleteNot, DownMessage, Message
  <2>2. PICK x \in GS!User :
          /\ user' = At(user, u, x) /\ x.alive = user[u].alive
          /\ x.filter = user[u].filter /\ x.writes = user[u].writes
    BY <1>7, <2>1, CompletedUser DEF GS!CompleteNot
  <2>3. up' = At(up, u, up[u])
    BY <1>7, AtSame DEF GS!CompleteNot
  <2> QED
    BY <1>0, <1>1, <2>2, <2>3, TakenTypes
<1>8. ASSUME NEW room \in BOOLEAN, GS!ConfirmReq(u, room) PROVE GSTypes'
  <2> DEFINE ok == GS!HasGoods(u, GS!Next(u).out) /\ room
             m == [type |-> "CONFIRM_ACK", ok |-> ok]
  <2>1. ok \in BOOLEAN
    OBVIOUS
  <2>2. GS!ToRoom(u, m) /\ user' = user
    BY <1>8 DEF GS!ConfirmReq
  <2> HIDE DEF ok
  <2>3. m \in UpMessage /\ m.type # "APPROVE"
    BY <2>1 DEF UpMessage
  <2> HIDE DEF m
  <2> QED
    BY <1>0, <1>1, <2>2, <2>3, AnsweredTypes, AtSame
<1> QED
  BY <1>2, <1>3, <1>4, <1>5, <1>6, <1>7, <1>8 DEF GS!Receive

\* The unit's own affairs, and its comings and goings.
LEMMA OwnAffairsTypes ==
  ASSUME GSTypes, NEW u \in Units,
         Repair(u) \/ GS!Return(u) \/ GS!LockTimeout(u) \/ \E here \in BOOLEAN : GS!Leave(u, here)
  PROVE  GSTypes'
<1>0. user[u] \in GS!User /\ user \in [Units -> GS!User] /\ up \in [Units -> Seq(UpMessage)]
  BY DEF GSTypes
<1>1. ASSUME NEW x \in GS!User, user' = At(user, u, x), x.alive = user[u].alive,
             x.filter = user[u].filter, x.writes = user[u].writes,
             NEW m \in UpMessage, m.type # "APPROVE", GS!ToRoom(u, m) \/ up' = up, down' = down
      PROVE  GSTypes'
  <2> DEFINE s == IF up' = up THEN up[u]
                  ELSE IF user[u].trading THEN Append(up[u], m) ELSE up[u]
  <2>1. up' = At(up, u, s)
    BY <1>0, <1>1 DEF GS!ToRoom, At
  <2>2. s = up[u] \/ s = Append(up[u], m)
    OBVIOUS
  <2> HIDE DEF s
  <2>3. OneApproval(x, s, down[u])
    BY <1>1, <2>2, Sends, AtSame DEF OneApproval
  <2> QED
    BY <1>1, <2>1, <2>2, <2>3, Sends, OneUnit, AtSame
<1> DEFINE leave == [type |-> "BREAK", reason |-> 1]
<1>2. leave \in UpMessage /\ leave.type # "APPROVE"
  BY SystemAssumption DEF UpMessage, Logout
<1>3. ASSUME Repair(u) PROVE GSTypes'
  <2> DEFINE ed == user[u].ed - 1
             x == [user[u] EXCEPT !.ed = ed]
  <2>1. ed \in Int
    BY <1>0 DEF GS!User
  <2>2. user' = At(user, u, x) /\ up' = up /\ down' = down
    BY <1>0, <1>3 DEF Repair, GS!RepairItem, At
  <2> HIDE DEF ed
  <2>3. x \in GS!User /\ x.alive = user[u].alive /\ x.filter = user[u].filter
        /\ x.writes = user[u].writes
    BY <1>0, <2>1 DEF GS!User
  <2> HIDE DEF x, leave
  <2> QED
    BY <1>1, <1>2, <2>2, <2>3
<1>4. ASSUME GS!Return(u) \/ GS!LockTimeout(u) PROVE GSTypes'
  <2> DEFINE x == IF GS!Return(u) THEN [user[u] EXCEPT !.here = TRUE]
                  ELSE [user[u] EXCEPT !.locked = FALSE]
  <2>1. user' = At(user, u, x) /\ up' = up /\ down' = down
    BY ZenonT(60), <1>0, <1>4, AtSame DEF GS!Return, GS!LockTimeout
  <2>2. x \in GS!User /\ x.alive = user[u].alive /\ x.filter = user[u].filter
        /\ x.writes = user[u].writes
    BY <1>0 DEF GS!User
  <2> HIDE DEF x, leave
  <2> QED
    BY <1>1, <1>2, <2>1, <2>2
<1>5. ASSUME NEW here \in BOOLEAN, GS!Leave(u, here) PROVE GSTypes'
  <2> DEFINE x == [[user[u] EXCEPT !.trading = FALSE] EXCEPT !.here = here]
  <2>1. user' = At(user, u, x)
    BY <1>0, <1>5 DEF GS!Leave, At
  <2>2. GS!ToRoom(u, leave) /\ down' = down
    BY <1>5 DEF GS!Leave
  <2>3. x \in GS!User /\ x.alive = user[u].alive /\ x.filter = user[u].filter
        /\ x.writes = user[u].writes
    BY <1>0 DEF GS!User
  <2> HIDE DEF x, leave
  <2> QED
    BY <1>1, <1>2, <2>1, <2>2, <2>3
<1> QED
  BY <1>3, <1>4, <1>5

LEMMA FreshUser ==
  ASSUME NEW items \in SUBSET Items, NEW ed \in Int
  PROVE  GS!LoggedIn(items, ed) \in GS!User
<1> DEFINE none == {}
<1>1. none \in SUBSET Int
  OBVIOUS
<1> HIDE DEF none
<1>2. [alive |-> TRUE, here |-> TRUE, trading |-> FALSE, items |-> items, ed |-> ed,
       init |-> ed, locked |-> FALSE, filter |-> FALSE, writes |-> none] \in GS!User
  BY <1>1 DEF GS!User
<1> QED
  BY <1>2 DEF GS!LoggedIn, none

LEMMA DieTypes ==
  ASSUME GSTypes, NEW u \in Units, Die(u)
  PROVE  GSTypes'
<1>0. user[u] \in GS!User /\ user \in [Units -> GS!User] /\ up[u] \in Seq(UpMessage)
  BY DEF GSTypes
<1> DEFINE x == [[GS!LoggedIn({}, 0) EXCEPT !.alive = FALSE] EXCEPT !.here = FALSE]
           s == Append(up[u], GS!Plain("GS_DOWN"))
<1>1. user' = At(user, u, x) /\ up' = At(up, u, s) /\ down' = At(down, u, <<>>)
  BY AtSame DEF Die, GS!Crash
<1>2. x \in GS!User /\ x.writes = {} /\ ~x.alive
  <2> DEFINE l == GS!LoggedIn({}, 0)
  <2>1. {} \in SUBSET Items /\ 0 \in Int
    OBVIOUS
  <2>2. l \in GS!User
    BY <2>1, FreshUser
  <2>3. l.writes = {}
    BY DEF GS!LoggedIn
  <2> HIDE DEF l
  <2>4. [[l EXCEPT !.alive = FALSE] EXCEPT !.here = FALSE] \in GS!User
    BY <2>2 DEF GS!User
  <2>5. x = [[l EXCEPT !.alive = FALSE] EXCEPT !.here = FALSE]
    BY DEF l
  <2> QED
    BY <2>2, <2>3, <2>4, <2>5 DEF GS!User
<1>3. GS!Plain("GS_DOWN") \in UpMessage
  BY DEF GS!Plain, UpMessage
<1>4. s \in Seq(UpMessage)
  BY <1>0, <1>3
<1>5. <<>> \in Seq(DownMessage)
  OBVIOUS
<1> HIDE DEF x, s
<1>6. OneApproval(x, s, <<>>)
  BY <1>2 DEF OneApproval
<1> QED
  BY <1>1, <1>2, <1>4, <1>5, <1>6, OneUnit

-----------------------------------------------------------------------------
(* The room's steps keep the types.                                        *)

LEMMA PlainFromRoom ==
  ASSUME sent' \in Notices, NEW u \in Units
  PROVE  None(ForServer(sent'[u]), "APPROVE_ACK") /\ ForServer(sent'[u]) \in Seq(DownMessage)
<1>1. sent'[u] \in Seq(Message)
  BY DEF Notices
<1>2. ForServer(sent'[u]) \in Seq(Message)
  BY <1>1 DEF ForServer
<1> DEFINE s == ForServer(sent'[u])
<1> HIDE DEF s
<1>3. \A n \in DOMAIN s : s[n] \in Message
  BY <1>2 DEF s
<1>4. None(s, "APPROVE_ACK")
  BY <1>3 DEF None, Message
<1>5. s \in Seq(DownMessage)
  BY <1>2 DEF DownMessage, s
<1> QED
  BY <1>4, <1>5 DEF s

LEMMA DeliverTypes ==
  ASSUME SysTypes, NEW u \in Units, Deliver(u)
  PROVE  IndInv' /\ GSTypes' /\ swaps' \in Seq(SwapRequest)
<1> DEFINE m == Head(up[u])
           acks == IF m.type = "APPROVE" THEN To(u, [type |-> "APPROVE_ACK"]) ELSE Silence
<1>1. /\ up[u] \in Seq(UpMessage) /\ up[u] # <<>>
      /\ user' = user /\ up' = [up EXCEPT ![u] = Tail(up[u])]
      /\ Handle(u, m) /\ Forward(acks)
  BY DEF SysTypes, GSTypes, Deliver
<1>2. m \in UpMessage /\ Tail(up[u]) \in Seq(UpMessage)
  BY <1>1
<1> HIDE DEF m
<1>3. IndInv' /\ sent' \in Notices /\ sentDB' \subseteq DBInfos
  BY <1>1, <1>2, HandledInv, AskedOfDB, TypeOKNext DEF SysTypes, IndInv
<1>4. acks \in [Units -> Seq(DownMessage)]
  <2>1. [type |-> "APPROVE_ACK"] \in DownMessage
    BY DEF DownMessage
  <2>2. <<[type |-> "APPROVE_ACK"]>> \in Seq(DownMessage) /\ <<>> \in Seq(DownMessage)
    BY <2>1
  <2> QED
    BY <2>2 DEF To, Silence
<1>5. \A v \in Units : acks[v] = IF m.type = "APPROVE" /\ v = u
                                 THEN <<[type |-> "APPROVE_ACK"]>> ELSE <<>>
  BY DEF To, Silence
<1> HIDE DEF acks
<1>6. down' \in [Units -> Seq(DownMessage)] /\ swaps' \in Seq(SwapRequest)
  BY <1>1, <1>3, <1>4, Forwarded DEF SysTypes
<1>7. ASSUME NEW v \in Units PROVE OneApproval(user'[v], up'[v], down'[v])
  <2>0. OneApproval(user[v], up[v], down[v]) /\ down[v] \in Seq(DownMessage)
        /\ acks[v] \in Seq(DownMessage)
    BY <1>4 DEF SysTypes, GSTypes
  <2>1. CASE ~user[v].alive
    BY <1>1, <2>0, <2>1 DEF OneApproval
  <2>2. CASE user[v].alive
    <3> DEFINE f == ForServer(sent'[v])
               d == down[v] \o acks[v]
    <3>1. None(f, "APPROVE_ACK") /\ f \in Seq(DownMessage)
      BY <1>3, PlainFromRoom
    <3>2. down'[v] = d \o f
      BY <1>1, <2>2 DEF Forward
    <3> HIDE DEF f
    <3>3. d \in Seq(DownMessage)
      BY <2>0, ConcatProperties
    <3>4. /\ None(d, "APPROVE_ACK") <=> None(down[v], "APPROVE_ACK") /\ None(acks[v], "APPROVE_ACK")
          /\ One(down[v], "APPROVE_ACK") /\ None(acks[v], "APPROVE_ACK") => One(d, "APPROVE_ACK")
          /\ None(down[v], "APPROVE_ACK") /\ One(acks[v], "APPROVE_ACK") => One(d, "APPROVE_ACK")
      BY <2>0, AfterConcat
    <3> HIDE DEF d
    <3>5. /\ None(down'[v], "APPROVE_ACK") <=> None(d, "APPROVE_ACK")
          /\ One(d, "APPROVE_ACK") => One(down'[v], "APPROVE_ACK")
      <4>1. /\ None(d \o f, "APPROVE_ACK") <=> None(d, "APPROVE_ACK") /\ None(f, "APPROVE_ACK")
            /\ One(d, "APPROVE_ACK") /\ None(f, "APPROVE_ACK") => One(d \o f, "APPROVE_ACK")
        BY ONLY <3>1, <3>3, AfterConcat
      <4> QED
        BY <3>1, <3>2, <4>1
    <3>6. CASE v = u /\ m.type = "APPROVE"
      <4>1. acks[v] = <<[type |-> "APPROVE_ACK"]>>
        BY <1>5, <3>6
      <4>2. One(acks[v], "APPROVE_ACK")
        BY <4>1 DEF One
      <4>3. up'[v] = Tail(up[u]) /\ ~None(up[u], "APPROVE")
        BY <1>1, <3>6, AfterHead DEF SysTypes, GSTypes, m
      <4>4. None(up'[v], "APPROVE") /\ One(up'[v], "APPROVE")
        <5>1. One(up[u], "APPROVE")
          BY <2>0, <2>2, <3>6 DEF OneApproval
        <5>2. Head(up[u]).type = "APPROVE"
          BY <3>6 DEF m
        <5>3. None(Tail(up[u]), "APPROVE") /\ One(Tail(up[u]), "APPROVE")
          BY <1>1, <5>1, <5>2, AfterHead
        <5> QED
          BY <4>3, <5>3
      <4> QED
        BY <1>1, <2>0, <2>2, <3>4, <3>5, <3>6, <4>2, <4>3, <4>4 DEF OneApproval
    <3>7. CASE ~(v = u /\ m.type = "APPROVE")
      <4>1. acks[v] = <<>>
        BY <1>5, <3>7
      <4>2. None(acks[v], "APPROVE_ACK")
        BY <4>1 DEF None
      <4>3. /\ None(up[v], "APPROVE") => None(up'[v], "APPROVE")
            /\ One(up[v], "APPROVE") => One(up'[v], "APPROVE")
        BY <1>1, AfterHead DEF SysTypes, GSTypes
      <4> QED
        BY <1>1, <2>0, <2>2, <3>4, <3>5, <4>2, <4>3 DEF OneApproval
    <3> QED
      BY <3>6, <3>7
  <2> QED
    BY <2>1, <2>2
<1>8. user' \in [Units -> GS!User] /\ up' \in [Units -> Seq(UpMessage)]
  BY <1>1, <1>2 DEF SysTypes, GSTypes
<1> QED
  BY <1>3, <1>6, <1>7, <1>8 DEF GSTypes

\* What the room sends of its own accord.
LEMMA ToServers ==
  ASSUME GSTypes, sent' \in Notices, UNCHANGED <<user, up>>,
         down' = [u \in Units |-> IF user[u].alive THEN down[u] \o ForServer(sent'[u])
                                  ELSE <<>>]
  PROVE  GSTypes'
<1>1. ASSUME NEW v \in Units
      PROVE  /\ down[v] \o ForServer(sent'[v]) \in Seq(DownMessage)
             /\ OneApproval(user'[v], up'[v], down'[v])
  <2> DEFINE f == ForServer(sent'[v])
             d == down[v] \o f
  <2>1. None(f, "APPROVE_ACK") /\ f \in Seq(DownMessage) /\ down[v] \in Seq(DownMessage)
    BY PlainFromRoom DEF GSTypes
  <2> HIDE DEF f
  <2>2. /\ None(d, "APPROVE_ACK") <=> None(down[v], "APPROVE_ACK")
        /\ One(down[v], "APPROVE_ACK") => One(d, "APPROVE_ACK")
        /\ d \in Seq(DownMessage)
    BY <2>1, AfterConcat, ConcatProperties
  <2>3. user[v].alive => down'[v] = d
    BY DEF f
  <2>4. d \in Seq(DownMessage)
    BY <2>2
  <2> HIDE DEF d
  <2>5. OneApproval(user[v], up[v], down[v])
    BY DEF GSTypes
  <2>6. OneApproval(user'[v], up'[v], down'[v])
    BY <2>2, <2>3, <2>5 DEF OneApproval
  <2> QED
    BY <2>4, <2>6 DEF d, f
<1>2. <<>> \in Seq(DownMessage)
  OBVIOUS
<1> QED
  BY <1>1, <1>2 DEF GSTypes

LEMMA TickTypes ==
  ASSUME SysTypes, RoomTick
  PROVE  IndInv' /\ GSTypes' /\ swaps' = swaps
<1>1. IndInv' /\ sent' \in Notices
  BY TickInv, TypeOKNext DEF RoomTick, SysTypes, IndInv
<1>2. sentDB' = {}
  BY DEF RoomTick, Tick, CloseRoom, GiveUpWaiting, BreakTrade
<1>3. ASSUME NEW u \in Units PROVE down[u] \o Silence[u] = down[u]
  <2>1. down[u] \in Seq(DownMessage) /\ Silence[u] = <<>>
    BY DEF SysTypes, GSTypes, Silence
  <2> QED
    BY <2>1
<1>4. down' = [u \in Units |-> IF user[u].alive THEN down[u] \o ForServer(sent'[u])
                               ELSE <<>>]
  BY <1>3 DEF RoomTick, Forward
<1> QED
  BY <1>1, <1>2, <1>4, ToServers DEF RoomTick, Forward, SysTypes

\* The two units of an answer of the DB.
LEMMA PairOf ==
  ASSUME NEW info \in DBInfos
  PROVE  /\ DOMAIN info \subseteq Units /\ info \in [DOMAIN info -> DBInfo]
         /\ Cardinality(DOMAIN info) = 2
         /\ \A u \in DOMAIN info : /\ Partner(info, u) \in DOMAIN info
                                   /\ Partner(info, u) # u
                                   /\ DOMAIN info = {u, Partner(info, u)}
<1>1. PICK pair \in SUBSET Units : Cardinality(pair) = 2 /\ info \in [pair -> DBInfo]
  BY DEF DBInfos
<1>2. DOMAIN info = pair
  BY <1>1
<1>3. ASSUME NEW u \in pair
      PROVE  Partner(info, u) \in pair /\ Partner(info, u) # u /\ pair = {u, Partner(info, u)}
  <2>1. IsFiniteSet(pair)
    BY UnitsAssumption, FS_Subset
  <2>2. IsFiniteSet(pair \ {u}) /\ Cardinality(pair \ {u}) = 1
    BY <1>1, <2>1, FS_RemoveElement
  <2>3. PICK x : pair \ {u} = {x}
    BY <2>2, FS_Singleton
  <2>4. Partner(info, u) \in pair /\ Partner(info, u) # u
    BY <1>2, <2>3 DEF Partner
  <2> QED
    BY <2>3, <2>4
<1> QED
  BY <1>1, <1>2, <1>3

LEMMA InfoFields ==
  ASSUME NEW info \in DBInfo
  PROVE  info.out \in SUBSET Items /\ info.change \in Int /\ info.in \in SUBSET Items
  BY InfoAssumption

LEMMA CrosswiseTypes ==
  ASSUME NEW info \in DBInfos
  PROVE  /\ Crosswise(info) \in DBInfos /\ DOMAIN Crosswise(info) = DOMAIN info
         /\ \A u \in DOMAIN info : Crosswise(info)[u].in = info[Partner(info, u)].out
<1>1. ASSUME NEW u \in DOMAIN info
      PROVE  /\ [info[u] EXCEPT !.in = info[Partner(info, u)].out] \in DBInfo
             /\ [info[u] EXCEPT !.in = info[Partner(info, u)].out].in
                  = info[Partner(info, u)].out
  <2>1. info[u] \in DBInfo /\ info[Partner(info, u)] \in DBInfo
    BY PairOf
  <2> DEFINE in == info[Partner(info, u)].out
  <2>2. in \in SUBSET Items
    BY <2>1, InfoFields
  <2> HIDE DEF in
  <2>3. [info[u] EXCEPT !.in = in] \in DBInfo
    BY <2>1, <2>2, InfoAssumption
  <2>4. info[u] \in [out : SUBSET Items, change : Int, in : SUBSET Items]
    BY <2>1, InfoAssumption
  <2>5. [info[u] EXCEPT !.in = in].in = in
    BY <2>4
  <2> QED
    BY <2>3, <2>5 DEF in
<1>2. Crosswise(info) \in [DOMAIN info -> DBInfo]
  BY <1>1 DEF Crosswise
<1>3. Crosswise(info) \in DBInfos
  BY <1>2, PairOf DEF DBInfos
<1> QED
  BY <1>1, <1>2, <1>3 DEF Crosswise

LEMMA SwapStatus ==
  ASSUME SwapTypes, NEW n \in DOMAIN swaps, NEW st \in {"asked", "done", "failed", "answered"},
         swaps' = [swaps EXCEPT ![n].status = st]
  PROVE  /\ swaps[n] \in SwapRequest /\ swaps' \in Seq(SwapRequest)
         /\ DOMAIN swaps' = DOMAIN swaps /\ swaps'[n].status = st
         /\ \A k \in DOMAIN swaps : k # n => swaps'[k].status = swaps[k].status
         /\ \A k \in DOMAIN swaps : swaps'[k].info = swaps[k].info
                                    /\ swaps'[k].trade = swaps[k].trade
<1>1. swaps \in [1..Len(swaps) -> SwapRequest] /\ Len(swaps) \in Nat /\ DOMAIN swaps = 1..Len(swaps)
  BY DEF SwapTypes
<1>2. swaps[n] \in SwapRequest
  BY <1>1
<1> DEFINE r == [swaps[n] EXCEPT !.status = st]
<1>3. r \in SwapRequest /\ r.status = st /\ r.info = swaps[n].info /\ r.trade = swaps[n].trade
  BY <1>2 DEF SwapRequest
<1>4. swaps' = [k \in 1..Len(swaps) |-> IF k = n THEN r ELSE swaps[k]]
  BY <1>1
<1> HIDE DEF r
<1>5. swaps' \in [1..Len(swaps) -> SwapRequest]
  BY <1>1, <1>3, <1>4
<1>6. swaps' \in Seq(SwapRequest)
  BY <1>1, <1>5, SeqDef
<1> QED
  BY <1>1, <1>2, <1>3, <1>4, <1>6

LEMMA SwapTypesKept ==
  ASSUME SysTypes, NEW n \in DOMAIN swaps, Swap(n)
  PROVE  DBTypes' /\ swaps' \in Seq(SwapRequest) /\ upset' \in BOOLEAN
<1>1. swaps[n] \in SwapRequest
  BY DEF SysTypes, SwapTypes
<1> DEFINE info == swaps[n].info
<1>2. info \in DBInfos
  BY <1>1 DEF SwapRequest
<1> HIDE DEF info
<1>3. ASSUME NEW u \in DOMAIN info
      PROVE  u \in Units /\ Partner(info, u) \in Units /\ info[u].change \in Int
  BY <1>2, PairOf, InfoFields
<1>4. Swapped(info) \in [items : [Items -> Units], ed : [Units -> Int]]
  <2>0. db.items \in [Items -> Units] /\ db.ed \in [Units -> Int]
    BY DEF SysTypes, DBTypes
  <2> DEFINE giver(i) == CHOOSE u \in DOMAIN info : i \in info[u].out
  <2>1. ASSUME NEW i \in Items, \E u \in DOMAIN info : i \in info[u].out
        PROVE  Partner(info, giver(i)) \in Units
    <3>1. giver(i) \in DOMAIN info
      BY <2>1
    <3> QED
      BY <1>3, <3>1
  <2>2. Swapped(info).items \in [Items -> Units]
    <3> HIDE DEF giver
    <3>1. Swapped(info).items = [i \in Items |-> IF \E u \in DOMAIN info : i \in info[u].out
                                                 THEN Partner(info, giver(i)) ELSE db.items[i]]
      BY DEF Swapped, giver
    <3> QED
      BY <2>0, <2>1, <3>1
  <2>3. Swapped(info).ed \in [Units -> Int]
    <3>1. Swapped(info).ed = [u \in Units |-> IF u \in DOMAIN info
                                              THEN db.ed[u] + info[u].change ELSE db.ed[u]]
      BY DEF Swapped
    <3> QED
      BY <1>3, <2>0, <3>1
  <2> QED
    BY <2>2, <2>3 DEF Swapped
<1>5. DBTypes'
  BY <1>4 DEF SysTypes, DBTypes, Swap, info
<1>6. upset' \in BOOLEAN
  <2>1. (upset \/ CanSwap(swaps[n].info)) \in BOOLEAN
    OBVIOUS
  <2> QED
    BY <2>1 DEF SysTypes, GhostTypes, Swap
<1>7. swaps' \in Seq(SwapRequest)
  BY SwapStatus DEF Swap, SysTypes
<1> QED
  BY <1>5, <1>6, <1>7

LEMMA AnswerTypes ==
  ASSUME SysTypes, NEW n \in DOMAIN swaps, Answer(n)
  PROVE  IndInv' /\ GSTypes' /\ swaps' \in Seq(SwapRequest)
<1> DEFINE ok == swaps[n].status = "done"
<1>0. swaps[n] \in SwapRequest
  BY DEF SysTypes, SwapTypes
<1>1. swaps[n].info \in DBInfos
  BY <1>0 DEF SwapRequest
<1>2. Crosswise(swaps[n].info) \in DBInfos
  BY <1>1, CrosswiseTypes
<1>3. ok \in BOOLEAN
  OBVIOUS
<1>4. IndInv'
  <2>1. DBUpdateTradeResultAck(ok, Crosswise(swaps[n].info))
    BY DEF Answer
  <2> HIDE DEF ok
  <2> QED
    BY <1>2, <1>3, <2>1, ResultAckInv DEF SysTypes
<1>5. sent' \in Notices
  BY <1>4, TypeOKNext DEF IndInv
<1>6. GSTypes'
  BY <1>5, ToServers DEF Answer, SysTypes
<1>7. swaps' \in Seq(SwapRequest)
  BY SwapStatus DEF Answer, SysTypes
<1> QED
  BY <1>4, <1>6, <1>7

-----------------------------------------------------------------------------
(* The types are an invariant of the system.                               *)

LEMMA SysInitTypes == SysInit => SysTypes
<1> SUFFICES ASSUME SysInit PROVE SysTypes
  OBVIOUS
<1>1. IndInv
  BY InitInv DEF SysInit
<1>2. ASSUME NEW u \in Units
      PROVE  /\ user[u] \in GS!User /\ user[u].writes = {}
             /\ up[u] = <<>> /\ down[u] = <<>>
  <2> DEFINE items == {i \in Items : Owner[i] = u}
  <2>1. items \in SUBSET Items /\ Wealth[u] \in Int
    BY SystemAssumption
  <2>2. user[u] = GS!LoggedIn(items, Wealth[u])
    BY DEF SysInit
  <2> HIDE DEF items
  <2> QED
    BY <2>1, <2>2, FreshUser DEF SysInit, GS!LoggedIn
<1>3. \A t : None(<<>>, t) /\ One(<<>>, t)
  BY DEF None, One
<1>4. ASSUME NEW u \in Units PROVE OneApproval(user[u], up[u], down[u])
  BY <1>2, <1>3 DEF OneApproval
<1>5. /\ user \in [Units -> GS!User] /\ up \in [Units -> Seq(UpMessage)]
      /\ down \in [Units -> Seq(DownMessage)]
  <2>1. <<>> \in Seq(UpMessage) /\ <<>> \in Seq(DownMessage)
    OBVIOUS
  <2> QED
    BY <1>2, <2>1 DEF SysInit
<1>6. GSTypes
  BY <1>4, <1>5 DEF GSTypes
<1>7. DBTypes
  BY SystemAssumption DEF SysInit, DBTypes
<1>8. SwapTypes /\ GhostTypes
  <2>1. <<>> \in Seq(SwapRequest) /\ 0 \in Nat
    OBVIOUS
  <2>2. {} \subseteq Units /\ FALSE \in BOOLEAN
    OBVIOUS
  <2>3. SwapTypes
    BY <2>1 DEF SysInit, SwapTypes
  <2>4. GhostTypes
    BY <2>2, Zenon DEF SysInit, GhostTypes
  <2> QED
    BY <2>3, <2>4
<1> QED
  BY <1>1, <1>6, <1>7, <1>8 DEF SysTypes

GSAction(u) == \/ Ask(u) \/ Approve(u) \/ Written(u) \/ Receive(u)
               \/ Repair(u) \/ ComeAndGo(u) \/ Die(u)

LEMMA GSActionTypes ==
  ASSUME SysTypes, NEW u \in Units, GSAction(u)
  PROVE  SysTypes'
<1>1. GSTypes'
  BY AskTypes, ApproveTypes, WrittenTypes, ReceiveTypes, OwnAffairsTypes, DieTypes
  DEF GSAction, SysTypes, Receive, ComeAndGo
<1>2. IndInv' /\ SwapTypes'
  <2>1. Elsewhere
    BY DEF GSAction, Ask, Approve, Written, Receive, Repair, ComeAndGo, Die
  <2> QED
    BY <2>1, IgnoreInv DEF Elsewhere, SysTypes, SwapTypes
<1>3. DBTypes'
  <2>1. CASE Written(u)
    <3>1. PICK change \in user[u].writes : db' = [db EXCEPT !.ed[u] = @ + change] \/ db' = db
      BY <2>1 DEF Written
    <3>2. change \in Int
      BY DEF SysTypes, GSTypes, GS!User
    <3>3. db.ed \in [Units -> Int] /\ db.items \in [Items -> Units]
      BY DEF SysTypes, DBTypes
    <3> DEFINE ed == [db.ed EXCEPT ![u] = @ + change]
    <3>4. ed \in [Units -> Int]
      BY <3>2, <3>3
    <3>5. db' = [db EXCEPT !.ed = ed] \/ db' = db
      BY <3>1
    <3> HIDE DEF ed
    <3> QED
      BY <3>4, <3>5 DEF SysTypes, DBTypes
  <2>2. CASE ~Written(u)
    BY <2>2 DEF GSAction, Ask, Approve, Receive, Repair, ComeAndGo, Die, SysTypes, DBTypes
  <2> QED
    BY <2>1, <2>2
<1>4. GhostTypes'
  <2>1. upset' \in BOOLEAN
    <3>1. (upset \/ Missed(u)) \in BOOLEAN
      OBVIOUS
    <3> QED
      BY <3>1 DEF GSAction, Ask, Approve, Written, Receive, Repair, ComeAndGo, Die,
                  SysTypes, GhostTypes
  <2>2. drifted' \subseteq Units /\ astray' \subseteq Units
    BY DEF GSAction, Ask, Approve, Written, Receive, Repair, ComeAndGo, Die, SysTypes, GhostTypes
  <2> QED
    BY <2>1, <2>2 DEF GhostTypes
<1> QED
  BY <1>1, <1>2, <1>3, <1>4 DEF SysTypes

LEMMA SysStepTypes == SysTypes /\ [SysNext]_sysVars => SysTypes'
<1> SUFFICES ASSUME SysTypes, [SysNext]_sysVars PROVE SysTypes'
  OBVIOUS
<1>1. ASSUME NEW u \in Units, Deliver(u) PROVE SysTypes'
  <2>1. trades' \in Nat
    BY <1>1 DEF Deliver, SysTypes, SwapTypes
  <2> QED
    BY <1>1, <2>1, DeliverTypes DEF Deliver, SysTypes, SwapTypes, DBTypes, GhostTypes
<1>2. ASSUME RoomTick PROVE SysTypes'
  BY <1>2, TickTypes DEF RoomTick, SysTypes, SwapTypes, DBTypes, GhostTypes, ghosts
<1>3. ASSUME RoomTimeout PROVE SysTypes'
  BY <1>3, WaitTimeoutInv
  DEF RoomTimeout, SysTypes, GSTypes, SwapTypes, DBTypes, GhostTypes, ghosts, gsVars
<1>4. ASSUME NEW n \in DOMAIN swaps, Swap(n) PROVE SysTypes'
  BY <1>4, SwapTypesKept, IgnoreInv DEF Swap, SysTypes, GSTypes, SwapTypes, GhostTypes, gsVars
<1>5. ASSUME NEW n \in DOMAIN swaps, Answer(n) PROVE SysTypes'
  BY <1>5, AnswerTypes DEF Answer, SysTypes, SwapTypes, DBTypes, GhostTypes, ghosts
<1>6. ASSUME UNCHANGED sysVars PROVE SysTypes'
  <2>1. IndInv'
    BY <1>6, NextInv DEF sysVars, SysTypes
  <2> QED
    BY <1>6, <2>1
    DEF sysVars, SysTypes, GSTypes, SwapTypes, DBTypes, GhostTypes, ghosts, gsVars
<1> QED
  BY <1>1, <1>2, <1>3, <1>4, <1>5, <1>6, GSActionTypes DEF SysNext, GSAction

\* Room, game servers, DB and channels keep their types together: the room's
\* invariant holds in the system, and an approval is in one place at a time
\* (GSUserTrade.cpp:828, GSUserSession.cpp:237).
THEOREM SystemInvariant == SysSpec => []SysTypes
  BY SysInitTypes, SysStepTypes, PTL DEF SysSpec

\* The variables of the system keep their types, and a unit's data are on
\* their way to the DB only while its approval is unanswered (the repeat
\* filter of EGS_APPROVE_TRADE_REQ).
THEOREM SystemTypeCorrect == SysSpec => []SysTypeOK
<1>1. SysTypes => SysTypeOK
  <2> SUFFICES ASSUME SysTypes PROVE SysTypeOK
    OBVIOUS
  <2>1. \A u \in Units : user[u].writes # {} => user[u].filter
    BY DEF SysTypes, GSTypes, OneApproval
  <2>2. ASSUME NEW u \in Units, NEW m \in Range(down[u])
        PROVE  m \in Message \cup [type : {"APPROVE_ACK"}]
    <3>1. down[u] \in Seq(DownMessage)
      BY DEF SysTypes, GSTypes
    <3> QED
      BY <3>1 DEF Range, DownMessage
  <2> QED
    BY <2>1, <2>2 DEF SysTypes, SysTypeOK, GSTypes, DBTypes, GhostTypes
<1> QED
  BY <1>1, SystemInvariant, PTL

-----------------------------------------------------------------------------
(* What a trade may rely on while no game server has died.                 *)
(*                                                                         *)
(* f and us stand for the state of the room's machine and its members, s   *)
(* and q for a unit's two channels, own for the owners in the DB, items    *)
(* for what the unit can use.                                              *)

Executing(f, us, u) == f = "DB_UPDATE" /\ u \in DOMAIN us
Peer(us, u) == CHOOSE v \in DOMAIN us : v # u

\* What u's game server is told to carry out, and what it reports of it.
Order(us, u) == [type |-> "CONFIRM_NOT", out |-> GoodsOf(us, u), in |-> GoodsOf(us, Peer(us, u))]
Due(us, u) == [out |-> us[u].items, change |-> us[Peer(us, u)].ed - us[u].ed, in |-> {}]

\* A trader's part of the execution is in one place at a time: the order on
\* its way down, the report on its way up, or the report with the room.  Who
\* has no part in an execution has nothing of one on its way.
InTurn(f, us, u, s, q) ==
  IF Executing(f, us, u)
  THEN /\ One(q, "CONFIRM_NOT") /\ One(s, "DB_RESULT")
       /\ None(s, "DB_RESULT") \/ None(q, "CONFIRM_NOT")
       /\ us[u].dbInfo # {} => None(s, "DB_RESULT") /\ None(q, "CONFIRM_NOT")
       /\ us[u].dbInfo \subseteq {Due(us, u)}
       /\ \A m \in Range(q) : m.type = "CONFIRM_NOT" => m = Order(us, u)
       /\ \A m \in Range(s) : m.type = "DB_RESULT" => m.info = Due(us, u)
  ELSE None(q, "CONFIRM_NOT") /\ None(s, "DB_RESULT")

\* What a unit can use, or is told it has got, is the unit's in the DB; what
\* it has put up is taken out of its inventory before that is reported, and
\* nothing of an earlier trade is put in after that.
Holds(f, us, own, u, items, s, q) ==
  /\ \A i \in items : own[i] = u
  /\ \A m \in Range(q) : m.type = "COMPLETE_NOT" => \A i \in m.info.in : own[i] = u
  /\ Before(q, "COMPLETE_NOT", "CONFIRM_NOT")
  /\ Executing(f, us, u) /\ (us[u].dbInfo # {} \/ ~None(s, "DB_RESULT")) =>
       None(q, "COMPLETE_NOT") /\ items \cap us[u].items = {}

Unanswered(x) == x.status # "answered"

\* The DB is asked once for each trade, for what is due, when both have
\* reported; the room waits for the answer.
AskedInTurn(f, us, t, x) ==
  /\ x.trade <= t
  /\ x.trade = t => f \in {"DB_UPDATE", "CLOSE", "INIT"}
  /\ Unanswered(x) <=> x.trade = t /\ f = "DB_UPDATE"
  /\ Unanswered(x) => /\ x.info = [u \in DOMAIN us |-> Due(us, u)]
                      /\ \A u \in DOMAIN us : us[u].dbInfo # {}

\* What the DB has swapped belongs to the other trader.
HandedOver(own, x) ==
  x.status = "done" =>
    \A u \in DOMAIN x.info : \A i \in x.info[u].out : own[i] = Partner(x.info, u)

AllAlive == \A u \in Units : user[u].alive
DeathKnown == \A u \in Units : user[u].alive => None(up[u], "GS_DOWN")
AllInTurn == \A u \in Units : InTurn(fsm, users, u, up[u], down[u])
AllHold == \A u \in Units : Holds(fsm, users, db.items, u, user[u].items, up[u], down[u])
SwapsInTurn == /\ OneSwapPerTrade
               /\ \A n \in DOMAIN swaps : /\ AskedInTurn(fsm, users, trades, swaps[n])
                                          /\ HandedOver(db.items, swaps[n])

InOrder == AllInTurn /\ AllHold /\ SwapsInTurn

Safe == SysTypes /\ DeathKnown /\ (AllAlive => InOrder)

-----------------------------------------------------------------------------
(* Channels in which nothing of a trade's execution is added.              *)

Fewer(s2, s, t) ==
  /\ None(s, t) => None(s2, t)
  /\ One(s, t) => One(s2, t)
  /\ \A m \in Range(s2) : m.type = t => m \in Range(s)

Quieter(q2, q) ==
  /\ Fewer(q2, q, "CONFIRM_NOT") /\ Fewer(q2, q, "COMPLETE_NOT")
  /\ Before(q, "COMPLETE_NOT", "CONFIRM_NOT") => Before(q2, "COMPLETE_NOT", "CONFIRM_NOT")

LEMMA FewerInTail ==
  ASSUME NEW S, NEW s \in Seq(S), s # <<>>
  PROVE  /\ \A t : Fewer(Tail(s), s, t)
         /\ Quieter(Tail(s), s)
<1>1. ASSUME NEW t PROVE Fewer(Tail(s), s, t)
  BY AfterHead DEF Fewer
<1>2. Before(s, "COMPLETE_NOT", "CONFIRM_NOT") => Before(Tail(s), "COMPLETE_NOT", "CONFIRM_NOT")
  BY AfterHead
<1> QED
  BY <1>1, <1>2 DEF Quieter

LEMMA FewerInAppend ==
  ASSUME NEW S, NEW s \in Seq(S), NEW m, NEW t, m.type # t
  PROVE  Fewer(Append(s, m), s, t)
<1>1. /\ None(Append(s, m), t) <=> None(s, t) /\ m.type # t
      /\ One(s, t) /\ (m.type # t \/ None(s, t)) => One(Append(s, m), t)
      /\ Range(Append(s, m)) = Range(s) \cup {m}
  BY ONLY s \in Seq(S), AfterAppend
<1> QED
  BY <1>1 DEF Fewer

LEMMA FewerInSame ==
  ASSUME NEW s PROVE Quieter(s, s) /\ \A t : Fewer(s, s, t)
  BY DEF Fewer, Quieter

LEMMA FewerInConcat ==
  ASSUME NEW S, NEW q \in Seq(S), NEW r \in Seq(S),
         None(r, "CONFIRM_NOT"), None(r, "COMPLETE_NOT")
  PROVE  Quieter(q \o r, q)
<1>1. ASSUME NEW t, None(r, t) PROVE Fewer(q \o r, q, t)
  <2>1. /\ None(q \o r, t) <=> None(q, t)
        /\ One(q, t) => One(q \o r, t)
        /\ Range(q \o r) = Range(q) \cup Range(r)
    BY <1>1, AfterConcat
  <2>2. \A m \in Range(r) : m.type # t
    BY <1>1 DEF None, Range
  <2> QED
    BY <2>1, <2>2 DEF Fewer
<1>2. Before(q, "COMPLETE_NOT", "CONFIRM_NOT") => Before(q \o r, "COMPLETE_NOT", "CONFIRM_NOT")
  BY AfterConcat
<1> QED
  BY <1>1, <1>2 DEF Quieter

\* A unit to which nothing of an execution is sent, and of which none is
\* reported, by a step that leaves the execution as it is or is outside of
\* any.
LEMMA NothingNew ==
  ASSUME NEW f, NEW us, NEW own, NEW u, NEW items, NEW s, NEW q, NEW f2, NEW us2, NEW s2, NEW q2,
         InTurn(f, us, u, s, q), Holds(f, us, own, u, items, s, q),
         Fewer(s2, s, "DB_RESULT"), Quieter(q2, q),
         \/ f2 = f /\ us2 = us
         \/ f # "DB_UPDATE" /\ f2 # "DB_UPDATE"
  PROVE  /\ InTurn(f2, us2, u, s2, q2)
         /\ Holds(f2, us2, own, u, items, s2, q2)
<1>1. Executing(f2, us2, u) <=> Executing(f, us, u)
  BY DEF Executing
<1>2. CASE Executing(f, us, u)
  <2>1. f2 = f /\ us2 = us
    BY <1>2 DEF Executing
  <2> DEFINE order == Order(us, u)
             due == Due(us, u)
             info == us[u].dbInfo
  <2> HIDE DEF order, due, info
  <2>2. /\ One(q, "CONFIRM_NOT") /\ One(s, "DB_RESULT")
        /\ None(s, "DB_RESULT") \/ None(q, "CONFIRM_NOT")
        /\ info # {} => None(s, "DB_RESULT") /\ None(q, "CONFIRM_NOT")
        /\ info \subseteq {due}
        /\ \A m \in Range(q) : m.type = "CONFIRM_NOT" => m = order
        /\ \A m \in Range(s) : m.type = "DB_RESULT" => m.info = due
    BY <1>2 DEF InTurn, order, due, info
  <2>3. /\ One(q2, "CONFIRM_NOT") /\ One(s2, "DB_RESULT")
        /\ None(s2, "DB_RESULT") \/ None(q2, "CONFIRM_NOT")
        /\ info # {} => None(s2, "DB_RESULT") /\ None(q2, "CONFIRM_NOT")
        /\ \A m \in Range(q2) : m.type = "CONFIRM_NOT" => m = order
        /\ \A m \in Range(s2) : m.type = "DB_RESULT" => m.info = due
    BY <2>2 DEF Fewer, Quieter
  <2>4. InTurn(f, us, u, s2, q2)
    BY <1>2, <2>2, <2>3 DEF InTurn, order, due, info
  <2> QED
    BY <2>1, <2>4 DEF Holds, Fewer, Quieter
<1>3. CASE ~Executing(f, us, u)
  BY <1>1, <1>3 DEF InTurn, Holds, Fewer, Quieter
<1> QED
  BY <1>2, <1>3

-----------------------------------------------------------------------------
(* The game servers' steps, by what they do to an execution.               *)

\* Nothing: what the unit can use stays, nothing is reported.
Mundane(u) ==
  /\ \E x \in GS!User : /\ user' = At(user, u, x)
                        /\ x.alive = user[u].alive /\ x.items = user[u].items
  /\ \E s : /\ up' = At(up, u, s)
            /\ Fewer(s, up[u], "DB_RESULT") /\ Fewer(s, up[u], "GS_DOWN")
  /\ down' = down \/ (down[u] # <<>> /\ down' = At(down, u, Tail(down[u])))

\* The unit's part of the execution.
Deduct(u) ==
  LET m == Head(down[u])
  IN /\ m.type = "CONFIRM_NOT" /\ m \in DownMessage
     /\ \E x \in GS!User : /\ user' = At(user, u, x) /\ x.alive = user[u].alive
                           /\ x.items = user[u].items \ m.out.items
     /\ \/ up' = up
        \/ up' = At(up, u, Append(up[u], [type |-> "DB_RESULT", info |-> GS!Report(m)]))
     /\ down[u] # <<>> /\ down' = At(down, u, Tail(down[u]))

\* What came of it.
PutIn(u) ==
  LET m == Head(down[u])
  IN /\ m.type = "COMPLETE_NOT" /\ m \in DownMessage
     /\ \E x \in GS!User : /\ user' = At(user, u, x) /\ x.alive = user[u].alive
                           /\ x.items = user[u].items \cup m.info.in
     /\ up' = up
     /\ down[u] # <<>> /\ down' = At(down, u, Tail(down[u]))

GSKinds(u) == Mundane(u) \/ Deduct(u) \/ PutIn(u) \/ Die(u)

LEMMA SentOn ==
  ASSUME GSTypes, NEW u \in Units, NEW m, m.type \notin {"DB_RESULT", "GS_DOWN"},
         GS!ToRoom(u, m) \/ up' = At(up, u, Append(up[u], m)) \/ up' = up
  PROVE  \E s : /\ up' = At(up, u, s)
                /\ Fewer(s, up[u], "DB_RESULT") /\ Fewer(s, up[u], "GS_DOWN")
<1>1. up[u] \in Seq(UpMessage) /\ up \in [Units -> Seq(UpMessage)]
  BY DEF GSTypes
<1>2. /\ Fewer(Append(up[u], m), up[u], "DB_RESULT")
      /\ Fewer(Append(up[u], m), up[u], "GS_DOWN")
  BY <1>1, FewerInAppend
<1>3. up' = At(up, u, up[u]) \/ up' = At(up, u, Append(up[u], m))
  BY <1>1 DEF GS!ToRoom, At
<1> QED
  BY <1>2, <1>3, FewerInSame

LEMMA ClientKinds ==
  ASSUME GSTypes, NEW u \in Units, Ask(u) \/ Approve(u) \/ Written(u)
  PROVE  Mundane(u)
<1>0. user[u] \in GS!User /\ user \in [Units -> GS!User]
  BY DEF GSTypes
<1>1. down' = down
  BY DEF Ask, Approve, Written, GS!OpenTrade, GS!BreakTrade, GS!UpdateTradeItem,
         GS!UpdateTradeED, GS!OfferTrade, GS!Relay, GS!ApproveTrade, GS!UnitInfoWritten
<1>2. \E m : /\ m.type \notin {"DB_RESULT", "GS_DOWN"}
             /\ GS!ToRoom(u, m) \/ up' = At(up, u, Append(up[u], m)) \/ up' = up
  <2>1. CASE \E peer \in Units : GS!OpenTrade(u, peer)
    <3>1. PICK peer \in Units : GS!OpenTrade(u, peer)
      BY <2>1
    <3> DEFINE m == [type |-> "OPEN", wallet |-> user[u].ed, peer |-> peer]
    <3>2. m.type = "OPEN" /\ up' = [up EXCEPT ![u] = Append(up[u], m)]
      BY <3>1 DEF GS!OpenTrade
    <3> HIDE DEF m
    <3>3. up' = At(up, u, Append(up[u], m))
      BY <3>2, AtSame
    <3>4. m.type \notin {"DB_RESULT", "GS_DOWN"}
      BY <3>2
    <3> QED
      BY <3>3, <3>4
  <2>2. CASE \E reason \in Reasons \ {Logout} : GS!BreakTrade(u, reason)
    BY <2>2 DEF GS!BreakTrade
  <2>3. CASE \/ \E item \in Items, delete \in Deletes : GS!UpdateTradeItem(u, item, delete)
             \/ \E ed \in Bids : GS!UpdateTradeED(u, ed)
    BY <2>3 DEF GS!UpdateTradeItem, GS!UpdateTradeED, GS!Relay
  <2>4. CASE GS!OfferTrade(u)
    BY <2>4 DEF GS!OfferTrade, GS!Relay, GS!Plain
  <2>5. CASE Approve(u)
    <3>1. up' = up
      BY <2>5 DEF Approve, GS!ApproveTrade
    <3>2. [type |-> "OFFER"].type \notin {"DB_RESULT", "GS_DOWN"}
      OBVIOUS
    <3> QED
      BY <3>1, <3>2
  <2>6. CASE Written(u)
    BY <2>6 DEF Written, GS!UnitInfoWritten, GS!Plain
  <2> QED
    BY <2>1, <2>2, <2>3, <2>4, <2>5, <2>6 DEF Ask
<1>3. \E s : /\ up' = At(up, u, s)
             /\ Fewer(s, up[u], "DB_RESULT") /\ Fewer(s, up[u], "GS_DOWN")
  BY <1>2, SentOn
<1>4. \E x \in GS!User : /\ user' = At(user, u, x)
                         /\ x.alive = user[u].alive /\ x.items = user[u].items
  <2>1. CASE Ask(u)
    <3>1. user' = user
      BY <2>1 DEF Ask, GS!OpenTrade, GS!BreakTrade, GS!UpdateTradeItem,
         GS!UpdateTradeED, GS!OfferTrade, GS!Relay
    <3> QED
      BY <1>0, <3>1, AtSame
  <2>2. CASE Approve(u)
    <3>1. /\ user'[u] \in GS!User /\ user' = At(user, u, user'[u])
          /\ user'[u].alive = user[u].alive /\ user'[u].items = user[u].items
      <4>1. GSTypes'
        BY <2>2, ApproveTypes
      <4>2. user'[u] \in GS!User /\ user' \in [Units -> GS!User]
        BY <4>1 DEF GSTypes
      <4> QED
        BY <1>0, <2>2, <4>2 DEF Approve, GS!ApproveTrade, At, GS!User
    <3> QED
      BY <3>1
  <2>3. CASE Written(u)
    <3>1. GSTypes'
      BY <2>3, WrittenTypes
    <3>2. user'[u] \in GS!User /\ user' \in [Units -> GS!User]
      BY <3>1 DEF GSTypes
    <3>3. /\ user' = At(user, u, user'[u])
          /\ user'[u].alive = user[u].alive /\ user'[u].items = user[u].items
      BY <1>0, <2>3, <3>2 DEF Written, GS!UnitInfoWritten, At, GS!User
    <3> QED
      BY <3>2, <3>3
  <2> QED
    BY <2>1, <2>2, <2>3
<1> QED
  BY <1>1, <1>3, <1>4 DEF Mundane

LEMMA ReceiveKinds ==
  ASSUME GSTypes, NEW u \in Units, GS!Receive(u)
  PROVE  Mundane(u) \/ Deduct(u) \/ PutIn(u)
<1>0. user[u] \in GS!User /\ user \in [Units -> GS!User]
  BY DEF GSTypes
<1>1. GS!Take(u)
  BY DEF GS!Receive, GS!EnterTrade, GS!AcceptJoin, GS!TradeBroken, GS!ApproveAck,
         GS!NotHere, GS!ConfirmNot, GS!CompleteNot, GS!ConfirmReq
<1>2. /\ down[u] # <<>> /\ down' = At(down, u, Tail(down[u]))
      /\ GS!Next(u) = Head(down[u]) /\ GS!Next(u) \in DownMessage
  BY <1>1, Takes DEF GS!Take, GS!Next
<1>3. user'[u] \in GS!User /\ user' \in [Units -> GS!User]
  <2>1. GSTypes'
    BY ReceiveTypes
  <2> QED
    BY <2>1 DEF GSTypes
<1>4. ASSUME \/ GS!EnterTrade(u) \/ GS!AcceptJoin(u) \/ GS!TradeBroken(u) \/ GS!ApproveAck(u)
             \/ GS!NotHere(u) \/ \E room \in BOOLEAN : GS!ConfirmReq(u, room)
      PROVE  Mundane(u)
  <2>1. /\ user' = At(user, u, user'[u])
        /\ user'[u].alive = user[u].alive /\ user'[u].items = user[u].items
    <3>1. CASE user' = user
      BY <1>0, <3>1, AtSame
    <3>2. CASE \E t : user' = [user EXCEPT ![u].trading = t]
      BY <1>0, <3>2 DEF At, GS!User
    <3>3. CASE \E t : user' = [user EXCEPT ![u].filter = t]
      BY <1>0, <3>3 DEF At, GS!User
    <3>4. ASSUME GS!EnterTrade(u) PROVE \E t : user' = [user EXCEPT ![u].trading = t]
      BY <3>4 DEF GS!EnterTrade
    <3> QED
      BY <1>4, <3>1, <3>2, <3>3, <3>4
      DEF GS!AcceptJoin, GS!TradeBroken, GS!ApproveAck, GS!NotHere, GS!ConfirmReq
  <2>2. CASE GS!AcceptJoin(u)
    <3> DEFINE m == [type |-> "JOIN", wallet |-> user[u].ed]
    <3>1. m.type = "JOIN" /\ (up' = up \/ up' = [up EXCEPT ![u] = Append(up[u], m)])
      BY <2>2 DEF GS!AcceptJoin, GSTypes
    <3> HIDE DEF m
    <3>2. m.type \notin {"DB_RESULT", "GS_DOWN"}
      BY <3>1
    <3>3. up' = up \/ up' = At(up, u, Append(up[u], m))
      BY <3>1, AtSame
    <3>4. \E s : /\ up' = At(up, u, s)
                 /\ Fewer(s, up[u], "DB_RESULT") /\ Fewer(s, up[u], "GS_DOWN")
      BY <3>2, <3>3, SentOn
    <3> QED
      BY <1>2, <1>3, <2>1, <3>4 DEF Mundane
  <2>3. CASE \E room \in BOOLEAN : GS!ConfirmReq(u, room)
    <3>1. PICK room \in BOOLEAN : GS!ConfirmReq(u, room)
      BY <2>3
    <3> DEFINE m == [type |-> "CONFIRM_ACK", ok |-> GS!HasGoods(u, GS!Next(u).out) /\ room]
    <3>2. m.type = "CONFIRM_ACK" /\ GS!ToRoom(u, m)
      BY <3>1 DEF GS!ConfirmReq
    <3> HIDE DEF m
    <3>3. m.type \notin {"DB_RESULT", "GS_DOWN"}
      BY <3>2
    <3>4. \E s : /\ up' = At(up, u, s)
                 /\ Fewer(s, up[u], "DB_RESULT") /\ Fewer(s, up[u], "GS_DOWN")
      BY <3>2, <3>3, SentOn
    <3> QED
      BY <1>2, <1>3, <2>1, <3>4 DEF Mundane
  <2>4. CASE up' = up
    BY <1>2, <1>3, <2>1, <2>4, FewerInSame, AtSame DEF Mundane
  <2> QED
    BY <1>4, <2>2, <2>3, <2>4
    DEF GS!EnterTrade, GS!TradeBroken, GS!ApproveAck, GS!NotHere
<1>5. ASSUME GS!ConfirmNot(u) PROVE Deduct(u)
  <2> DEFINE m == GS!Next(u)
             r == [type |-> "DB_RESULT", info |-> GS!Report(m)]
  <2>1. m.type = "CONFIRM_NOT" /\ m.out \in Goods /\ m.in \in Goods
    BY <1>2, <1>5, OrderTypes DEF GS!ConfirmNot
  <2>2. user' = GS!Deducted(u, m) /\ GS!ToRoom(u, r)
    BY <1>5 DEF GS!ConfirmNot
  <2>3. up' = up \/ up' = At(up, u, Append(up[u], r))
    BY <2>2 DEF GS!ToRoom, GSTypes, At
  <2> HIDE DEF m
  <2>4. PICK x \in GS!User : /\ user' = At(user, u, x) /\ x.alive = user[u].alive
                             /\ x.items = user[u].items \ m.out.items
    BY <2>1, <2>2, DeductedUser
  <2> HIDE DEF r
  <2>5. m = Head(down[u])
    BY <1>2 DEF m
  <2> QED
    BY <1>2, <2>1, <2>3, <2>4, <2>5 DEF Deduct, r, m
<1>6. ASSUME GS!CompleteNot(u) PROVE PutIn(u)
  <2> DEFINE m == GS!Next(u)
  <2>1. m.type = "COMPLETE_NOT" /\ up' = up
    BY <1>6 DEF GS!CompleteNot
  <2>2. m.info.in \in SUBSET Items
    BY <1>2, <2>1, InfoAssumption DEF DownMessage, Message
  <2>3. PICK x \in GS!User : /\ user' = At(user, u, x) /\ x.alive = user[u].alive
                             /\ x.items = user[u].items \cup m.info.in
    BY ZenonT(60), <1>6, <2>2, CompletedUser DEF GS!CompleteNot
  <2> HIDE DEF m
  <2> QED
    BY <1>2, <2>1, <2>3 DEF PutIn, m
<1> QED
  BY <1>4, <1>5, <1>6 DEF GS!Receive

LEMMA AllGSKinds ==
  ASSUME SysTypes, NEW u \in Units, GSAction(u)
  PROVE  GSKinds(u)
<1>0. user[u] \in GS!User /\ user \in [Units -> GS!User] /\ GSTypes
  BY DEF GSTypes, SysTypes
<1>1. user'[u] \in GS!User /\ user' \in [Units -> GS!User]
  <2>1. SysTypes'
    BY GSActionTypes
  <2> QED
    BY <2>1 DEF SysTypes, GSTypes
<1>2. CASE Repair(u) \/ GS!Return(u) \/ GS!LockTimeout(u)
  <2>1. up' = up /\ down' = down
    BY <1>2 DEF Repair, GS!RepairItem, GS!Return, GS!LockTimeout
  <2>2. /\ user' = At(user, u, user'[u])
        /\ user'[u].alive = user[u].alive /\ user'[u].items = user[u].items
    BY <1>0, <1>1, <1>2 DEF Repair, GS!RepairItem, GS!Return, GS!LockTimeout, At, GS!User
  <2> QED
    BY <1>0, <1>1, <2>1, <2>2, FewerInSame, AtSame DEF Mundane, GSKinds
<1>3. CASE \E here \in BOOLEAN : GS!Leave(u, here)
  <2> DEFINE m == [type |-> "BREAK", reason |-> 1]
  <2>1. GS!ToRoom(u, m) /\ down' = down /\ m.type \notin {"DB_RESULT", "GS_DOWN"}
    BY <1>3 DEF GS!Leave
  <2>2. /\ user' = At(user, u, user'[u])
        /\ user'[u].alive = user[u].alive /\ user'[u].items = user[u].items
    BY ZenonT(60), <1>0, <1>1, <1>3 DEF GS!Leave, At, GS!User
  <2> HIDE DEF m
  <2>3. \E s : /\ up' = At(up, u, s)
               /\ Fewer(s, up[u], "DB_RESULT") /\ Fewer(s, up[u], "GS_DOWN")
    BY <1>0, <2>1, SentOn
  <2> QED
    BY <1>1, <2>1, <2>2, <2>3 DEF Mundane, GSKinds
<1> QED
  BY <1>0, <1>2, <1>3, ClientKinds, ReceiveKinds DEF GSAction, Receive, ComeAndGo, GSKinds

-----------------------------------------------------------------------------
(* The game servers keep a trade in order.                                 *)

\* The part is carried out as ordered: the report is what is due.
LEMMA DeductInTurn ==
  ASSUME NEW f, NEW us, NEW own, NEW u, NEW items, NEW s \in Seq(UpMessage),
         NEW q \in Seq(DownMessage), q # <<>>, Head(q).type = "CONFIRM_NOT",
         NEW s2, s2 = s \/ s2 = Append(s, [type |-> "DB_RESULT", info |-> GS!Report(Head(q))]),
         InTurn(f, us, u, s, q), Holds(f, us, own, u, items, s, q)
  PROVE  /\ InTurn(f, us, u, s2, Tail(q))
         /\ Holds(f, us, own, u, items \ Head(q).out.items, s2, Tail(q))
<1> DEFINE m == Head(q)
           due == Due(us, u)
           info == us[u].dbInfo
           r == [type |-> "DB_RESULT", info |-> GS!Report(m)]
<1>1. /\ ~None(q, "CONFIRM_NOT") /\ m \in Range(q)
      /\ One(q, "CONFIRM_NOT") => None(Tail(q), "CONFIRM_NOT")
      /\ Before(q, "COMPLETE_NOT", "CONFIRM_NOT") =>
           None(q, "COMPLETE_NOT") /\ None(Tail(q), "COMPLETE_NOT")
      /\ Range(Tail(q)) \subseteq Range(q)
  BY AfterHead
<1>2. Executing(f, us, u)
  BY <1>1 DEF InTurn
<1>3. /\ One(q, "CONFIRM_NOT") /\ None(s, "DB_RESULT") /\ info = {} /\ m = Order(us, u)
  BY <1>1, <1>2 DEF InTurn
<1>4. GS!Report(m) = due /\ m.out.items = us[u].items
  <2> DEFINE v == Peer(us, u)
  <2>1. m.out = GoodsOf(us, u) /\ m.in = GoodsOf(us, v)
    BY <1>3 DEF Order
  <2> HIDE DEF m, v
  <2>2. /\ m.out.items = us[u].items /\ m.out.ed = us[u].ed /\ m.in.ed = us[v].ed
    BY <2>1 DEF GoodsOf
  <2>3. GS!Report(m) = [out |-> us[u].items, change |-> us[v].ed - us[u].ed, in |-> {}]
    BY <2>2 DEF GS!Report
  <2> QED
    BY <2>2, <2>3 DEF Due, v
<1> HIDE DEF m, due, info
<1>5. r.type = "DB_RESULT" /\ r.info = due
  BY <1>4
<1> HIDE DEF r
<1>6. One(s2, "DB_RESULT") /\ \A n \in Range(s2) : n.type = "DB_RESULT" => n.info = due
  <2>1. \A n \in Range(s) : n.type # "DB_RESULT"
    BY <1>3 DEF None, Range
  <2>2. One(s, "DB_RESULT")
    BY <1>3 DEF None, One
  <2>3. One(Append(s, r), "DB_RESULT") /\ Range(Append(s, r)) = Range(s) \cup {r}
    BY <1>3, <2>2, AfterAppend
  <2>4. s2 = s \/ s2 = Append(s, r)
    BY DEF r, m
  <2> QED
    BY <1>5, <2>1, <2>2, <2>3, <2>4
<1>7. None(Tail(q), "CONFIRM_NOT") /\ None(Tail(q), "COMPLETE_NOT")
  BY <1>1, <1>3 DEF Holds
<1>8. One(Tail(q), "CONFIRM_NOT") /\ Before(Tail(q), "COMPLETE_NOT", "CONFIRM_NOT")
      /\ \A n \in Range(Tail(q)) : n.type \notin {"CONFIRM_NOT", "COMPLETE_NOT"}
  BY <1>7 DEF None, One, Before, Range
<1>9. InTurn(f, us, u, s2, Tail(q))
  BY <1>2, <1>3, <1>6, <1>7, <1>8 DEF InTurn, info, due
<1>10. Holds(f, us, own, u, items \ m.out.items, s2, Tail(q))
  BY <1>4, <1>7, <1>8 DEF Holds
<1> QED
  BY <1>9, <1>10 DEF m

\* What came of a trade is the unit's; no execution has begun before it is
\* put in.
LEMMA PutInInTurn ==
  ASSUME NEW f, NEW us, NEW own, NEW u, NEW items, NEW s \in Seq(UpMessage),
         NEW q \in Seq(DownMessage), q # <<>>, Head(q).type = "COMPLETE_NOT",
         InTurn(f, us, u, s, q), Holds(f, us, own, u, items, s, q)
  PROVE  /\ InTurn(f, us, u, s, Tail(q))
         /\ Holds(f, us, own, u, items \cup Head(q).info.in, s, Tail(q))
<1>1. ~None(q, "COMPLETE_NOT") /\ Head(q) \in Range(q)
  BY AfterHead
<1>2. Quieter(Tail(q), q) /\ Fewer(s, s, "DB_RESULT")
  BY FewerInTail, FewerInSame
<1>3. InTurn(f, us, u, s, Tail(q)) /\ Holds(f, us, own, u, items, s, Tail(q))
  BY <1>2, NothingNew
<1>4. ~(Executing(f, us, u) /\ (us[u].dbInfo # {} \/ ~None(s, "DB_RESULT")))
  BY <1>1 DEF Holds
<1>5. \A i \in Head(q).info.in : own[i] = u
  BY <1>1 DEF Holds
<1> QED
  BY <1>3, <1>4, <1>5 DEF Holds

\* What a unit's part rests on, for a unit that takes a step.
LEMMA GSInTurn ==
  ASSUME SysTypes, NEW u \in Units, Mundane(u) \/ Deduct(u) \/ PutIn(u),
         AllInTurn, AllHold, NEW v \in Units
  PROVE  /\ InTurn(fsm, users, v, up'[v], down'[v])
         /\ Holds(fsm, users, db.items, v, user'[v].items, up'[v], down'[v])
         /\ user'[v].alive = user[v].alive
<1>0. up[u] \in Seq(UpMessage) /\ down[u] \in Seq(DownMessage)
  BY DEF SysTypes, GSTypes
<1>1. /\ InTurn(fsm, users, v, up[v], down[v])
      /\ Holds(fsm, users, db.items, v, user[v].items, up[v], down[v])
  BY DEF AllInTurn, AllHold
<1>2. CASE v # u
  <2>1. user'[v] = user[v] /\ up'[v] = up[v] /\ down'[v] = down[v]
    BY <1>2 DEF Mundane, Deduct, PutIn, At
  <2> QED
    BY <1>1, <2>1
<1>3. CASE v = u /\ Mundane(u)
  <2>1. /\ user'[u].items = user[u].items /\ user'[u].alive = user[u].alive
        /\ Fewer(up'[u], up[u], "DB_RESULT")
        /\ down'[u] = down[u] \/ (down[u] # <<>> /\ down'[u] = Tail(down[u]))
    BY <1>3 DEF Mundane, At
  <2>2. Quieter(down'[u], down[u])
    BY <1>0, <2>1, FewerInTail, FewerInSame
  <2> QED
    BY <1>1, <1>3, <2>1, <2>2, NothingNew
<1>4. CASE v = u /\ Deduct(u)
  <2> DEFINE m == Head(down[u])
             r == [type |-> "DB_RESULT", info |-> GS!Report(m)]
  <2>1. /\ m.type = "CONFIRM_NOT" /\ down[u] # <<>> /\ down'[u] = Tail(down[u])
        /\ user'[u].items = user[u].items \ m.out.items /\ user'[u].alive = user[u].alive
        /\ up'[u] = up[u] \/ up'[u] = Append(up[u], r)
    BY <1>4 DEF Deduct, At
  <2>2. /\ InTurn(fsm, users, u, up'[u], Tail(down[u]))
        /\ Holds(fsm, users, db.items, u, user[u].items \ m.out.items, up'[u], Tail(down[u]))
    BY <1>0, <1>1, <1>4, <2>1, DeductInTurn
  <2> QED
    BY <1>4, <2>1, <2>2
<1>5. CASE v = u /\ PutIn(u)
  <2>1. /\ Head(down[u]).type = "COMPLETE_NOT"
        /\ down[u] # <<>> /\ down'[u] = Tail(down[u]) /\ up'[u] = up[u]
        /\ user'[u].items = user[u].items \cup Head(down[u]).info.in
        /\ user'[u].alive = user[u].alive
    BY <1>5 DEF PutIn, At
  <2>2. /\ InTurn(fsm, users, u, up[u], Tail(down[u]))
        /\ Holds(fsm, users, db.items, u, user[u].items \cup Head(down[u]).info.in,
                 up[u], Tail(down[u]))
    BY <1>0, <1>1, <1>5, <2>1, PutInInTurn
  <2> QED
    BY <1>5, <2>1, <2>2
<1> QED
  BY <1>2, <1>3, <1>4, <1>5

\* A game server's step leaves the room, the requests and the DB's owners be.
LEMMA GSLeavesTheRest ==
  ASSUME SysTypes, NEW u \in Units, GSAction(u)
  PROVE  /\ fsm' = fsm /\ users' = users /\ swaps' = swaps /\ trades' = trades
         /\ db'.items = db.items
<1>1. fsm' = fsm /\ users' = users /\ swaps' = swaps /\ trades' = trades
  BY DEF GSAction, Ask, Approve, Written, Receive, Repair, ComeAndGo, Die, Elsewhere,
         Ignore, Keep
<1>2. db'.items = db.items
  <2>1. CASE Written(u)
    BY <2>1 DEF Written, SysTypes, DBTypes
  <2>2. CASE ~Written(u)
    BY <2>2 DEF GSAction, Ask, Approve, Receive, Repair, ComeAndGo, Die
  <2> QED
    BY <2>1, <2>2
<1> QED
  BY <1>1, <1>2

LEMMA SameSwaps ==
  ASSUME SwapsInTurn, fsm' = fsm, users' = users, swaps' = swaps, trades' = trades,
         db'.items = db.items
  PROVE  SwapsInTurn'
  BY DEF SwapsInTurn, OneSwapPerTrade, AskedInTurn, HandedOver, Unanswered, Due, Peer, Partner

LEMMA GSKeepsOrder ==
  ASSUME Safe, NEW u \in Units, GSAction(u)
  PROVE  DeathKnown' /\ (AllAlive' => InOrder')
<1>1. SysTypes /\ DeathKnown /\ (AllAlive => InOrder)
  BY DEF Safe
<1>2. GSKinds(u)
  BY <1>1, AllGSKinds
<1>3. CASE Die(u)
  <2>1. /\ user' = [user EXCEPT ![u] = [GS!LoggedIn({}, 0) EXCEPT !.alive = FALSE,
                                                               !.here = FALSE]]
        /\ up' = [up EXCEPT ![u] = Append(@, GS!Plain("GS_DOWN"))]
    BY <1>3 DEF Die, GS!Crash
  <2>2. user'[u].alive = FALSE
    BY <1>1, <2>1 DEF GS!LoggedIn, SysTypes, GSTypes
  <2>3. \A v \in Units : v # u => user'[v] = user[v] /\ up'[v] = up[v]
    BY <1>1, <2>1 DEF SysTypes, GSTypes
  <2> QED
    BY <1>1, <2>2, <2>3 DEF DeathKnown, AllAlive
<1>4. CASE Mundane(u) \/ Deduct(u) \/ PutIn(u)
  <2>1. \A v \in Units : user'[v].alive = user[v].alive
    <3> SUFFICES ASSUME NEW v \in Units PROVE user'[v].alive = user[v].alive
      OBVIOUS
    <3>1. CASE v # u
      BY <1>4, <3>1 DEF Mundane, Deduct, PutIn, At
    <3>2. CASE v = u
      BY <1>4, <3>2 DEF Mundane, Deduct, PutIn, At
    <3> QED
      BY <3>1, <3>2
  <2>2. DeathKnown'
    <3>1. up[u] \in Seq(UpMessage)
      BY <1>1 DEF SysTypes, GSTypes
    <3>2. None(up[u], "GS_DOWN") => None(up'[u], "GS_DOWN")
      <4>1. CASE Mundane(u)
        BY <4>1 DEF Mundane, At, Fewer
      <4>2. CASE PutIn(u)
        BY <4>2 DEF PutIn
      <4>3. CASE Deduct(u)
        <5> DEFINE r == [type |-> "DB_RESULT", info |-> GS!Report(Head(down[u]))]
        <5>1. up'[u] = up[u] \/ up'[u] = Append(up[u], r)
          BY <4>3 DEF Deduct, At
        <5>2. r.type # "GS_DOWN"
          OBVIOUS
        <5> HIDE DEF r
        <5>3. None(up[u], "GS_DOWN") => None(Append(up[u], r), "GS_DOWN")
          BY ONLY <3>1, <5>2, AfterAppend
        <5> QED
          BY <5>1, <5>3
      <4> QED
        BY <1>4, <4>1, <4>2, <4>3
    <3>3. \A v \in Units : v # u => up'[v] = up[v]
      BY <1>4 DEF Mundane, Deduct, PutIn, At
    <3> QED
      BY <1>1, <2>1, <3>2, <3>3 DEF DeathKnown
  <2>3. ASSUME InOrder PROVE InOrder'
    <3>1. /\ fsm' = fsm /\ users' = users /\ swaps' = swaps /\ trades' = trades
          /\ db'.items = db.items
      BY <1>1, GSLeavesTheRest
    <3>2. AllInTurn' /\ AllHold'
      BY <1>1, <1>4, <2>3, <3>1, GSInTurn DEF AllInTurn, AllHold, InOrder
    <3> QED
      BY <2>3, <3>1, <3>2, SameSwaps DEF InOrder
  <2> QED
    BY <1>1, <2>1, <2>2, <2>3 DEF AllAlive
<1> QED
  BY <1>2, <1>3, <1>4 DEF GSKinds

-----------------------------------------------------------------------------
(* The room's steps, by what they do to an execution.                      *)

\* One before or after any execution, which orders nothing and reports
\* nothing; a closed room stays closed until another trade is opened in it.
Uneventful ==
  /\ fsm # "DB_UPDATE" /\ fsm' # "DB_UPDATE" /\ sentDB' = {}
  /\ \A type \in Final : Lacks(sent', type)
  /\ fsm \in {"INIT", "CLOSE"} =>
       fsm' \in {"INIT", "CLOSE"} \/ (fsm = "INIT" /\ fsm' = "WAIT")

\* The moves a request can cause outside an execution.
Moves ==
  /\ sentDB' = {}
  /\ \/ fsm \in {"WAIT", "CONFIRM"} /\ fsm' \in {"WAIT", "CONFIRM", "CLOSE"}
     \/ fsm = "INIT" /\ fsm' = "WAIT"

LEMMA BreakMoves ==
  ASSUME fsm \in {"WAIT", "CONFIRM"}, NEW us, NEW reason, NEW before,
         BreakTrade(us, reason, before)
  PROVE  Moves
  BY DEF BreakTrade, StateTransition, Moves

LEMMA HandleKinds ==
  ASSUME IndInv, NEW u \in Units, NEW m \in UpMessage, m.type # "GS_DOWN", Handle(u, m)
  PROVE  IF m.type = "DB_RESULT" /\ fsm = "DB_UPDATE"
         THEN u \in Members => Report(u, m.info)
         ELSE Ignore \/ Uneventful \/ Execution
<1>1. ASSUME OpenTradeReq(u, u, m.wallet, m.peer) PROVE Ignore \/ Moves
  BY <1>1 DEF OpenTradeReq, StateTransition, Moves
<1>2. ASSUME JoinTradeReq(u, u, m.wallet) PROVE Ignore \/ Moves
  <2>1. ASSUME NEW us, NEW notices, fsm = "WAIT", Keep(us, notices) PROVE Moves
    BY <2>1 DEF Keep, Moves
  <2> QED
    BY <1>2, <2>1, BreakMoves DEF JoinTradeReq, MayJoin
<1>3. ASSUME BreakTradeReq(u, m.reason) PROVE Ignore \/ Moves
  <2>1. ASSUME NEW us, NEW notices, fsm \in {"WAIT", "CONFIRM"}, Keep(us, notices) PROVE Moves
    BY <2>1 DEF Keep, Moves
  <2> QED
    BY <1>3, <2>1, BreakMoves DEF BreakTradeReq, MayLeave
<1>4. ASSUME \/ UpdateTradeItemReq(u, m.item, m.delete)
             \/ UpdateTradeEDReq(u, m.ed)
      PROVE  Ignore \/ Moves
  <2>1. ASSUME NEW us, NEW notices, fsm = "WAIT", Keep(us, notices) PROVE Moves
    BY <2>1 DEF Keep, Moves
  <2> QED
    BY <1>4, <2>1 DEF UpdateTradeItemReq, UpdateTradeEDReq, CanUpdateItem, CanUpdateED
<1>5. ASSUME OfferTradeReq(u) PROVE Ignore \/ Moves
  BY <1>5, BreakMoves DEF OfferTradeReq, CanOffer, Keep, Moves, StateTransition
<1>6. ASSUME ApproveTradeReq(u) PROVE Ignore \/ Moves
  BY <1>6, BreakMoves DEF ApproveTradeReq, MayApprove, Keep, Moves
<1>7. ASSUME m.type = "CONFIRM_ACK", ConfirmTradeAck(u, m.ok)
      PROVE  Ignore \/ Uneventful \/ Execution
  <2>1. m.ok \in BOOLEAN
    BY <1>7 DEF UpMessage
  <2> QED
    BY <1>7, <2>1, ConfirmOrders DEF Uneventful
<1>8. ASSUME m.type = "DB_RESULT", DBUpdateTradeResultNot(u, m.info)
      PROVE  IF fsm = "DB_UPDATE" THEN u \in Members => Report(u, m.info) ELSE Ignore
  <2> DEFINE us == [users EXCEPT ![u].dbInfo = {m.info}]
  <2>1. CASE fsm # "DB_UPDATE"
    BY <1>8, <2>1 DEF DBUpdateTradeResultNot
  <2>2. CASE fsm = "DB_UPDATE"
    <3>1. ASSUME u \in Members PROVE Report(u, m.info)
      <4>1. NumMember(us) = 2
        <5>1. DOMAIN us = DOMAIN users
          OBVIOUS
        <5> HIDE DEF us
        <5> QED
          BY <2>2, <5>1 DEF IndInv, ReadyToSwap, NumMember
      <4>2. \/ ~AllDBReady(us) /\ Keep(us, Silence)
            \/ /\ AllDBReady(us)
               /\ users' = us /\ sent' = Silence
               /\ sentDB' = {[v \in Members |-> CHOOSE h \in us[v].dbInfo : TRUE]}
               /\ UNCHANGED <<fsm, waitOver>>
        BY <1>8, <2>2, <3>1, <4>1 DEF DBUpdateTradeResultNot
      <4> HIDE DEF us
      <4>3. /\ users' = us /\ sent' = Silence /\ fsm' = fsm
            /\ \/ ~AllDBReady(us) /\ sentDB' = {}
               \/ AllDBReady(us) /\ sentDB' = {[v \in Members |-> CHOOSE h \in us[v].dbInfo : TRUE]}
        BY <4>2 DEF Keep
      <4> QED
        BY <2>2, <3>1, <4>3 DEF Report, us
    <3> QED
      BY <1>8, <2>2, <3>1
  <2> QED
    BY <2>1, <2>2
<1>9. ASSUME Moves PROVE Uneventful \/ Execution
  <2>1. Request(u)
    BY Handled
  <2>2. "CONFIRM_NOT" \in Final /\ "COMPLETE_NOT" \in Final
    BY DEF Final
  <2>3. (\A type \in Final : Lacks(sent', type)) \/ Execution
    BY <2>1, RequestOrders
  <2> QED
    BY <1>9, <2>3 DEF Moves, Uneventful
<1>10. CASE m.type = "DB_RESULT"
  BY <1>8, <1>10 DEF Handle
<1> QED
  BY <1>1, <1>2, <1>3, <1>4, <1>5, <1>6, <1>7, <1>9, <1>10 DEF Handle

LEMMA TickKinds == ASSUME IndInv, Tick PROVE Uneventful
<1>1. ASSUME CloseRoom PROVE Uneventful
  BY <1>1, PlainNotices DEF CloseRoom, Uneventful, StateTransition
<1>2. ASSUME GiveUpWaiting PROVE Uneventful
  <2>1. fsm = "WAIT" /\ fsm' = "CLOSE" /\ sentDB' = {}
    BY <1>2 DEF GiveUpWaiting, BreakTrade, StateTransition
  <2>2. \A type \in Final : Lacks(sent', type)
    BY <1>2, BreakSilently DEF GiveUpWaiting, JoinLate
  <2> QED
    BY <2>1, <2>2 DEF Uneventful
<1> QED
  BY <1>1, <1>2 DEF Tick

-----------------------------------------------------------------------------
(* The room keeps a trade in order.                                        *)

\* One of its steps in the system: approvals are acknowledged before what
\* the room sends.
RoomStep(acks) ==
  /\ sent' \in Notices /\ acks \in [Units -> Seq(DownMessage)]
  /\ \A v \in Units : \A n \in DOMAIN acks[v] : acks[v][n].type = "APPROVE_ACK"
  /\ Forward(acks) /\ user' = user /\ db' = db
  /\ \A v \in Units : up'[v] = up[v] \/ (up[v] # <<>> /\ up'[v] = Tail(up[v]))
  /\ trades' = IF fsm = "INIT" /\ fsm' = "WAIT" THEN trades + 1 ELSE trades

LEMMA QuieterTwice ==
  ASSUME NEW p, NEW q, NEW r, Quieter(p, q), Quieter(q, r) PROVE Quieter(p, r)
  BY DEF Quieter, Fewer

\* What comes down to a game server.
LEMMA ComesDown ==
  ASSUME SysTypes, AllAlive, NEW acks, RoomStep(acks), NEW v \in Units
  PROVE  \E q \in Seq(DownMessage) :
            /\ Quieter(q, down[v])
            /\ down'[v] = q \o ForServer(sent'[v])
            /\ ForServer(sent'[v]) \in Seq(DownMessage)
            /\ \A type \in Final : Lacks(sent', type) => None(ForServer(sent'[v]), type)
<1> DEFINE q == down[v] \o acks[v]
<1>1. down[v] \in Seq(DownMessage) /\ acks[v] \in Seq(DownMessage) /\ user[v].alive
  BY DEF SysTypes, GSTypes, RoomStep, AllAlive
<1>2. None(acks[v], "CONFIRM_NOT") /\ None(acks[v], "COMPLETE_NOT")
  BY DEF RoomStep, None
<1>3. q \in Seq(DownMessage) /\ Quieter(q, down[v])
  <2> DEFINE d == down[v]
             a == acks[v]
  <2> HIDE DEF d, a
  <2>1. d \o a \in Seq(DownMessage) /\ Quieter(d \o a, d)
    BY <1>1, <1>2, FewerInConcat, ConcatProperties DEF d, a
  <2> QED
    BY <2>1 DEF d, a
<1>4. down'[v] = q \o ForServer(sent'[v])
  BY <1>1 DEF RoomStep, Forward
<1>5. ForServer(sent'[v]) \in Seq(DownMessage)
  BY PlainFromRoom DEF RoomStep
<1>6. \A type \in Final : Lacks(sent', type) => None(ForServer(sent'[v]), type)
  BY DEF Lacks, None, ForServer
<1> HIDE DEF q
<1> QED
  BY <1>3, <1>4, <1>5, <1>6

\* And what is taken from it.
LEMMA ComesUp ==
  ASSUME SysTypes, NEW acks, RoomStep(acks), NEW v \in Units
  PROVE  \A type : Fewer(up'[v], up[v], type)
<1>1. up[v] \in Seq(UpMessage)
  BY DEF SysTypes, GSTypes
<1>2. up'[v] = up[v] \/ (up[v] # <<>> /\ up'[v] = Tail(up[v]))
  BY DEF RoomStep
<1> QED
  BY <1>1, <1>2, FewerInTail, FewerInSame

LEMMA NothingOrdered ==
  ASSUME SysTypes, AllAlive, NEW acks, RoomStep(acks), NEW v \in Units,
         \A type \in Final : Lacks(sent', type)
  PROVE  Quieter(down'[v], down[v])
<1>1. PICK q \in Seq(DownMessage) :
            /\ Quieter(q, down[v])
            /\ down'[v] = q \o ForServer(sent'[v])
            /\ ForServer(sent'[v]) \in Seq(DownMessage)
            /\ \A type \in Final : Lacks(sent', type) => None(ForServer(sent'[v]), type)
  BY ComesDown
<1> DEFINE f == ForServer(sent'[v])
<1>2. f \in Seq(DownMessage) /\ None(f, "CONFIRM_NOT") /\ None(f, "COMPLETE_NOT")
  BY <1>1 DEF Final
<1>3. down'[v] = q \o f
  BY <1>1
<1> HIDE DEF f
<1>4. Quieter(q \o f, q)
  BY <1>2, FewerInConcat
<1> QED
  BY <1>1, <1>3, <1>4, QuieterTwice

LEMMA IgnoredOrder ==
  ASSUME SysTypes, AllAlive, InOrder, NEW acks, RoomStep(acks), Ignore \/ Uneventful
  PROVE  InOrder'
<1>1. \A type \in Final : Lacks(sent', type)
  BY IgnoreLacks DEF Uneventful
<1>2. \/ fsm' = fsm /\ users' = users
      \/ fsm # "DB_UPDATE" /\ fsm' # "DB_UPDATE"
  BY DEF Ignore, Keep, Uneventful
<1>3. swaps' = swaps
  BY DEF Ignore, Keep, Uneventful, RoomStep, Forward
<1>4. ASSUME NEW v \in Units
      PROVE  /\ InTurn(fsm', users', v, up'[v], down'[v])
             /\ Holds(fsm', users', db.items, v, user[v].items, up'[v], down'[v])
  <2>1. /\ InTurn(fsm, users, v, up[v], down[v])
        /\ Holds(fsm, users, db.items, v, user[v].items, up[v], down[v])
    BY DEF InOrder, AllInTurn, AllHold
  <2>2. Fewer(up'[v], up[v], "DB_RESULT") /\ Quieter(down'[v], down[v])
    BY <1>1, ComesUp, NothingOrdered
  <2> QED
    BY <1>2, <2>1, <2>2, NothingNew
<1>5. user' = user /\ db' = db
  BY DEF RoomStep
<1>6. SwapsInTurn'
  <2>1. CASE Ignore
    <3>1. fsm' = fsm /\ users' = users /\ trades' = trades /\ db'.items = db.items
      BY <1>5, <2>1 DEF Ignore, Keep, RoomStep
    <3> QED
      BY <1>3, <3>1, SameSwaps DEF InOrder
  <2>2. CASE Uneventful
    <3>1. ASSUME NEW n \in DOMAIN swaps PROVE AskedInTurn(fsm', users', trades', swaps[n])
      <4>0. swaps[n] \in SwapRequest /\ trades \in Nat
        BY DEF SysTypes, SwapTypes
      <4>1. AskedInTurn(fsm, users, trades, swaps[n]) /\ swaps[n].trade \in Nat /\ trades \in Nat
        BY <4>0 DEF InOrder, SwapsInTurn, SwapRequest
      <4>2. ~Unanswered(swaps[n]) /\ fsm' # "DB_UPDATE"
        BY <2>2, <4>1 DEF AskedInTurn, Uneventful
      <4>3. swaps[n].trade <= trades'
        BY <4>1 DEF AskedInTurn, RoomStep
      <4>4. swaps[n].trade = trades' => fsm' \in {"DB_UPDATE", "CLOSE", "INIT"}
        BY <2>2, <4>1 DEF AskedInTurn, RoomStep, Uneventful
      <4> QED
        BY <4>2, <4>3, <4>4 DEF AskedInTurn
    <3>2. OneSwapPerTrade' /\ \A n \in DOMAIN swaps : HandedOver(db'.items, swaps[n])
      BY <1>3, <1>5 DEF InOrder, SwapsInTurn, OneSwapPerTrade
    <3> QED
      BY <1>3, <3>1, <3>2 DEF SwapsInTurn
  <2> QED
    BY <2>1, <2>2
<1> QED
  BY <1>4, <1>5, <1>6 DEF InOrder, AllInTurn, AllHold

\* The orders to carry a trade out are the traders' alone.
LEMMA OrderSent ==
  ASSUME IndInv, Execution, NEW v \in Units
  PROVE  ForServer(sent'[v]) = IF v \in DOMAIN users' THEN <<Order(users', v)>> ELSE <<>>
<1>1. DOMAIN users' = Members
  BY DEF Execution, Members
<1>2. Other(v) = Peer(users', v)
  BY <1>1 DEF Other, Peer
<1>3. sent'[v] = IF v \in DOMAIN users' THEN <<Order(users', v)>> ELSE <<>>
  BY <1>2 DEF Execution, Mirrored, Order
<1>4. CASE v \in DOMAIN users'
  <2> DEFINE m == Order(users', v)
  <2>1. m.type = "CONFIRM_NOT"
    BY DEF Order
  <2> HIDE DEF m
  <2>2. sent'[v] = <<m>>
    BY <1>3, <1>4 DEF m
  <2>3. Range(sent'[v]) = {m}
    BY <2>2 DEF Range
  <2> QED
    BY <1>4, <2>1, <2>2, <2>3 DEF ForServer, m
<1>5. CASE v \notin DOMAIN users'
  BY <1>3, <1>5 DEF ForServer
<1> QED
  BY <1>4, <1>5

LEMMA ExecutionOrder ==
  ASSUME SysTypes, AllAlive, InOrder, NEW acks, RoomStep(acks), Execution
  PROVE  InOrder'
<1>0. fsm = "CONFIRM" /\ fsm' = "DB_UPDATE" /\ user' = user /\ db' = db
      /\ trades' = trades /\ swaps' = swaps /\ DOMAIN users' = Members
  BY DEF Execution, RoomStep, Forward, Members
<1>1. ASSUME NEW v \in Units
      PROVE  /\ InTurn(fsm', users', v, up'[v], down'[v])
             /\ Holds(fsm', users', db.items, v, user[v].items, up'[v], down'[v])
  <2>1. /\ InTurn(fsm, users, v, up[v], down[v])
        /\ Holds(fsm, users, db.items, v, user[v].items, up[v], down[v])
    BY DEF InOrder, AllInTurn, AllHold
  <2>2. None(down[v], "CONFIRM_NOT") /\ None(up[v], "DB_RESULT")
    BY <1>0, <2>1 DEF InTurn, Executing
  <2>3. None(up'[v], "DB_RESULT")
    BY <2>2, ComesUp DEF Fewer
  <2> DEFINE f == ForServer(sent'[v])
             own == db.items
             items == user[v].items
  <2>4. PICK q \in Seq(DownMessage) :
              Quieter(q, down[v]) /\ down'[v] = q \o f /\ f \in Seq(DownMessage)
    BY ComesDown
  <2>5. f = IF v \in DOMAIN users' THEN <<Order(users', v)>> ELSE <<>>
    BY OrderSent DEF SysTypes
  <2> HIDE DEF f, own, items
  <2>6. /\ None(q, "CONFIRM_NOT")
        /\ \A i \in items : own[i] = v
        /\ \A m \in Range(q) : m.type = "COMPLETE_NOT" => \A i \in m.info.in : own[i] = v
    BY <2>1, <2>2, <2>4 DEF Quieter, Fewer, Holds, own, items
  <2>7. CASE v \in DOMAIN users'
    <3> DEFINE o == Order(users', v)
    <3>1. o.type = "CONFIRM_NOT"
      BY DEF Order
    <3>2. f = <<o>>
      BY <2>5, <2>7
    <3> HIDE DEF o
    <3>3. /\ One(f, "CONFIRM_NOT") /\ None(f, "COMPLETE_NOT") /\ Range(f) = {o}
          /\ Before(f, "COMPLETE_NOT", "CONFIRM_NOT")
      BY <3>1, <3>2 DEF One, None, Before, Range
    <3>4. /\ One(q \o f, "CONFIRM_NOT") /\ Range(q \o f) = Range(q) \cup {o}
          /\ Before(q \o f, "COMPLETE_NOT", "CONFIRM_NOT")
      BY <2>4, <2>6, <3>3, AfterConcat
    <3>5. \A m \in Range(q) : m.type # "CONFIRM_NOT"
      BY <2>6 DEF None, Range
    <3>6. users'[v].dbInfo = {}
      BY <1>0, <2>7 DEF Execution, SysTypes, IndInv, NoFlagBeforeItsTime
    <3>7. One(up'[v], "DB_RESULT") /\ \A m \in Range(up'[v]) : m.type # "DB_RESULT"
      BY <2>3 DEF None, One, Range
    <3>8. InTurn(fsm', users', v, up'[v], q \o f)
      <4>1. Executing(fsm', users', v)
        BY <1>0, <2>7 DEF Executing
      <4>2. \A m \in Range(q \o f) : m.type = "CONFIRM_NOT" => m = o
        BY <3>4, <3>5
      <4> QED
        BY <2>3, <3>4, <3>6, <3>7, <4>1, <4>2 DEF InTurn, o
    <3>9. Holds(fsm', users', own, v, items, up'[v], q \o f)
      BY <2>3, <2>6, <3>1, <3>4, <3>6 DEF Holds
    <3> QED
      BY <2>4, <3>8, <3>9 DEF own, items
  <2>8. CASE v \notin DOMAIN users'
    <3>1. f = <<>>
      BY <2>5, <2>8
    <3>2. q \o f = q
      BY <2>4, <3>1
    <3>3. ~Executing(fsm', users', v)
      BY <2>8 DEF Executing
    <3>4. Before(q, "COMPLETE_NOT", "CONFIRM_NOT")
      BY <2>6 DEF Before, None
    <3>5. InTurn(fsm', users', v, up'[v], q)
      BY <2>3, <2>6, <3>3 DEF InTurn
    <3>6. Holds(fsm', users', own, v, items, up'[v], q)
      BY <2>6, <3>3, <3>4 DEF Holds
    <3> QED
      BY <2>4, <3>2, <3>5, <3>6 DEF own, items
  <2> QED
    BY <2>7, <2>8
<1>2. SwapsInTurn'
  <2>1. ASSUME NEW n \in DOMAIN swaps PROVE AskedInTurn(fsm', users', trades', swaps[n])
    <3>1. AskedInTurn(fsm, users, trades, swaps[n])
      BY DEF InOrder, SwapsInTurn
    <3>2. swaps[n].trade <= trades /\ swaps[n].trade # trades /\ ~Unanswered(swaps[n])
      BY <1>0, <3>1 DEF AskedInTurn
    <3> QED
      BY <1>0, <3>2 DEF AskedInTurn
  <2>2. OneSwapPerTrade' /\ \A n \in DOMAIN swaps : HandedOver(db'.items, swaps[n])
    BY <1>0 DEF InOrder, SwapsInTurn, OneSwapPerTrade
  <2> QED
    BY <1>0, <2>1, <2>2 DEF SwapsInTurn
<1> QED
  BY <1>0, <1>1, <1>2 DEF InOrder, AllInTurn, AllHold

\* A trader's report is kept: nothing else of the trade changes, and with
\* both the DB is asked for what is due.
LEMMA OtherData ==
  ASSUME NEW f, NEW us, NEW us2, NEW u, NEW s, NEW q, DOMAIN us2 = DOMAIN us,
         \A w \in DOMAIN us : us2[w].items = us[w].items /\ us2[w].ed = us[w].ed,
         u \in DOMAIN us => us2[u].dbInfo = us[u].dbInfo /\ Peer(us, u) \in DOMAIN us
  PROVE  /\ InTurn(f, us, u, s, q) => InTurn(f, us2, u, s, q)
         /\ \A own, items : Holds(f, us, own, u, items, s, q) => Holds(f, us2, own, u, items, s, q)
<1>1. Executing(f, us2, u) <=> Executing(f, us, u)
  BY DEF Executing
<1>2. u \in DOMAIN us => Peer(us2, u) = Peer(us, u)
  BY DEF Peer
<1>3. u \in DOMAIN us => Order(us2, u) = Order(us, u) /\ Due(us2, u) = Due(us, u)
  BY <1>2 DEF Order, Due, GoodsOf
<1>4. Executing(f, us, u) => u \in DOMAIN us
  BY DEF Executing
<1>5. InTurn(f, us, u, s, q) => InTurn(f, us2, u, s, q)
  BY <1>1, <1>3, <1>4 DEF InTurn
<1>6. ASSUME NEW own, NEW items, Holds(f, us, own, u, items, s, q)
      PROVE  Holds(f, us2, own, u, items, s, q)
  BY <1>1, <1>4, <1>6 DEF Holds
<1> QED
  BY <1>5, <1>6

LEMMA TwoTraders ==
  ASSUME IndInv, fsm = "DB_UPDATE"
  PROVE  /\ users \in UserMap /\ DOMAIN users \subseteq Units
         /\ \A u \in DOMAIN users : users[u] \in TradeUser /\ Peer(users, u) \in DOMAIN users
<1>1. users \in UserMap /\ NumMember(users) = 2
  BY TypeOKUsers DEF IndInv, ReadyToSwap
<1>2. ASSUME NEW u \in DOMAIN users PROVE Peer(users, u) \in DOMAIN users
  <2>1. Other(u) \in Members
    BY <1>1, <1>2, OtherMember DEF Members
  <2> QED
    BY <2>1 DEF Other, Peer, Members
<1> QED
  BY <1>1, <1>2, UserMapDomain

LEMMA ReportOrder ==
  ASSUME SysTypes, AllAlive, InOrder, NEW acks, RoomStep(acks), NEW u \in Units,
         up[u] # <<>>, Head(up[u]).type = "DB_RESULT", Report(u, Head(up[u]).info),
         up'[u] = Tail(up[u])
  PROVE  InOrder'
<1> DEFINE g == Head(up[u]).info
           us == [users EXCEPT ![u].dbInfo = {g}]
<1>0. /\ fsm = "DB_UPDATE" /\ fsm' = "DB_UPDATE" /\ u \in DOMAIN users
      /\ users' = us /\ sent' = Silence
      /\ user' = user /\ db' = db /\ trades' = trades
  BY DEF Report, RoomStep, Members
<1>1. /\ users \in UserMap /\ DOMAIN users \subseteq Units
      /\ \A v \in DOMAIN users : users[v] \in TradeUser /\ Peer(users, v) \in DOMAIN users
  BY <1>0, TwoTraders DEF SysTypes
<1>2. up[u] \in Seq(UpMessage) /\ ~None(up[u], "DB_RESULT") /\ Head(up[u]) \in Range(up[u])
  <2>1. up[u] \in Seq(UpMessage)
    BY DEF SysTypes, GSTypes
  <2> QED
    BY <2>1, AfterHead
<1>3. Executing(fsm, users, u) /\ InTurn(fsm, users, u, up[u], down[u])
  BY <1>0 DEF Executing, InOrder, AllInTurn
<1>4. /\ users[u].dbInfo = {} /\ g = Due(users, u) /\ None(down[u], "CONFIRM_NOT")
      /\ One(up[u], "DB_RESULT") /\ One(down[u], "CONFIRM_NOT")
  BY <1>2, <1>3 DEF InTurn
<1> HIDE DEF g
<1>5. /\ DOMAIN us = DOMAIN users
      /\ \A v \in DOMAIN users : us[v].items = users[v].items /\ us[v].ed = users[v].ed
      /\ \A v \in DOMAIN users : v # u => us[v].dbInfo = users[v].dbInfo
      /\ us[u].dbInfo = {g}
  BY <1>0, <1>1 DEF TradeUser
<1> HIDE DEF us
<1>6. \A v \in DOMAIN users : Due(us, v) = Due(users, v) /\ Peer(us, v) = Peer(users, v)
  <2>1. \A v : Peer(us, v) = Peer(users, v)
    BY <1>5 DEF Peer
  <2> QED
    BY <1>1, <1>5, <2>1 DEF Due
<1>7. \A type : Lacks(sent', type)
  BY <1>0, PlainNotices
<1>8. ASSUME NEW v \in Units
      PROVE  /\ InTurn(fsm, us, v, up'[v], down'[v])
             /\ Holds(fsm, us, db.items, v, user[v].items, up'[v], down'[v])
  <2>1. /\ InTurn(fsm, users, v, up[v], down[v])
        /\ Holds(fsm, users, db.items, v, user[v].items, up[v], down[v])
    BY DEF InOrder, AllInTurn, AllHold
  <2>2. Fewer(up'[v], up[v], "DB_RESULT") /\ Quieter(down'[v], down[v])
    BY <1>7, ComesUp, NothingOrdered
  <2>3. /\ InTurn(fsm, users, v, up'[v], down'[v])
        /\ Holds(fsm, users, db.items, v, user[v].items, up'[v], down'[v])
    BY <2>1, <2>2, NothingNew
  <2>4. CASE v # u
    BY <1>1, <1>5, <2>3, <2>4, OtherData
  <2>5. CASE v = u
    <3> DEFINE s == up'[u]
               q == down'[u]
               items == user[u].items
               own == db.items
    <3>1. None(s, "DB_RESULT")
      <4>1. None(Tail(up[u]), "DB_RESULT")
        BY <1>2, <1>4, AfterHead
      <4> QED
        BY <4>1
    <3>2. None(q, "CONFIRM_NOT")
      BY <1>4, <2>2, <2>5 DEF Quieter, Fewer
    <3>3. None(down[u], "COMPLETE_NOT") /\ items \cap users[u].items = {}
      BY <1>2, <1>3, <2>1, <2>5 DEF Holds
    <3>4. None(q, "COMPLETE_NOT")
      BY <2>2, <2>5, <3>3 DEF Quieter, Fewer
    <3>5. Executing(fsm, us, u)
      BY <1>0, <1>5 DEF Executing
    <3>6. Holds(fsm, users, own, u, items, s, q)
      BY <2>3, <2>5
    <3> HIDE DEF s, q, items, own
    <3>7. InTurn(fsm, us, u, s, q)
      <4>1. One(s, "DB_RESULT") /\ One(q, "CONFIRM_NOT")
            /\ (\A m \in Range(s) : m.type # "DB_RESULT")
            /\ \A m \in Range(q) : m.type # "CONFIRM_NOT"
        BY <3>1, <3>2 DEF None, One, Range
      <4>2. us[u].dbInfo \subseteq {Due(us, u)}
        BY <1>0, <1>4, <1>5, <1>6
      <4> QED
        BY <3>1, <3>2, <3>5, <4>1, <4>2 DEF InTurn
    <3>8. Holds(fsm, us, own, u, items, s, q)
      BY <1>0, <1>5, <3>3, <3>4, <3>6 DEF Holds
    <3> QED
      BY <2>5, <3>7, <3>8 DEF s, q, items, own
  <2> QED
    BY <2>4, <2>5
<1>9. ASSUME NEW n \in DOMAIN swaps
      PROVE  /\ ~Unanswered(swaps[n]) /\ swaps[n].trade <= trades /\ swaps[n].trade # trades
             /\ AskedInTurn(fsm, us, trades, swaps[n])
             /\ HandedOver(db.items, swaps[n])
  <2>1. AskedInTurn(fsm, users, trades, swaps[n]) /\ HandedOver(db.items, swaps[n])
    BY DEF InOrder, SwapsInTurn
  <2>2. ~Unanswered(swaps[n])
    BY <1>0, <1>4, <2>1 DEF AskedInTurn
  <2>3. swaps[n].trade <= trades /\ swaps[n].trade # trades
    BY <1>0, <2>1, <2>2 DEF AskedInTurn
  <2> QED
    BY <2>1, <2>2, <2>3 DEF AskedInTurn
<1>10. SwapsInTurn'
  <2>1. CASE sentDB' = {}
    <3>1. swaps' = swaps
      BY <2>1 DEF RoomStep, Forward
    <3>2. OneSwapPerTrade'
      BY <3>1 DEF InOrder, SwapsInTurn, OneSwapPerTrade
    <3> QED
      BY <1>0, <1>9, <3>1, <3>2 DEF SwapsInTurn
  <2>2. CASE sentDB' # {}
    <3> DEFINE info == [v \in DOMAIN us |-> Due(us, v)]
               x == [trade |-> trades, info |-> info, status |-> "asked"]
    <3>1. AllDBReady(us) /\ sentDB' = {[v \in Members |-> CHOOSE h \in us[v].dbInfo : TRUE]}
      BY <2>2 DEF Report, us, g
    <3>2. \A v \in DOMAIN us : us[v].dbInfo = {Due(us, v)}
      <4> SUFFICES ASSUME NEW v \in DOMAIN us PROVE us[v].dbInfo = {Due(us, v)}
        OBVIOUS
      <4>1. us[v].dbInfo # {} /\ v \in Units
        BY <1>1, <1>5, <3>1 DEF AllDBReady
      <4>2. Executing(fsm, us, v) /\ InTurn(fsm, us, v, up'[v], down'[v])
        BY <1>0, <1>8, <4>1 DEF Executing
      <4>3. us[v].dbInfo \subseteq {Due(us, v)}
        BY <4>2 DEF InTurn
      <4> HIDE DEF us
      <4> QED
        BY <4>1, <4>3
    <3>3. [v \in Members |-> CHOOSE h \in us[v].dbInfo : TRUE] = info
      BY <1>5, <3>2 DEF Members
    <3> HIDE DEF info
    <3>4. sentDB' = {info}
      BY <3>1, <3>3
    <3>5. swaps' = Append(swaps, x)
      BY <2>2, <3>4 DEF RoomStep, Forward
    <3>6. x.trade = trades /\ x.status = "asked" /\ x.info = info
      OBVIOUS
    <3> HIDE DEF x
    <3>7. AskedInTurn(fsm, us, trades, x) /\ HandedOver(db.items, x)
      <4>1. trades \in Nat
        BY DEF SysTypes, SwapTypes
      <4>2. info = [v \in DOMAIN us |-> Due(us, v)] /\ \A v \in DOMAIN us : us[v].dbInfo # {}
        BY <3>2 DEF info
      <4> QED
        BY <1>0, <3>6, <4>1, <4>2 DEF AskedInTurn, HandedOver, Unanswered
    <3>8. /\ DOMAIN swaps = 1..Len(swaps) /\ Len(swaps) \in Nat
          /\ DOMAIN swaps' = 1..Len(swaps) + 1 /\ swaps'[Len(swaps) + 1] = x
          /\ \A n \in DOMAIN swaps : swaps'[n] = swaps[n]
      BY <3>5 DEF SysTypes, SwapTypes
    <3>9. \A n \in DOMAIN swaps' : n \in DOMAIN swaps \/ n = Len(swaps) + 1
      BY <3>8
    <3>10. OneSwapPerTrade'
      BY <1>9, <3>6, <3>8, <3>9 DEF InOrder, SwapsInTurn, OneSwapPerTrade
    <3>11. \A n \in DOMAIN swaps' : /\ AskedInTurn(fsm, us, trades, swaps'[n])
                                    /\ HandedOver(db.items, swaps'[n])
      BY <1>9, <3>7, <3>8, <3>9
    <3> QED
      BY <1>0, <3>10, <3>11 DEF SwapsInTurn
  <2> QED
    BY <2>1, <2>2
<1> QED
  BY <1>0, <1>8, <1>10 DEF InOrder, AllInTurn, AllHold

-----------------------------------------------------------------------------
(* The DB keeps a trade in order.                                          *)

\* The request that is not answered: there is one at most, for what is due.
LEMMA TheRequest ==
  ASSUME SysTypes, InOrder, NEW n \in DOMAIN swaps, Unanswered(swaps[n])
  PROVE  /\ swaps[n] \in SwapRequest /\ swaps[n].info \in DBInfos
         /\ fsm = "DB_UPDATE" /\ DOMAIN swaps[n].info = DOMAIN users
         /\ swaps[n].trade = trades
         /\ \A v \in DOMAIN users : /\ swaps[n].info[v].out = users[v].items
                                    /\ Executing(fsm, users, v) /\ users[v].dbInfo # {}
         /\ \A k \in DOMAIN swaps : k # n => swaps[k].trade # trades /\ ~Unanswered(swaps[k])
<1>1. swaps[n] \in SwapRequest
  BY DEF SysTypes, SwapTypes
<1>2. \A k \in DOMAIN swaps : AskedInTurn(fsm, users, trades, swaps[k])
  BY DEF InOrder, SwapsInTurn
<1>3. /\ fsm = "DB_UPDATE" /\ swaps[n].trade = trades
      /\ swaps[n].info = [u \in DOMAIN users |-> Due(users, u)]
      /\ \A v \in DOMAIN users : users[v].dbInfo # {}
  BY <1>2 DEF AskedInTurn
<1>4. \A v \in DOMAIN users : swaps[n].info[v].out = users[v].items
  BY <1>3 DEF Due
<1>5. \A k \in DOMAIN swaps : k # n => swaps[k].trade # trades
  BY <1>3 DEF InOrder, SwapsInTurn, OneSwapPerTrade
<1>6. \A k \in DOMAIN swaps : k # n => ~Unanswered(swaps[k])
  BY <1>2, <1>5 DEF AskedInTurn
<1>7. swaps[n].info \in DBInfos
  BY <1>1 DEF SwapRequest
<1> QED
  BY <1>1, <1>3, <1>4, <1>5, <1>6, <1>7 DEF Executing

\* Whoever the swap takes an item from has taken it out of its inventory.
LEMMA SwapOrder ==
  ASSUME SysTypes, InOrder, NEW n \in DOMAIN swaps, Swap(n)
  PROVE  InOrder'
<1> DEFINE info == swaps[n].info
           own == db.items
<1>0. /\ fsm' = fsm /\ users' = users /\ trades' = trades
      /\ user' = user /\ up' = up /\ down' = down
  BY DEF Swap, Ignore, Keep, gsVars
<1>1. PICK st \in {"done", "failed"} :
        /\ swaps[n].status = "asked" /\ swaps' = [swaps EXCEPT ![n].status = st]
        /\ st = "done" => CanSwap(info) /\ db' = Swapped(info)
        /\ st = "failed" => db' = db
  BY DEF Swap
<1>2. Unanswered(swaps[n])
  BY <1>1 DEF Unanswered
<1>3. /\ info \in DBInfos /\ fsm = "DB_UPDATE" /\ DOMAIN info = DOMAIN users
      /\ swaps[n].trade = trades
      /\ \A v \in DOMAIN users : /\ info[v].out = users[v].items
                                 /\ Executing(fsm, users, v) /\ users[v].dbInfo # {}
      /\ \A k \in DOMAIN swaps : k # n => swaps[k].trade # trades /\ ~Unanswered(swaps[k])
  BY <1>2, TheRequest
<1>4. /\ DOMAIN swaps' = DOMAIN swaps /\ swaps'[n].status = st
      /\ \A k \in DOMAIN swaps : k # n => swaps'[k].status = swaps[k].status
      /\ \A k \in DOMAIN swaps : swaps'[k].info = swaps[k].info
                                 /\ swaps'[k].trade = swaps[k].trade
  BY <1>1, SwapStatus DEF SysTypes
<1>5. db'.items \in [Items -> Units] /\ own \in [Items -> Units]
  <2>1. DBTypes'
    BY SwapTypesKept
  <2> QED
    BY <2>1 DEF SysTypes, DBTypes
<1> HIDE DEF info, own
\* An item that is not in the swap stays; one that is goes to the partner.
<1>6. ASSUME NEW i \in Items, NEW v \in Units, own[i] = v,
             st = "done" => v \notin DOMAIN info \/ i \notin info[v].out
      PROVE  db'.items[i] = v
  <2>1. CASE st = "failed"
    BY <1>1, <1>6, <2>1 DEF own
  <2>2. CASE st = "done"
    <3>1. \A w \in DOMAIN info : i \in info[w].out => w = v
      BY <1>1, <1>6, <2>2 DEF CanSwap, own
    <3>2. ~\E w \in DOMAIN info : i \in info[w].out
      BY <1>6, <2>2, <3>1
    <3> QED
      BY <1>1, <1>6, <2>2, <3>2 DEF Swapped, own
  <2> QED
    BY <2>1, <2>2
<1>7. ASSUME NEW v \in DOMAIN info, NEW i \in info[v].out, st = "done"
      PROVE  db'.items[i] = Partner(info, v)
  <2>1. i \in Items
    BY <1>3, PairOf, InfoFields
  <2>2. \A w \in DOMAIN info : i \in info[w].out => w = v
    BY <1>1, <1>7 DEF CanSwap
  <2>3. (CHOOSE w \in DOMAIN info : i \in info[w].out) = v
    BY <2>2
  <2> QED
    BY <1>1, <1>7, <2>1, <2>3 DEF Swapped
<1>8. ASSUME NEW v \in Units PROVE Holds(fsm, users, db'.items, v, user[v].items, up[v], down[v])
  <2>1. Holds(fsm, users, own, v, user[v].items, up[v], down[v])
    BY DEF InOrder, AllHold, own
  <2>2. v \in DOMAIN info => /\ None(down[v], "COMPLETE_NOT")
                             /\ user[v].items \cap info[v].out = {}
    BY <1>3, <2>1 DEF Holds
  <2>3. user[v].items \subseteq Items
    BY DEF SysTypes, GSTypes, GS!User
  <2>4. \A i \in user[v].items : db'.items[i] = v
    BY <1>6, <2>1, <2>2, <2>3 DEF Holds
  <2>5. ASSUME NEW m \in Range(down[v]), m.type = "COMPLETE_NOT", NEW i \in m.info.in
        PROVE  db'.items[i] = v
    <3>1. v \notin DOMAIN info
      BY <2>2, <2>5 DEF None, Range
    <3>2. m \in DownMessage
      BY DEF SysTypes, GSTypes, Range
    <3>3. m.info \in DBInfo
      BY <2>5, <3>2 DEF DownMessage, Message
    <3>4. i \in Items
      BY <3>3, InfoFields
    <3>5. own[i] = v
      BY <2>1, <2>5 DEF Holds
    <3> QED
      BY <1>6, <3>1, <3>4, <3>5
  <2> QED
    BY <2>1, <2>4, <2>5 DEF Holds
<1>9. SwapsInTurn'
  <2>1. ASSUME NEW k \in DOMAIN swaps
        PROVE  AskedInTurn(fsm, users, trades, swaps'[k]) /\ HandedOver(db'.items, swaps'[k])
    <3>1. AskedInTurn(fsm, users, trades, swaps[k])
      BY DEF InOrder, SwapsInTurn
    <3>2. Unanswered(swaps'[k]) <=> Unanswered(swaps[k])
      BY <1>1, <1>4 DEF Unanswered
    <3>3. AskedInTurn(fsm, users, trades, swaps'[k])
      BY <1>4, <3>1, <3>2 DEF AskedInTurn
    <3>4. CASE k # n
      BY <1>3, <1>4, <3>3, <3>4 DEF HandedOver, Unanswered
    <3>5. CASE k = n
      <4>1. swaps'[k].info = info
        BY <1>4, <3>5 DEF info
      <4>2. HandedOver(db'.items, swaps'[k])
        BY <1>4, <1>7, <3>5, <4>1 DEF HandedOver
      <4> QED
        BY <3>3, <4>2
    <3> QED
      BY <3>4, <3>5
  <2>2. OneSwapPerTrade'
    BY <1>4 DEF InOrder, SwapsInTurn, OneSwapPerTrade
  <2> QED
    BY <1>0, <1>4, <2>1, <2>2 DEF SwapsInTurn
<1> QED
  BY <1>0, <1>8, <1>9 DEF InOrder, AllInTurn, AllHold

\* What the answer brings a unit: at most what the other trader gave.
LEMMA AnswerBrings ==
  ASSUME SysTypes, NEW n \in DOMAIN swaps, swaps[n].info \in DBInfos, fsm = "DB_UPDATE",
         Answer(n), sent' \in Notices, NEW v \in Units
  PROVE  /\ fsm' = "CLOSE" /\ users' = users
         /\ ForServer(sent'[v]) \in Seq(DownMessage)
         /\ None(ForServer(sent'[v]), "CONFIRM_NOT")
         /\ \A m \in Range(ForServer(sent'[v])) : m.type = "COMPLETE_NOT" =>
              /\ swaps[n].status = "done" /\ v \in DOMAIN swaps[n].info
              /\ m.info.in = swaps[n].info[Partner(swaps[n].info, v)].out
<1> DEFINE ok == swaps[n].status = "done"
           info == Crosswise(swaps[n].info)
           before == [w \in Units |-> IF w \in DOMAIN info \cap Members
                                      THEN <<[type |-> "COMPLETE_NOT", info |-> info[w]]>>
                                      ELSE <<>>]
           bye(reason) == Broadcast(users, BreakNot(reason))
<1>1. DBUpdateTradeResultAck(ok, info)
  BY DEF Answer
<1>2. /\ info \in DBInfos /\ DOMAIN info = DOMAIN swaps[n].info
      /\ \A u \in DOMAIN info : info[u].in = swaps[n].info[Partner(swaps[n].info, u)].out
  BY CrosswiseTypes
<1> HIDE DEF info
<1>3. \/ ~ok /\ BreakTrade(users, WrongCount, Silence)
      \/ ok /\ BreakTrade(users, Completed, before)
  BY <1>1 DEF DBUpdateTradeResultAck
<1>4. fsm' = "CLOSE" /\ users' = users
  BY <1>3 DEF BreakTrade, StateTransition
<1>5. \E reason \in Nat : \/ sent'[v] = <<>> \o bye(reason)[v]
                          \/ ok /\ sent'[v] = before[v] \o bye(reason)[v]
  BY <1>3 DEF BreakTrade, Then, Silence, WrongCount, Completed
<1>6. ASSUME NEW reason \in Nat
      PROVE  /\ bye(reason)[v] \in Seq(DownMessage)
             /\ \A m \in Range(bye(reason)[v]) : m.type = "BREAK_NOT"
  <2> DEFINE m == BreakNot(reason)
  <2>1. m.type = "BREAK_NOT" /\ m \in DownMessage
    BY PlainTypes DEF BreakNot, DownMessage
  <2> HIDE DEF m
  <2> DEFINE b == bye(reason)[v]
  <2>2. b = <<m>> \/ b = <<>>
    BY DEF Broadcast, m
  <2> HIDE DEF b
  <2>3. b \in Seq(DownMessage) /\ \A k \in Range(b) : k.type = "BREAK_NOT"
    <3>1. CASE b = <<m>>
      <4>1. Range(b) = {m}
        BY ONLY <3>1 DEF Range
      <4>2. <<m>> \in Seq(DownMessage)
        BY <2>1
      <4> QED
        BY <2>1, <3>1, <4>1, <4>2
    <3>2. CASE b = <<>>
      BY ONLY <3>2 DEF Range
    <3> QED
      BY <2>2, <3>1, <3>2
  <2> QED
    BY <2>3 DEF b
<1>7. /\ before[v] \in Seq(DownMessage)
      /\ \A m \in Range(before[v]) : /\ m.type = "COMPLETE_NOT" /\ v \in DOMAIN info
                                     /\ m.info = info[v]
  <2>1. CASE v \in DOMAIN info \cap Members
    <3> DEFINE m == [type |-> "COMPLETE_NOT", info |-> info[v]]
    <3>1. info[v] \in DBInfo
      BY <1>2, <2>1, PairOf
    <3>2. m \in DownMessage /\ m.type = "COMPLETE_NOT" /\ m.info = info[v]
      BY <3>1 DEF DownMessage, Message
    <3>3. before[v] = <<m>>
      BY <2>1
    <3> HIDE DEF m, before
    <3> QED
      BY <2>1, <3>2, <3>3 DEF Range
  <2>2. CASE v \notin DOMAIN info \cap Members
    <3>1. before[v] = <<>>
      BY <2>2
    <3> HIDE DEF before
    <3> QED
      BY <3>1 DEF Range
  <2> QED
    BY <2>1, <2>2
<1> HIDE DEF before, bye
<1>8. ASSUME NEW m \in Range(sent'[v])
      PROVE  \/ m.type = "BREAK_NOT"
             \/ ok /\ m.type = "COMPLETE_NOT" /\ v \in DOMAIN info /\ m.info = info[v]
  <2>1. PICK reason \in Nat : \/ sent'[v] = <<>> \o bye(reason)[v]
                              \/ ok /\ sent'[v] = before[v] \o bye(reason)[v]
    BY <1>5
  <2> DEFINE b == bye(reason)[v]
  <2>2. b \in Seq(DownMessage) /\ \A k \in Range(b) : k.type = "BREAK_NOT"
    BY <1>6
  <2> HIDE DEF b
  <2>3. CASE sent'[v] = <<>> \o b
    <3>1. <<>> \o b = b
      BY <2>2
    <3> QED
      BY <1>8, <2>2, <2>3, <3>1
  <2>4. CASE ok /\ sent'[v] = before[v] \o b
    <3>1. Range(before[v] \o b) = Range(before[v]) \cup Range(b)
      BY <1>7, <2>2, AfterConcat
    <3> QED
      BY <1>7, <1>8, <2>2, <2>4, <3>1
  <2> QED
    BY <2>1, <2>3, <2>4 DEF b
<1>9. /\ ForServer(sent'[v]) \in Seq(DownMessage)
      /\ Range(ForServer(sent'[v])) \subseteq Range(sent'[v])
  BY PlainFromRoom DEF ForServer, Range
<1>10. \A m \in Range(ForServer(sent'[v])) : m.type # "CONFIRM_NOT"
  BY <1>8, <1>9
<1>11. None(ForServer(sent'[v]), "CONFIRM_NOT")
  BY <1>10 DEF None, Range
<1> QED
  BY <1>2, <1>4, <1>8, <1>9, <1>11

LEMMA AnswerOrder ==
  ASSUME SysTypes, AllAlive, InOrder, NEW n \in DOMAIN swaps, Answer(n)
  PROVE  InOrder'
<1> DEFINE info == swaps[n].info
           own == db.items
<1>0. /\ user' = user /\ up' = up /\ db' = db /\ trades' = trades
      /\ swaps[n].status \in {"done", "failed"}
      /\ swaps' = [swaps EXCEPT ![n].status = "answered"]
      /\ down' = [u \in Units |-> IF user[u].alive THEN down[u] \o ForServer(sent'[u])
                                  ELSE <<>>]
  BY DEF Answer, ghosts
<1>1. Unanswered(swaps[n])
  BY <1>0 DEF Unanswered
<1>2. /\ info \in DBInfos /\ fsm = "DB_UPDATE" /\ DOMAIN info = DOMAIN users
      /\ swaps[n].trade = trades
      /\ \A v \in DOMAIN users : Executing(fsm, users, v) /\ users[v].dbInfo # {}
      /\ \A k \in DOMAIN swaps : k # n => swaps[k].trade # trades /\ ~Unanswered(swaps[k])
  BY <1>1, TheRequest
<1>3. IndInv' /\ sent' \in Notices
  BY AnswerTypes, TypeOKNext DEF IndInv
<1>4. /\ DOMAIN swaps' = DOMAIN swaps /\ swaps'[n].status = "answered"
      /\ \A k \in DOMAIN swaps : k # n => swaps'[k].status = swaps[k].status
      /\ \A k \in DOMAIN swaps : swaps'[k].info = swaps[k].info
                                 /\ swaps'[k].trade = swaps[k].trade
  BY <1>0, SwapStatus DEF SysTypes
<1>5. fsm' = "CLOSE" /\ users' = users
  BY <1>2 DEF Answer, DBUpdateTradeResultAck, BreakTrade, StateTransition
<1>6. ASSUME NEW v \in Units
      PROVE  /\ InTurn("CLOSE", users, v, up[v], down'[v])
             /\ Holds("CLOSE", users, own, v, user[v].items, up[v], down'[v])
  <2> DEFINE r == ForServer(sent'[v])
             q == down[v]
  <2>1. /\ r \in Seq(DownMessage) /\ None(r, "CONFIRM_NOT")
        /\ \A m \in Range(r) : m.type = "COMPLETE_NOT" =>
              swaps[n].status = "done" /\ v \in DOMAIN info
              /\ m.info.in = info[Partner(info, v)].out
    BY <1>2, <1>3, AnswerBrings
  <2>2. q \in Seq(DownMessage)
    BY DEF SysTypes, GSTypes
  <2>3. down'[v] = q \o r
    BY <1>0 DEF AllAlive
  <2>4. /\ InTurn(fsm, users, v, up[v], q)
        /\ Holds(fsm, users, own, v, user[v].items, up[v], q)
    BY DEF InOrder, AllInTurn, AllHold
  <2>5. None(q, "CONFIRM_NOT") /\ None(up[v], "DB_RESULT")
    BY <1>2, <2>4 DEF InTurn, Executing
  <2>6. ASSUME NEW m \in Range(r), m.type = "COMPLETE_NOT", NEW i \in m.info.in
        PROVE  own[i] = v
    <3> DEFINE p == Partner(info, v)
    <3>1. /\ v \in DOMAIN info /\ i \in info[p].out
          /\ swaps[n].status = "done"
      BY <2>1, <2>6
    <3>2. p \in DOMAIN info /\ Partner(info, p) = v
      BY <1>2, <3>1, PairOf
    <3>3. HandedOver(own, swaps[n])
      BY DEF InOrder, SwapsInTurn
    <3> QED
      BY <3>1, <3>2, <3>3 DEF HandedOver
  <2> HIDE DEF r, q, own, info
  <2>7. /\ None(q \o r, "CONFIRM_NOT")
        /\ Range(q \o r) = Range(q) \cup Range(r)
    BY <2>1, <2>2, <2>5, AfterConcat
  <2>8. ~Executing("CLOSE", users, v)
    BY DEF Executing
  <2>9. Before(q \o r, "COMPLETE_NOT", "CONFIRM_NOT")
    BY <2>7 DEF Before, None
  <2>10. InTurn("CLOSE", users, v, up[v], q \o r)
    BY <2>5, <2>7, <2>8 DEF InTurn
  <2>11. Holds("CLOSE", users, own, v, user[v].items, up[v], q \o r)
    BY <2>4, <2>6, <2>7, <2>8, <2>9 DEF Holds
  <2> QED
    BY <2>3, <2>10, <2>11
<1>7. SwapsInTurn'
  <2>1. ASSUME NEW k \in DOMAIN swaps
        PROVE  AskedInTurn("CLOSE", users, trades, swaps'[k]) /\ HandedOver(own, swaps'[k])
    <3>1. AskedInTurn(fsm, users, trades, swaps[k]) /\ HandedOver(own, swaps[k])
      BY DEF InOrder, SwapsInTurn
    <3>2. ~Unanswered(swaps'[k])
      BY <1>2, <1>4 DEF Unanswered
    <3>3. AskedInTurn("CLOSE", users, trades, swaps'[k])
      BY <1>4, <3>1, <3>2 DEF AskedInTurn
    <3>4. HandedOver(own, swaps'[k])
      BY <1>4, <3>1, <3>2 DEF HandedOver, Unanswered
    <3> QED
      BY <3>3, <3>4
  <2>2. OneSwapPerTrade'
    BY <1>4 DEF InOrder, SwapsInTurn, OneSwapPerTrade
  <2> QED
    BY <1>0, <1>4, <1>5, <2>1, <2>2 DEF SwapsInTurn
<1> QED
  BY <1>0, <1>5, <1>6, <1>7 DEF InOrder, AllInTurn, AllHold

-----------------------------------------------------------------------------
(* A trade is in order in every state.                                     *)

\* The room takes a unit's next message.
LEMMA DeliverStep ==
  ASSUME SysTypes, SysTypes', DeathKnown, AllAlive, NEW u \in Units, Deliver(u)
  PROVE  LET m == Head(up[u])
         IN /\ up[u] \in Seq(UpMessage) /\ up[u] # <<>> /\ m \in UpMessage
            /\ m.type # "GS_DOWN" /\ ~None(up[u], m.type) /\ Handle(u, m)
            /\ up'[u] = Tail(up[u]) /\ \A v \in Units : v # u => up'[v] = up[v]
            /\ \E acks : RoomStep(acks)
<1> DEFINE m == Head(up[u])
           acks == IF m.type = "APPROVE" THEN To(u, [type |-> "APPROVE_ACK"]) ELSE Silence
<1>1. /\ up[u] \in Seq(UpMessage) /\ up[u] # <<>> /\ up \in [Units -> Seq(UpMessage)]
      /\ user' = user /\ db' = db /\ up' = [up EXCEPT ![u] = Tail(up[u])]
      /\ Handle(u, m) /\ Forward(acks)
      /\ trades' = IF fsm = "INIT" /\ fsm' = "WAIT" THEN trades + 1 ELSE trades
  BY DEF SysTypes, GSTypes, Deliver
<1>2. m \in UpMessage /\ ~None(up[u], m.type)
  <2> DEFINE s == up[u]
  <2>1. s \in Seq(UpMessage) /\ s # <<>> /\ m = Head(s)
    BY <1>1
  <2> HIDE DEF s, m
  <2>2. m \in UpMessage /\ m \in Range(s)
    BY <2>1, AfterHead
  <2>3. ~None(s, m.type)
    BY <2>2 DEF None, Range
  <2> QED
    BY <2>2, <2>3 DEF s
<1>3. m.type # "GS_DOWN"
  BY <1>2 DEF DeathKnown, AllAlive
<1>4. RoomStep(acks)
  <2>1. [type |-> "APPROVE_ACK"] \in DownMessage
    BY DEF DownMessage
  <2>2. <<[type |-> "APPROVE_ACK"]>> \in Seq(DownMessage) /\ <<>> \in Seq(DownMessage)
    BY <2>1
  <2>3. \A v \in Units : acks[v] = <<[type |-> "APPROVE_ACK"]>> \/ acks[v] = <<>>
    BY DEF To, Silence
  <2>4. acks \in [Units -> Seq(DownMessage)]
    BY <2>2 DEF To, Silence
  <2> HIDE DEF acks, m
  <2>5. \A v \in Units : \A n \in DOMAIN acks[v] : acks[v][n].type = "APPROVE_ACK"
    BY <2>3
  <2>6. sent' \in Notices
    BY TypeOKNext DEF SysTypes, IndInv
  <2>7. \A v \in Units : up'[v] = up[v] \/ (up[v] # <<>> /\ up'[v] = Tail(up[v]))
    BY <1>1
  <2> QED
    BY <1>1, <2>4, <2>5, <2>6, <2>7 DEF RoomStep
<1> HIDE DEF acks
<1> QED
  BY <1>1, <1>2, <1>3, <1>4

LEMMA DeliverOrder ==
  ASSUME Safe, SysTypes', AllAlive, NEW u \in Units, Deliver(u)
  PROVE  InOrder'
<1> DEFINE m == Head(up[u])
<1>1. SysTypes /\ InOrder /\ DeathKnown /\ IndInv
  BY DEF Safe, SysTypes
<1>2. /\ up[u] \in Seq(UpMessage) /\ up[u] # <<>> /\ m \in UpMessage
      /\ m.type # "GS_DOWN" /\ ~None(up[u], m.type) /\ Handle(u, m)
      /\ up'[u] = Tail(up[u]) /\ \E acks : RoomStep(acks)
  BY <1>1, DeliverStep
<1>3. PICK acks : RoomStep(acks)
  BY <1>2
<1>4. m = Head(up[u])
  OBVIOUS
<1> HIDE DEF m
<1>5. CASE Ignore \/ Uneventful
  BY <1>1, <1>3, <1>5, IgnoredOrder
<1>6. CASE Execution
  BY <1>1, <1>3, <1>6, ExecutionOrder
<1>7. CASE m.type = "DB_RESULT" /\ fsm = "DB_UPDATE" /\ (u \in Members => Report(u, m.info))
  <2>1. InTurn(fsm, users, u, up[u], down[u]) /\ ~None(up[u], "DB_RESULT")
    BY <1>1, <1>2, <1>7 DEF InOrder, AllInTurn
  <2>2. u \in Members
    BY <2>1 DEF InTurn, Executing, Members
  <2> QED
    BY <1>1, <1>2, <1>3, <1>4, <1>7, <2>2, ReportOrder
<1> QED
  BY <1>1, <1>2, <1>5, <1>6, <1>7, HandleKinds

LEMMA TickStep ==
  ASSUME SysTypes', RoomTick
  PROVE  RoomStep(Silence)
<1>1. Silence \in [Units -> Seq(DownMessage)]
  <2>1. <<>> \in Seq(DownMessage)
    OBVIOUS
  <2> QED
    BY <2>1 DEF Silence
<1>2. \A v \in Units : DOMAIN Silence[v] = {}
  BY DEF Silence
<1>3. sent' \in Notices
  BY TypeOKNext DEF SysTypes, IndInv
<1>4. ~(fsm = "INIT" /\ fsm' = "WAIT")
  BY DEF RoomTick, Tick, CloseRoom, GiveUpWaiting
<1> QED
  BY <1>1, <1>2, <1>3, <1>4 DEF RoomStep, RoomTick, ghosts

LEMMA TickOrder ==
  ASSUME Safe, SysTypes', AllAlive, RoomTick
  PROVE  InOrder'
<1>1. SysTypes /\ InOrder /\ IndInv
  BY DEF Safe, SysTypes
<1>2. Uneventful
  BY <1>1, TickKinds DEF RoomTick
<1> QED
  BY <1>1, <1>2, TickStep, IgnoredOrder

LEMMA SameOrder ==
  ASSUME InOrder, fsm' = fsm, users' = users, user' = user, up' = up, down' = down,
         swaps' = swaps, trades' = trades, db' = db
  PROVE  InOrder'
<1>1. SwapsInTurn'
  BY SameSwaps DEF InOrder
<1> QED
  BY <1>1 DEF InOrder, AllInTurn, AllHold

LEMMA SafeInit == SysInit => Safe
<1> SUFFICES ASSUME SysInit PROVE Safe
  OBVIOUS
<1>1. SysTypes
  BY SysInitTypes
<1>2. \A t, r : None(<<>>, t) /\ Before(<<>>, t, r)
  BY DEF None, Before
<1>3. fsm = "INIT" /\ swaps = <<>> /\ db.items = Owner
      /\ \A u \in Units : up[u] = <<>> /\ down[u] = <<>>
  BY DEF SysInit, Init
<1>4. \A u \in Units : user[u].items = {i \in Items : Owner[i] = u}
  BY DEF SysInit, GS!LoggedIn
<1>5. DeathKnown
  BY <1>2, <1>3 DEF DeathKnown
<1>6. ASSUME NEW u \in Units
      PROVE  /\ InTurn(fsm, users, u, up[u], down[u])
             /\ Holds(fsm, users, db.items, u, user[u].items, up[u], down[u])
  <2>1. ~Executing(fsm, users, u)
    BY <1>3 DEF Executing
  <2>2. Range(<<>>) = {}
    BY DEF Range
  <2>3. InTurn(fsm, users, u, <<>>, <<>>)
    BY <1>2, <2>1 DEF InTurn
  <2>4. Holds(fsm, users, db.items, u, user[u].items, <<>>, <<>>)
    BY <1>2, <1>3, <1>4, <2>1, <2>2 DEF Holds
  <2> QED
    BY <1>3, <2>3, <2>4
<1>7. SwapsInTurn
  BY <1>3 DEF SwapsInTurn, OneSwapPerTrade
<1> QED
  BY <1>1, <1>5, <1>6, <1>7 DEF Safe, InOrder, AllInTurn, AllHold

LEMMA SafeStep == Safe /\ [SysNext]_sysVars => Safe'
<1> SUFFICES ASSUME Safe, [SysNext]_sysVars PROVE Safe'
  OBVIOUS
<1>1. SysTypes /\ SysTypes' /\ DeathKnown /\ (AllAlive => InOrder)
  BY SysStepTypes DEF Safe
<1>2. ASSUME NEW u \in Units, GSAction(u) PROVE Safe'
  BY <1>1, <1>2, GSKeepsOrder DEF Safe
<1>3. ASSUME NEW u \in Units, Deliver(u) PROVE Safe'
  <2>1. user' = user /\ up' = [up EXCEPT ![u] = Tail(up[u])] /\ up[u] # <<>>
        /\ up \in [Units -> Seq(UpMessage)]
    BY <1>1, <1>3 DEF Deliver, SysTypes, GSTypes
  <2>2. DeathKnown'
    <3>1. None(up[u], "GS_DOWN") => None(Tail(up[u]), "GS_DOWN")
      BY <2>1, AfterHead
    <3> QED
      BY <1>1, <2>1, <3>1 DEF DeathKnown
  <2>3. AllAlive' => AllAlive
    BY <2>1 DEF AllAlive
  <2> QED
    BY <1>1, <1>3, <2>2, <2>3, DeliverOrder DEF Safe
<1>4. ASSUME user' = user, up' = up, AllAlive => InOrder' PROVE Safe'
  BY <1>1, <1>4 DEF Safe, DeathKnown, AllAlive
<1>5. ASSUME RoomTick PROVE Safe'
  BY <1>1, <1>4, <1>5, TickOrder DEF RoomTick
<1>6. ASSUME RoomTimeout PROVE Safe'
  BY <1>1, <1>4, <1>6, SameOrder DEF RoomTimeout, WaitTimeout, gsVars, ghosts
<1>7. ASSUME NEW n \in DOMAIN swaps, Swap(n) PROVE Safe'
  BY <1>1, <1>4, <1>7, SwapOrder DEF Swap, gsVars
<1>8. ASSUME NEW n \in DOMAIN swaps, Answer(n) PROVE Safe'
  BY <1>1, <1>4, <1>8, AnswerOrder DEF Answer
<1>9. ASSUME UNCHANGED sysVars PROVE Safe'
  BY <1>1, <1>4, <1>9, SameOrder DEF sysVars, vars, gsVars, ghosts
<1> QED
  BY <1>2, <1>3, <1>5, <1>6, <1>7, <1>8, <1>9 DEF SysNext, GSAction

\* The inductive invariant of the properties below: types, and as long as no
\* game server has died, every trade in order.
THEOREM TradesInOrder == SysSpec => []Safe
  BY SafeInit, SafeStep, PTL DEF SysSpec

\* Units, items, amounts and trades of any number: as long as no game server
\* has died, the DB is asked for at most one swap in each trade, however
\* often approvals and checks were repeated (Trade.cpp:676).
THEOREM OneSwapWhileAllLive == SysSpec => []((\A u \in Units : user[u].alive) => OneSwapPerTrade)
<1>1. Safe => ((\A u \in Units : user[u].alive) => OneSwapPerTrade)
  BY DEF Safe, AllAlive, InOrder, SwapsInTurn
<1> QED
  BY <1>1, TradesInOrder, PTL

\* As long as no game server has died, what the DB is asked to swap is what
\* lay on the table, although it is put together from what the two game
\* servers report they took out.
THEOREM SwapIsTheDealWhileAllLive ==
  SysSpec => []((\A u \in Units : user[u].alive) => SwapIsTheDeal)
<1>1. ASSUME Safe, AllAlive PROVE SwapIsTheDeal
  <2> SUFFICES ASSUME NEW n \in DOMAIN swaps, swaps[n].status = "asked",
                      NEW u \in Members
               PROVE  /\ swaps[n].info[u].out = users[u].items
                      /\ swaps[n].info[u].change = users[Other(u)].ed - users[u].ed
    BY DEF SwapIsTheDeal
  <2>1. Unanswered(swaps[n]) /\ AskedInTurn(fsm, users, trades, swaps[n])
    BY <1>1 DEF Unanswered, Safe, InOrder, SwapsInTurn
  <2>2. swaps[n].info = [v \in DOMAIN users |-> Due(users, v)] /\ u \in DOMAIN users
    BY <2>1 DEF AskedInTurn, Members
  <2>3. Peer(users, u) = Other(u)
    BY DEF Peer, Other, Members
  <2> QED
    BY <2>2, <2>3 DEF Due
<1>2. Safe => ((\A u \in Units : user[u].alive) => SwapIsTheDeal)
  BY <1>1 DEF AllAlive
<1> QED
  BY <1>2, TradesInOrder, PTL

\* As long as no game server has died, what a unit can use is its own in the
\* DB, and not on its way to another: no item is with two.
THEOREM OneHolderWhileAllLive == SysSpec => []((\A u \in Units : user[u].alive) => OneHolder)
<1>1. ASSUME Safe, AllAlive PROVE OneHolder
  <2> SUFFICES ASSUME NEW u \in Units, NEW i \in user[u].items
               PROVE  /\ db.items[i] = u
                      /\ \A n \in DOMAIN swaps :
                           swaps[n].status = "asked" /\ u \in DOMAIN swaps[n].info
                             => i \notin swaps[n].info[u].out
    BY DEF OneHolder
  <2>1. Holds(fsm, users, db.items, u, user[u].items, up[u], down[u])
    BY <1>1 DEF Safe, InOrder, AllHold
  <2>2. ASSUME NEW n \in DOMAIN swaps, swaps[n].status = "asked", u \in DOMAIN swaps[n].info
        PROVE  i \notin swaps[n].info[u].out
    <3>1. /\ u \in DOMAIN users /\ swaps[n].info[u].out = users[u].items
          /\ Executing(fsm, users, u) /\ users[u].dbInfo # {}
      BY <1>1, <2>2, TheRequest DEF Unanswered, Safe
    <3> QED
      BY <2>1, <3>1 DEF Holds
  <2> QED
    BY <2>1, <2>2 DEF Holds
<1>2. Safe => ((\A u \in Units : user[u].alive) => OneHolder)
  BY <1>1 DEF AllAlive
<1> QED
  BY <1>2, TradesInOrder, PTL

-----------------------------------------------------------------------------
(* What is still to come when nothing has gone wrong that the code has no  *)
(* remedy for: everything a unit is owed is on its way.  As above f and us *)
(* stand for the room, s and q for a unit's channels; sw stands for the    *)
(* swap requests, x for what the game server knows of the unit.            *)

\* The unit is one of the traders of a trade that is on.
Belongs(f, us, u) == f \in {"WAIT", "CONFIRM", "DB_UPDATE"} /\ u \in DOMAIN us

\* Its goods are out of its inventory, and the room has been told or will be.
Taken(f, us, u, s) == Executing(f, us, u) /\ (us[u].dbInfo # {} \/ ~None(s, "DB_RESULT"))

\* The DB has swapped the goods and its answer is not there yet.
Moved(sw) == \E n \in DOMAIN sw : sw[n].status = "done"

\* An item the client has put up is in the inventory, unless it has been
\* taken out of it since, which the room hears before it can matter.
PutUp(s, items) ==
  \A n \in DOMAIN s : s[n].type = "UPDATE_ITEM" /\ ~s[n].delete =>
     s[n].item \in items \/ \E k \in DOMAIN s : n < k /\ s[k].type = "DB_RESULT"

\* The unit is told it has got the item, or will be.
Coming(u, i, q, sw) ==
  \/ \E m \in Range(q) : m.type = "COMPLETE_NOT" /\ i \in m.info.in
  \/ \E n \in DOMAIN sw : /\ sw[n].status = "done" /\ u \in DOMAIN sw[n].info
                          /\ i \in sw[n].info[Partner(sw[n].info, u)].out

\* A trader has what it has put up until it is taken out, and it stays the
\* trader's in the DB until the DB has swapped it; whatever is the unit's in
\* the DB is in its inventory, has been taken out for the trade, or comes.
Stocked(f, us, own, u, items, s, q, sw) ==
  /\ PutUp(s, items)
  /\ Belongs(f, us, u) /\ ~Taken(f, us, u, s) => us[u].items \subseteq items
  /\ Executing(f, us, u) /\ ~Moved(sw) => \A i \in us[u].items : own[i] = u
  /\ \A i \in Items : own[i] = u =>
       \/ i \in items
       \/ Taken(f, us, u, s) /\ i \in us[u].items
       \/ Coming(u, i, q, sw)

\* The ED the game server takes to be in the DB is there, but for a write that
\* is on its way and for the change of a trade the DB has not swapped yet.
Unwritten(x) == IF x.writes = {} THEN 0 ELSE CHOOSE c \in x.writes : TRUE
Owed(f, us, u, s, sw) == IF Taken(f, us, u, s) /\ ~Moved(sw) THEN Due(us, u).change ELSE 0
OneWrite(x) == \A c, d \in x.writes : c = d
Counted(f, us, ed, u, x, s, sw) == x.init = ed + Unwritten(x) + Owed(f, us, u, s, sw)

\* The inventory is locked while its goods are out, until the unit is told.
LockedFor(f, us, u, x, s, q) == x.locked => Taken(f, us, u, s) \/ ~None(q, "COMPLETE_NOT")

EntryAcks == {"OPEN_ACK", "JOIN_ACK"}
Breaks == {"BREAK_ACK", "BREAK_NOT"}
Has(q, types) == \E n \in DOMAIN q : q[n].type \in types

\* The last the unit hears of its trade is that it has entered it.
Enters(q) == \E n \in DOMAIN q : /\ q[n].type \in EntryAcks
                                 /\ \A k \in DOMAIN q : n < k => q[k].type \notin Breaks

\* A unit that takes part in a trade, or will when it has heard all, belongs
\* to it, and if it has left its trade it has not entered another before.
LeavesTrade(m) == m.type = "BREAK" /\ m.reason = Logout
Placed(f, us, u, x, s, q) ==
  /\ Enters(q) \/ (x.trading /\ ~Has(q, Breaks)) => Belongs(f, us, u)
  /\ \A n \in DOMAIN s : LeavesTrade(s[n]) =>
       /\ ~x.trading /\ ~Has(q, EntryAcks)
       /\ \A k \in DOMAIN s : k < n => s[k].type \notin {"OPEN", "JOIN"}

AllStocked == \A u \in Units :
  Stocked(fsm, users, db.items, u, user[u].items, up[u], down[u], swaps)
AllCounted == \A u \in Units :
  /\ OneWrite(user[u])
  /\ u \notin drifted => Counted(fsm, users, db.ed[u], u, user[u], up[u], swaps)
AllLocked == \A u \in Units : LockedFor(fsm, users, u, user[u], up[u], down[u])
AllPlaced == \A u \in Units :
  u \notin astray => Placed(fsm, users, u, user[u], up[u], down[u])
NoneFailed == \A n \in DOMAIN swaps : swaps[n].status # "failed"

Settling == AllAlive /\ AllStocked /\ AllCounted /\ AllLocked /\ AllPlaced /\ NoneFailed

Settled == Safe /\ (~upset => Settling)

-----------------------------------------------------------------------------
(* The channels again.                                                     *)

LEMMA HasAfterHead ==
  ASSUME NEW S, NEW s \in Seq(S), s # <<>>
  PROVE  /\ \A types : Has(s, types) <=> Head(s).type \in types \/ Has(Tail(s), types)
         /\ Enters(s) <=> Enters(Tail(s)) \/ (Head(s).type \in EntryAcks /\ ~Has(Tail(s), Breaks))
<1> DEFINE q == Tail(s)
<1>0. /\ DOMAIN s = 1..Len(s) /\ DOMAIN q = 1..Len(s)-1
      /\ Len(s) \in Nat /\ 1 \in DOMAIN s /\ Head(s) = s[1]
      /\ \A n \in DOMAIN q : n + 1 \in DOMAIN s /\ q[n] = s[n+1]
      /\ \A n \in DOMAIN s : n # 1 => n - 1 \in DOMAIN q /\ s[n] = q[n - 1]
  BY ONLY TailElement, s \in Seq(S), s # <<>>
<1> HIDE DEF q
<1>1. ASSUME NEW types PROVE Has(s, types) <=> Head(s).type \in types \/ Has(q, types)
  BY <1>0 DEF Has
<1>2. ASSUME Enters(s)
      PROVE  Enters(q) \/ (Head(s).type \in EntryAcks /\ ~Has(q, Breaks))
  <2>1. PICK n \in DOMAIN s : /\ s[n].type \in EntryAcks
                              /\ \A k \in DOMAIN s : n < k => s[k].type \notin Breaks
    BY <1>2 DEF Enters
  <2>2. CASE n = 1
    <3>1. ASSUME NEW k \in DOMAIN q PROVE q[k].type \notin Breaks
      <4>1. k + 1 \in DOMAIN s /\ q[k] = s[k + 1] /\ 1 < k + 1
        BY <1>0
      <4> QED
        BY <2>1, <2>2, <4>1
    <3> QED
      BY <1>0, <2>1, <2>2, <3>1 DEF Has
  <2>3. CASE n # 1
    <3>1. n - 1 \in DOMAIN q /\ q[n - 1].type \in EntryAcks
      BY <1>0, <2>1, <2>3
    <3>2. ASSUME NEW k \in DOMAIN q, n - 1 < k PROVE q[k].type \notin Breaks
      <4>1. k + 1 \in DOMAIN s /\ q[k] = s[k + 1] /\ n < k + 1
        BY <1>0, <3>2
      <4> QED
        BY <2>1, <4>1
    <3> QED
      BY <3>1, <3>2 DEF Enters
  <2> QED
    BY <2>2, <2>3
<1>3. ASSUME Enters(q) PROVE Enters(s)
  <2>1. PICK n \in DOMAIN q : /\ q[n].type \in EntryAcks
                              /\ \A k \in DOMAIN q : n < k => q[k].type \notin Breaks
    BY <1>3 DEF Enters
  <2>2. n + 1 \in DOMAIN s /\ s[n + 1].type \in EntryAcks
    BY <1>0, <2>1
  <2>3. ASSUME NEW k \in DOMAIN s, n + 1 < k PROVE s[k].type \notin Breaks
    <3>1. k - 1 \in DOMAIN q /\ s[k] = q[k - 1] /\ n < k - 1
      BY <1>0, <2>3
    <3> QED
      BY <2>1, <3>1
  <2> QED
    BY <2>2, <2>3 DEF Enters
<1>4. ASSUME Head(s).type \in EntryAcks, ~Has(q, Breaks) PROVE Enters(s)
  <2>1. ASSUME NEW k \in DOMAIN s, 1 < k PROVE s[k].type \notin Breaks
    BY <1>0, <1>4, <2>1 DEF Has
  <2> QED
    BY <1>0, <1>4, <2>1 DEF Enters
<1> QED
  BY <1>1, <1>2, <1>3, <1>4 DEF q

LEMMA HasAfterConcat ==
  ASSUME NEW S, NEW s \in Seq(S), NEW q \in Seq(S)
  PROVE  /\ \A types : Has(s \o q, types) <=> Has(s, types) \/ Has(q, types)
         /\ Enters(s \o q) => Enters(q) \/ (Enters(s) /\ ~Has(q, Breaks))
<1> DEFINE p == s \o q
<1>0. /\ Len(s) \in Nat /\ Len(q) \in Nat
      /\ DOMAIN s = 1..Len(s) /\ DOMAIN q = 1..Len(q)
      /\ DOMAIN p = 1..Len(s) + Len(q)
      /\ \A n \in DOMAIN s : p[n] = s[n]
      /\ \A n \in DOMAIN q : p[n + Len(s)] = q[n]
  BY ConcatProperties
<1>1. \A n \in DOMAIN p : \/ n \in DOMAIN s /\ p[n] = s[n]
                          \/ n - Len(s) \in DOMAIN q /\ p[n] = q[n - Len(s)]
  BY ConcatElement
<1> HIDE DEF p
<1>2. \A n \in DOMAIN s : n \in DOMAIN p
  BY <1>0
<1>3. \A n \in DOMAIN q : n + Len(s) \in DOMAIN p
  BY <1>0
<1>4. ASSUME NEW types PROVE Has(p, types) <=> Has(s, types) \/ Has(q, types)
  <2>1. Has(p, types) => Has(s, types) \/ Has(q, types)
    BY <1>1 DEF Has
  <2>2. Has(s, types) => Has(p, types)
    BY <1>0, <1>2 DEF Has
  <2>3. Has(q, types) => Has(p, types)
    BY <1>0, <1>3 DEF Has
  <2> QED
    BY <2>1, <2>2, <2>3
<1>5. ASSUME Enters(p) PROVE Enters(q) \/ (Enters(s) /\ ~Has(q, Breaks))
  <2>1. PICK n \in DOMAIN p : /\ p[n].type \in EntryAcks
                              /\ \A k \in DOMAIN p : n < k => p[k].type \notin Breaks
    BY <1>5 DEF Enters
  <2>2. CASE n \in DOMAIN s /\ p[n] = s[n]
    <3>1. ASSUME NEW k \in DOMAIN s, n < k PROVE s[k].type \notin Breaks
      BY <1>0, <1>2, <2>1, <3>1
    <3>2. ASSUME NEW k \in DOMAIN q PROVE q[k].type \notin Breaks
      <4>1. n < k + Len(s)
        BY <1>0, <2>2
      <4> QED
        BY <1>0, <1>3, <2>1, <4>1
    <3> QED
      BY <2>1, <2>2, <3>1, <3>2 DEF Enters, Has
  <2>3. CASE n - Len(s) \in DOMAIN q /\ p[n] = q[n - Len(s)]
    <3>1. ASSUME NEW k \in DOMAIN q, n - Len(s) < k PROVE q[k].type \notin Breaks
      <4>1. n < k + Len(s)
        BY <1>0, <3>1
      <4> QED
        BY <1>0, <1>3, <2>1, <4>1
    <3> QED
      BY <2>1, <2>3, <3>1 DEF Enters
  <2> QED
    BY <1>1, <2>2, <2>3
<1> QED
  BY <1>4, <1>5 DEF p

LEMMA PutUpAfterHead ==
  ASSUME NEW S, NEW s \in Seq(S), s # <<>>, NEW items, PutUp(s, items)
  PROVE  PutUp(Tail(s), items)
<1> DEFINE q == Tail(s)
<1>0. /\ DOMAIN s = 1..Len(s) /\ DOMAIN q = 1..Len(s)-1 /\ Len(s) \in Nat
      /\ \A n \in DOMAIN q : n + 1 \in DOMAIN s /\ q[n] = s[n+1]
      /\ \A n \in DOMAIN s : n # 1 => n - 1 \in DOMAIN q /\ s[n] = q[n - 1]
  BY ONLY TailElement, s \in Seq(S), s # <<>>
<1> HIDE DEF q
<1> SUFFICES ASSUME NEW n \in DOMAIN q, q[n].type = "UPDATE_ITEM", ~q[n].delete,
                    q[n].item \notin items
             PROVE  \E k \in DOMAIN q : n < k /\ q[k].type = "DB_RESULT"
  BY DEF PutUp, q
<1>1. n + 1 \in DOMAIN s /\ q[n] = s[n + 1]
  BY <1>0
<1>2. PICK k \in DOMAIN s : n + 1 < k /\ s[k].type = "DB_RESULT"
  BY <1>1 DEF PutUp
<1>3. k - 1 \in DOMAIN q /\ s[k] = q[k - 1] /\ n < k - 1
  BY <1>0, <1>2
<1> QED
  BY <1>2, <1>3

LEMMA PutUpAfterAppend ==
  ASSUME NEW S, NEW s \in Seq(S), NEW m, NEW items, NEW items2, PutUp(s, items),
         \/ /\ items \subseteq items2
            /\ m.type = "UPDATE_ITEM" /\ ~m.delete => m.item \in items2
         \/ m.type = "DB_RESULT"
  PROVE  PutUp(Append(s, m), items2)
<1> DEFINE q == Append(s, m)
<1>0. /\ DOMAIN s = 1..Len(s) /\ Len(s) \in Nat /\ DOMAIN q = 1..Len(s) + 1
      /\ q[Len(s) + 1] = m /\ \A n \in DOMAIN s : q[n] = s[n]
  OBVIOUS
<1> HIDE DEF q
<1>1. \A n \in DOMAIN q : n \in DOMAIN s \/ n = Len(s) + 1
  BY <1>0
<1>2. \A n \in DOMAIN s : n \in DOMAIN q /\ n < Len(s) + 1
  BY <1>0
<1>3. Len(s) + 1 \in DOMAIN q
  BY <1>0
<1> SUFFICES ASSUME NEW n \in DOMAIN q, q[n].type = "UPDATE_ITEM", ~q[n].delete,
                    q[n].item \notin items2
             PROVE  \E k \in DOMAIN q : n < k /\ q[k].type = "DB_RESULT"
  BY DEF PutUp, q
<1>4. CASE m.type = "DB_RESULT"
  <2>1. n \in DOMAIN s
    BY <1>0, <1>1, <1>4
  <2> QED
    BY <1>0, <1>2, <1>3, <1>4, <2>1
<1>5. CASE items \subseteq items2 /\ (m.type = "UPDATE_ITEM" /\ ~m.delete => m.item \in items2)
  <2>1. n \in DOMAIN s /\ s[n].item \notin items
    BY <1>0, <1>1, <1>5
  <2>2. PICK k \in DOMAIN s : n < k /\ s[k].type = "DB_RESULT"
    BY <1>0, <2>1 DEF PutUp
  <2> QED
    BY <1>0, <1>2, <2>2
<1> QED
  BY <1>4, <1>5

-----------------------------------------------------------------------------
(* The game servers' steps, by what they do to what a trade is owed.       *)

\* What a unit hears and says of where it is: it takes part in a trade from
\* the ack of its entry until it is told it is over, and if it leaves it says
\* so.
Wanders(u) ==
  /\ \/ up'[u] = up[u]
     \/ \E m : /\ up'[u] = Append(up[u], m)
               /\ LeavesTrade(m) => /\ ~user'[u].trading /\ down'[u] = down[u]
                                    /\ u \notin astray' => ~Entering(u)
  /\ \/ down'[u] = down[u] /\ (user'[u].trading => user[u].trading)
     \/ /\ down[u] # <<>> /\ down'[u] = Tail(down[u])
        /\ Head(down[u]).type \in EntryAcks \/ (user'[u].trading => user[u].trading)
        /\ Head(down[u]).type \in Breaks => ~user'[u].trading
  /\ astray \subseteq astray'

\* A step that has no part in the execution of a trade: the inventory stays,
\* and the ED written is what it is in the DB.
Usual(u) ==
  /\ user'[u].items = user[u].items
  /\ user'[u].locked => user[u].locked
  /\ \/ up'[u] = up[u]
     \/ \E m : /\ up'[u] = Append(up[u], m) /\ m.type # "DB_RESULT"
               /\ m.type = "UPDATE_ITEM" /\ ~m.delete => m.item \in user[u].items
  /\ \/ down'[u] = down[u]
     \/ down[u] # <<>> /\ down'[u] = Tail(down[u]) /\ Head(down[u]).type \notin Final
  /\ OneWrite(user[u]) =>
       /\ OneWrite(user'[u])
       /\ user'[u].init - db'.ed[u] - Unwritten(user'[u])
            = user[u].init - db.ed[u] - Unwritten(user[u])
  /\ drifted \subseteq drifted'

LEMMA Said ==
  ASSUME GSTypes, NEW u \in Units, NEW m, GS!ToRoom(u, m)
  PROVE  up'[u] = up[u] \/ up'[u] = Append(up[u], m)
  BY DEF GS!ToRoom, GSTypes

LEMMA AskMoves ==
  ASSUME GSTypes, NEW u \in Units, Ask(u)
  PROVE  Wanders(u) /\ Usual(u)
<1>0. user' = user /\ down' = down /\ db' = db /\ astray' = astray /\ drifted' = drifted
  BY DEF Ask, GS!OpenTrade, GS!BreakTrade, GS!UpdateTradeItem, GS!UpdateTradeED,
         GS!OfferTrade, GS!Relay
<1>1. ASSUME NEW m, up'[u] = up[u] \/ up'[u] = Append(up[u], m), ~LeavesTrade(m),
             m.type # "DB_RESULT",
             m.type = "UPDATE_ITEM" /\ ~m.delete => m.item \in user[u].items
      PROVE  Wanders(u) /\ Usual(u)
  BY <1>0, <1>1 DEF Wanders, Usual
<1>2. ASSUME NEW peer \in Units, GS!OpenTrade(u, peer) PROVE Wanders(u) /\ Usual(u)
  <2> DEFINE m == [type |-> "OPEN", wallet |-> user[u].ed, peer |-> peer]
  <2>1. m.type = "OPEN" /\ up' = [up EXCEPT ![u] = Append(up[u], m)]
    BY <1>2 DEF GS!OpenTrade
  <2> HIDE DEF m
  <2>2. up'[u] = Append(up[u], m)
    BY <2>1 DEF GSTypes
  <2> QED
    BY <1>1, <2>1, <2>2 DEF LeavesTrade
<1>3. ASSUME NEW reason \in Reasons \ {Logout}, GS!BreakTrade(u, reason)
      PROVE  Wanders(u) /\ Usual(u)
  <2> DEFINE m == [type |-> "BREAK", reason |-> reason]
  <2>1. m.type = "BREAK" /\ m.reason # Logout /\ GS!ToRoom(u, m)
    BY <1>3 DEF GS!BreakTrade
  <2> HIDE DEF m
  <2> QED
    BY <1>1, <2>1, Said DEF LeavesTrade
<1>4. ASSUME NEW item \in Items, NEW delete \in Deletes, GS!UpdateTradeItem(u, item, delete)
      PROVE  Wanders(u) /\ Usual(u)
  <2> DEFINE m == [type |-> "UPDATE_ITEM", item |-> item, delete |-> delete]
  <2>1. m.type = "UPDATE_ITEM" /\ (~m.delete => m.item \in user[u].items) /\ GS!ToRoom(u, m)
    BY <1>4 DEF GS!UpdateTradeItem, GS!Relay
  <2> HIDE DEF m
  <2> QED
    BY <1>1, <2>1, Said DEF LeavesTrade
<1>5. ASSUME NEW ed \in Bids, GS!UpdateTradeED(u, ed) PROVE Wanders(u) /\ Usual(u)
  <2> DEFINE m == [type |-> "UPDATE_ED", ed |-> ed]
  <2>1. m.type = "UPDATE_ED" /\ GS!ToRoom(u, m)
    BY <1>5 DEF GS!UpdateTradeED, GS!Relay
  <2> HIDE DEF m
  <2> QED
    BY <1>1, <2>1, Said DEF LeavesTrade
<1>6. ASSUME GS!OfferTrade(u) PROVE Wanders(u) /\ Usual(u)
  <2> DEFINE m == GS!Plain("OFFER")
  <2>1. m.type = "OFFER" /\ GS!ToRoom(u, m)
    BY <1>6 DEF GS!OfferTrade, GS!Relay, GS!Plain
  <2> HIDE DEF m
  <2> QED
    BY <1>1, <2>1, Said DEF LeavesTrade
<1> QED
  BY <1>2, <1>3, <1>4, <1>5, <1>6 DEF Ask

LEMMA ApproveMoves ==
  ASSUME SysTypes, NEW u \in Units, Approve(u)
  PROVE  Wanders(u) /\ Usual(u)
<1>0. user[u] \in GS!User /\ user \in [Units -> GS!User] /\ OneApproval(user[u], up[u], down[u])
  BY DEF SysTypes, GSTypes
<1>1. /\ up' = up /\ down' = down /\ db' = db /\ astray' = astray /\ drifted' = drifted
      /\ ~user[u].filter /\ user[u].alive
  BY DEF Approve, GS!ApproveTrade, GS!Client
<1>2. /\ user'[u].items = user[u].items /\ user'[u].trading = user[u].trading
      /\ user'[u].locked = user[u].locked
      /\ user'[u].writes = {user[u].ed - user[u].init} /\ user'[u].init = user[u].ed
  BY <1>0 DEF Approve, GS!ApproveTrade, GS!User
<1>3. user[u].writes = {}
  BY <1>0, <1>1 DEF OneApproval
<1>4. Unwritten(user[u]) = 0 /\ Unwritten(user'[u]) = user[u].ed - user[u].init
      /\ OneWrite(user'[u])
  BY <1>2, <1>3 DEF Unwritten, OneWrite
<1>5. user[u].init \in Int /\ user[u].ed \in Int /\ db.ed[u] \in Int
  BY <1>0 DEF GS!User, SysTypes, DBTypes
<1>6. user'[u].init - db'.ed[u] - Unwritten(user'[u])
            = user[u].init - db.ed[u] - Unwritten(user[u])
  BY <1>1, <1>2, <1>4, <1>5
<1> QED
  BY <1>1, <1>2, <1>4, <1>6 DEF Wanders, Usual

LEMMA WrittenMoves ==
  ASSUME SysTypes, NEW u \in Units, Written(u)
  PROVE  Wanders(u) /\ Usual(u)
<1>0. user[u] \in GS!User /\ user \in [Units -> GS!User] /\ GSTypes
      /\ user[u].writes \subseteq Int /\ user[u].init \in Int /\ db.ed[u] \in Int
      /\ db.ed \in [Units -> Int]
  BY DEF SysTypes, GSTypes, DBTypes, GS!User
<1>1. PICK change \in user[u].writes, ok \in BOOLEAN :
        /\ GS!UnitInfoWritten(u, change, ok)
        /\ IF ok THEN db' = [db EXCEPT !.ed[u] = @ + change] ELSE db' = db
  BY DEF Written
<1> DEFINE m == GS!Plain("APPROVE")
<1>2. /\ down' = down /\ astray' = astray /\ drifted' = drifted
      /\ m.type = "APPROVE" /\ GS!ToRoom(u, m)
  BY <1>1 DEF Written, GS!UnitInfoWritten, GS!Plain
<1> HIDE DEF m
<1>3. /\ user'[u].items = user[u].items /\ user'[u].trading = user[u].trading
      /\ user'[u].locked = user[u].locked /\ user'[u].writes = {}
      /\ user'[u].init = IF ok THEN user[u].init ELSE user[u].init - change
  BY <1>0, <1>1 DEF GS!UnitInfoWritten, GS!User
<1>4. db'.ed[u] = IF ok THEN db.ed[u] + change ELSE db.ed[u]
  BY <1>0, <1>1 DEF SysTypes, DBTypes
<1>5. change \in Int /\ Unwritten(user'[u]) = 0 /\ OneWrite(user'[u])
  BY <1>0, <1>3 DEF Unwritten, OneWrite
<1>6. ASSUME OneWrite(user[u])
      PROVE  user'[u].init - db'.ed[u] - Unwritten(user'[u])
               = user[u].init - db.ed[u] - Unwritten(user[u])
  <2>1. Unwritten(user[u]) = change
    BY <1>6 DEF OneWrite, Unwritten
  <2> QED
    BY <1>0, <1>3, <1>4, <1>5, <2>1
<1>7. up'[u] = up[u] \/ up'[u] = Append(up[u], m)
  BY <1>0, <1>2, Said
<1>8. Wanders(u)
  BY <1>2, <1>3, <1>7 DEF Wanders, LeavesTrade
<1>9. Usual(u)
  BY <1>2, <1>3, <1>5, <1>6, <1>7 DEF Usual
<1> QED
  BY <1>8, <1>9

LEMMA OwnMoves ==
  ASSUME SysTypes, NEW u \in Units, Repair(u) \/ ComeAndGo(u)
  PROVE  Wanders(u) /\ Usual(u)
<1>0. /\ user[u] \in GS!User /\ user \in [Units -> GS!User] /\ GSTypes
      /\ db' = db /\ drifted' = drifted
  BY DEF SysTypes, GSTypes, Repair, ComeAndGo
<1>1. CASE Repair(u) \/ GS!Return(u) \/ GS!LockTimeout(u)
  <2>1. up' = up /\ down' = down
    BY <1>1 DEF Repair, GS!RepairItem, GS!Return, GS!LockTimeout
  <2>2. /\ user'[u].items = user[u].items /\ user'[u].trading = user[u].trading
        /\ user'[u].locked => user[u].locked
        /\ user'[u].writes = user[u].writes /\ user'[u].init = user[u].init
    <3>1. CASE Repair(u)
      BY <1>0, <3>1 DEF Repair, GS!RepairItem, GS!User
    <3>2. CASE GS!Return(u)
      BY <1>0, <3>2 DEF GS!Return, GS!User
    <3>3. CASE GS!LockTimeout(u)
      BY <1>0, <3>3 DEF GS!LockTimeout, GS!User
    <3> QED
      BY <1>1, <3>1, <3>2, <3>3
  <2>3. astray \subseteq astray'
    BY DEF Repair, ComeAndGo
  <2> QED
    BY <1>0, <2>1, <2>2, <2>3 DEF Wanders, Usual, Unwritten, OneWrite
<1>2. CASE ~(Repair(u) \/ GS!Return(u) \/ GS!LockTimeout(u))
  <2>1. PICK here \in BOOLEAN : GS!Leave(u, here)
    BY <1>2 DEF ComeAndGo
  <2>2. ~Repair(u) /\ astray' = IF user[u].trading /\ Entering(u) THEN astray \cup {u} ELSE astray
    BY <1>2 DEF ComeAndGo
  <2> DEFINE m == [type |-> "BREAK", reason |-> 1]
  <2>3. m.type = "BREAK" /\ down' = down
        /\ up' = [up EXCEPT ![u] = IF user[u].trading THEN Append(@, m) ELSE @]
    BY <2>1 DEF GS!Leave, GS!ToRoom
  <2> HIDE DEF m
  <2>4. /\ user'[u].items = user[u].items /\ ~user'[u].trading
        /\ user'[u].locked = user[u].locked
        /\ user'[u].writes = user[u].writes /\ user'[u].init = user[u].init
    BY <1>0, <2>1 DEF GS!Leave, GS!User
  <2>5. up'[u] = up[u] \/ (user[u].trading /\ up'[u] = Append(up[u], m))
    BY <1>0, <2>3 DEF GSTypes
  <2>6. user[u].trading /\ u \notin astray' => ~Entering(u)
    BY <2>2
  <2>7. Wanders(u)
    BY <2>2, <2>3, <2>4, <2>5, <2>6 DEF Wanders
  <2>8. Usual(u)
    BY <1>0, <2>3, <2>4, <2>5 DEF Usual, Unwritten, OneWrite
  <2> QED
    BY <2>7, <2>8
<1> QED
  BY <1>1, <1>2

\* A trader carries its part out and reports it.
Deducts(u) ==
  LET m == Head(down[u])
      x == user[u]
      y == user'[u]
  IN /\ down[u] # <<>> /\ m.type = "CONFIRM_NOT" /\ down'[u] = Tail(down[u])
     /\ up'[u] = Append(up[u], [type |-> "DB_RESULT", info |-> GS!Report(m)])
     /\ y.items = x.items \ m.out.items /\ y.writes = x.writes /\ y.trading = x.trading
     /\ y.init = x.ed + m.in.ed - m.out.ed
     /\ u \notin drifted' => u \notin drifted /\ x.ed = x.init
     /\ db' = db /\ astray' = astray

\* It puts in what it got.
PutsIn(u) ==
  LET m == Head(down[u])
      x == user[u]
      y == user'[u]
  IN /\ down[u] # <<>> /\ m.type = "COMPLETE_NOT" /\ down'[u] = Tail(down[u])
     /\ up'[u] = up[u]
     /\ y.items = x.items \cup m.info.in /\ y.writes = x.writes /\ y.trading = x.trading
     /\ y.init = x.init /\ ~y.locked
     /\ db' = db /\ astray' = astray /\ drifted \subseteq drifted'

LEMMA ReceiveMoves ==
  ASSUME SysTypes, NEW u \in Units, Receive(u), ~upset'
  PROVE  Wanders(u) /\ (Usual(u) \/ Deducts(u) \/ PutsIn(u))
<1> DEFINE m == Head(down[u])
<1>0. /\ user[u] \in GS!User /\ user \in [Units -> GS!User] /\ GSTypes
      /\ db' = db /\ astray' = astray /\ drifted \subseteq drifted' /\ ~Missed(u) /\ GS!Receive(u)
  BY DEF SysTypes, GSTypes, Receive
<1>1. GS!Take(u) /\ GS!Next(u) = m
  BY <1>0 DEF GS!Receive, GS!EnterTrade, GS!AcceptJoin, GS!TradeBroken, GS!ApproveAck,
         GS!NotHere, GS!ConfirmNot, GS!CompleteNot, GS!ConfirmReq, GS!Next
<1>2. down[u] # <<>> /\ down'[u] = Tail(down[u]) /\ m \in DownMessage
  BY <1>0, <1>1, Takes DEF GS!Take, At
<1> HIDE DEF m
\* A packet that changes at most whether it is in a trade or waits for an ack.
<1>3. ASSUME user'[u].items = user[u].items, user'[u].locked = user[u].locked,
             user'[u].writes = user[u].writes, user'[u].init = user[u].init,
             m.type \in EntryAcks \/ (user'[u].trading => user[u].trading),
             m.type \in Breaks => ~user'[u].trading, m.type \notin Final,
             NEW k, up'[u] = up[u] \/ up'[u] = Append(up[u], k),
             k.type \in {"JOIN", "CONFIRM_ACK"}
      PROVE  Wanders(u) /\ Usual(u)
  <2>1. Wanders(u)
    BY <1>0, <1>2, <1>3 DEF Wanders, LeavesTrade, m
  <2>2. Usual(u)
    BY <1>0, <1>2, <1>3 DEF Usual, Unwritten, OneWrite, m
  <2> QED
    BY <2>1, <2>2
<1>4. ASSUME up' = up,
             user'[u].items = user[u].items, user'[u].locked = user[u].locked,
             user'[u].writes = user[u].writes, user'[u].init = user[u].init,
             m.type \in EntryAcks \/ (user'[u].trading => user[u].trading),
             m.type \in Breaks => ~user'[u].trading, m.type \notin Final
      PROVE  Wanders(u) /\ Usual(u)
  <2>1. [type |-> "JOIN"].type \in {"JOIN", "CONFIRM_ACK"}
    OBVIOUS
  <2> QED
    BY <1>3, <1>4, <2>1
<1>5. ASSUME GS!EnterTrade(u) PROVE Wanders(u) /\ Usual(u)
  <2>1. m.type \in {"OPEN_ACK", "JOIN_ACK"} /\ up' = up
        /\ user' = [user EXCEPT ![u].trading = user[u].trading \/ user[u].here]
    BY <1>1, <1>5 DEF GS!EnterTrade
  <2>2. /\ user'[u].items = user[u].items /\ user'[u].locked = user[u].locked
        /\ user'[u].writes = user[u].writes /\ user'[u].init = user[u].init
    BY <1>0, <2>1 DEF GS!User
  <2> QED
    BY <1>4, <2>1, <2>2 DEF EntryAcks, Breaks, Final
<1>6. ASSUME GS!TradeBroken(u) PROVE Wanders(u) /\ Usual(u)
  <2>1. m.type \in {"BREAK_ACK", "BREAK_NOT"} /\ up' = up
        /\ user' = [user EXCEPT ![u].trading = FALSE]
    BY <1>1, <1>6 DEF GS!TradeBroken
  <2>2. /\ user'[u].items = user[u].items /\ user'[u].locked = user[u].locked
        /\ user'[u].writes = user[u].writes /\ user'[u].init = user[u].init
        /\ ~user'[u].trading
    BY <1>0, <2>1 DEF GS!User
  <2> QED
    BY <1>4, <2>1, <2>2 DEF EntryAcks, Breaks, Final
<1>7. ASSUME GS!ApproveAck(u) PROVE Wanders(u) /\ Usual(u)
  <2>1. m.type = "APPROVE_ACK" /\ up' = up /\ user' = [user EXCEPT ![u].filter = FALSE]
    BY <1>1, <1>7 DEF GS!ApproveAck
  <2>2. /\ user'[u].items = user[u].items /\ user'[u].locked = user[u].locked
        /\ user'[u].writes = user[u].writes /\ user'[u].init = user[u].init
        /\ user'[u].trading = user[u].trading
    BY <1>0, <2>1 DEF GS!User
  <2> QED
    BY <1>4, <2>1, <2>2 DEF EntryAcks, Breaks, Final
<1>8. ASSUME GS!NotHere(u) PROVE Wanders(u) /\ Usual(u)
  <2>1. m.type = "CONFIRM_REQ" /\ up' = up /\ user' = user
    BY <1>0, <1>1, <1>8 DEF GS!NotHere, Missed
  <2> QED
    BY <1>4, <2>1 DEF EntryAcks, Breaks, Final
<1>9. ASSUME GS!AcceptJoin(u) PROVE Wanders(u) /\ Usual(u)
  <2> DEFINE k == [type |-> "JOIN", wallet |-> user[u].ed]
  <2>1. /\ m.type = "ACCEPT_JOIN" /\ user' = user /\ k.type = "JOIN"
        /\ up' = up \/ up' = [up EXCEPT ![u] = Append(up[u], k)]
    BY <1>0, <1>1, <1>9 DEF GS!AcceptJoin, GSTypes
  <2> HIDE DEF k
  <2>2. up'[u] = up[u] \/ up'[u] = Append(up[u], k)
    BY <1>0, <2>1 DEF GSTypes
  <2> QED
    BY <1>3, <2>1, <2>2 DEF EntryAcks, Breaks, Final
<1>10. ASSUME NEW room \in BOOLEAN, GS!ConfirmReq(u, room) PROVE Wanders(u) /\ Usual(u)
  <2> DEFINE k == [type |-> "CONFIRM_ACK", ok |-> GS!HasGoods(u, GS!Next(u).out) /\ room]
  <2>1. m.type = "CONFIRM_REQ" /\ user' = user /\ k.type = "CONFIRM_ACK" /\ GS!ToRoom(u, k)
    BY <1>1, <1>10 DEF GS!ConfirmReq
  <2> HIDE DEF k
  <2>2. up'[u] = up[u] \/ up'[u] = Append(up[u], k)
    BY <1>0, <2>1, Said
  <2> QED
    BY <1>3, <2>1, <2>2 DEF EntryAcks, Breaks, Final
<1>11. ASSUME GS!ConfirmNot(u) PROVE Wanders(u) /\ Deducts(u)
  <2> DEFINE r == [type |-> "DB_RESULT", info |-> GS!Report(m)]
  <2>1. /\ m.type = "CONFIRM_NOT" /\ user[u].trading
        /\ user' = GS!Deducted(u, m) /\ GS!ToRoom(u, r)
    BY <1>0, <1>1, <1>11 DEF GS!ConfirmNot, Missed
  <2>2. r.type = "DB_RESULT"
    OBVIOUS
  <2> HIDE DEF r
  <2>3. up'[u] = Append(up[u], r)
    BY <1>0, <2>1 DEF GS!ToRoom, GSTypes
  <2>4. /\ user'[u].items = user[u].items \ m.out.items /\ user'[u].writes = user[u].writes
        /\ user'[u].trading = user[u].trading
        /\ user'[u].init = user[u].ed + m.in.ed - m.out.ed
    BY <1>0, <2>1 DEF GS!Deducted, GS!User
  <2>5. u \notin drifted' => u \notin drifted /\ user[u].ed = user[u].init
    BY <1>1, <2>1 DEF Receive
  <2>6. Wanders(u)
    BY <1>0, <1>2, <2>1, <2>2, <2>3, <2>4 DEF Wanders, LeavesTrade, EntryAcks, Breaks, m
  <2>7. Deducts(u)
    BY <1>0, <1>2, <2>1, <2>3, <2>4, <2>5 DEF Deducts, m, r
  <2> QED
    BY <2>6, <2>7
<1>12. ASSUME GS!CompleteNot(u) PROVE Wanders(u) /\ PutsIn(u)
  <2>1. /\ m.type = "COMPLETE_NOT" /\ up' = up
        /\ user' = [user EXCEPT ![u].locked = FALSE, ![u].items = @ \cup m.info.in]
    BY <1>1, <1>12 DEF GS!CompleteNot
  <2>2. /\ user'[u].items = user[u].items \cup m.info.in /\ user'[u].writes = user[u].writes
        /\ user'[u].trading = user[u].trading /\ user'[u].init = user[u].init
        /\ ~user'[u].locked
    BY <1>0, <2>1 DEF GS!User
  <2>3. Wanders(u)
    BY <1>0, <1>2, <2>1, <2>2 DEF Wanders, EntryAcks, Breaks, m
  <2>4. PutsIn(u)
    BY <1>0, <1>2, <2>1, <2>2 DEF PutsIn, m
  <2> QED
    BY <2>3, <2>4
<1> QED
  BY <1>0, <1>5, <1>6, <1>7, <1>8, <1>9, <1>10, <1>11, <1>12 DEF GS!Receive

-----------------------------------------------------------------------------
(* The game servers settle a trade.                                        *)

LEMMA Wandered ==
  ASSUME NEW f, NEW us, NEW u, NEW x, NEW y, NEW s \in Seq(UpMessage),
         NEW q \in Seq(DownMessage), NEW s2, NEW q2, Placed(f, us, u, x, s, q),
         \/ s2 = s
         \/ \E m : /\ s2 = Append(s, m)
                   /\ LeavesTrade(m) => /\ ~y.trading /\ q2 = q /\ ~Has(q, EntryAcks)
                                        /\ \A k \in DOMAIN s : s[k].type \notin {"OPEN", "JOIN"},
         \/ q2 = q /\ (y.trading => x.trading)
         \/ /\ q # <<>> /\ q2 = Tail(q)
            /\ Head(q).type \in EntryAcks \/ (y.trading => x.trading)
            /\ Head(q).type \in Breaks => ~y.trading
  PROVE  Placed(f, us, u, y, s2, q2)
<1>1. Enters(q2) \/ (y.trading /\ ~Has(q2, Breaks)) => Belongs(f, us, u)
  <2>1. CASE q2 = q /\ (y.trading => x.trading)
    BY <2>1 DEF Placed
  <2>2. CASE /\ q # <<>> /\ q2 = Tail(q)
             /\ Head(q).type \in EntryAcks \/ (y.trading => x.trading)
             /\ Head(q).type \in Breaks => ~y.trading
    <3>1. /\ Has(q, Breaks) <=> Head(q).type \in Breaks \/ Has(q2, Breaks)
          /\ Enters(q) <=> Enters(q2) \/ (Head(q).type \in EntryAcks /\ ~Has(q2, Breaks))
      BY <2>2, HasAfterHead
    <3> QED
      BY <2>2, <3>1 DEF Placed
  <2> QED
    BY <2>1, <2>2
<1>2. Has(q2, EntryAcks) => Has(q, EntryAcks)
  BY HasAfterHead
<1>3. (y.trading => x.trading) \/ Has(q, EntryAcks)
  BY HasAfterHead
<1>4. ASSUME NEW n \in DOMAIN s, LeavesTrade(s[n])
      PROVE  /\ ~y.trading /\ ~Has(q2, EntryAcks)
             /\ \A k \in DOMAIN s : k < n => s[k].type \notin {"OPEN", "JOIN"}
  BY <1>2, <1>3, <1>4 DEF Placed
<1>5. CASE s2 = s
  BY <1>1, <1>4, <1>5 DEF Placed
<1>6. CASE s2 # s
  <2>1. PICK m : /\ s2 = Append(s, m)
                 /\ LeavesTrade(m) => /\ ~y.trading /\ q2 = q /\ ~Has(q, EntryAcks)
                                      /\ \A k \in DOMAIN s : s[k].type \notin {"OPEN", "JOIN"}
    BY <1>6
  <2>2. /\ Len(s) \in Nat /\ DOMAIN s = 1..Len(s) /\ DOMAIN s2 = 1..Len(s) + 1
        /\ s2[Len(s) + 1] = m /\ \A n \in DOMAIN s : s2[n] = s[n]
    BY <2>1
  <2>3. \A n \in DOMAIN s2 : n \in DOMAIN s \/ n = Len(s) + 1
    BY <2>2
  <2>4. \A n \in DOMAIN s2 : \A k \in DOMAIN s2 : k < n => k \in DOMAIN s
    BY <2>2
  <2>5. ASSUME NEW n \in DOMAIN s2, LeavesTrade(s2[n])
        PROVE  /\ ~y.trading /\ ~Has(q2, EntryAcks)
               /\ \A k \in DOMAIN s2 : k < n => s2[k].type \notin {"OPEN", "JOIN"}
    <3>1. CASE n \in DOMAIN s
      <4>1. LeavesTrade(s[n])
        BY <2>2, <2>5, <3>1
      <4> QED
        BY <1>4, <2>2, <2>4, <3>1, <4>1
    <3>2. CASE n = Len(s) + 1
      <4>1. LeavesTrade(m)
        BY <2>2, <2>5, <3>2
      <4> QED
        BY <2>1, <2>2, <2>4, <4>1
    <3> QED
      BY <2>3, <3>1, <3>2
  <2> QED
    BY <1>1, <2>5 DEF Placed
<1> QED
  BY <1>5, <1>6

LEMMA GSPlaces ==
  ASSUME SysTypes, AllPlaced, NEW u \in Units, Wanders(u), u \notin astray'
  PROVE  Placed(fsm, users, u, user'[u], up'[u], down'[u])
<1>1. up[u] \in Seq(UpMessage) /\ down[u] \in Seq(DownMessage)
  BY DEF SysTypes, GSTypes
<1>2. Placed(fsm, users, u, user[u], up[u], down[u])
  BY DEF AllPlaced, Wanders
<1>3. ~Entering(u) => /\ ~Has(down[u], EntryAcks)
                      /\ \A k \in DOMAIN up[u] : up[u][k].type \notin {"OPEN", "JOIN"}
  BY DEF Entering, Has, EntryAcks, Range
<1> QED
  BY <1>1, <1>2, <1>3, Wandered DEF Wanders

\* What is in a channel once is in its tail, unless it is the head.
LEMMA StillComing ==
  ASSUME NEW u, NEW sw, NEW q \in Seq(DownMessage), q # <<>>, NEW i,
         Head(q).type # "COMPLETE_NOT" \/ i \notin Head(q).info.in, Coming(u, i, q, sw)
  PROVE  Coming(u, i, Tail(q), sw)
<1>1. \A m \in Range(q) : m = Head(q) \/ m \in Range(Tail(q))
  <2> DEFINE p == Tail(q)
  <2>1. \A n \in DOMAIN q : n # 1 => n - 1 \in DOMAIN p /\ q[n] = p[n - 1]
    BY TailElement
  <2>2. Head(q) = q[1]
    BY TailElement
  <2> HIDE DEF p
  <2> QED
    BY <2>1, <2>2 DEF Range, p
<1> QED
  BY <1>1 DEF Coming

LEMMA IntegerED ==
  ASSUME SysTypes, NEW u \in Units
  PROVE  /\ user[u].init \in Int /\ user[u].ed \in Int /\ db.ed[u] \in Int
         /\ Unwritten(user[u]) \in Int
         /\ u \in DOMAIN users /\ fsm = "DB_UPDATE" =>
              /\ users[u].ed \in Int /\ users[Peer(users, u)].ed \in Int
              /\ Due(users, u).change \in Int
         /\ \A s, sw : Owed(fsm, users, u, s, sw) \in Int
<1>1. user[u] \in GS!User /\ db.ed[u] \in Int
  BY DEF SysTypes, GSTypes, DBTypes
<1>2. user[u].writes \subseteq Int
  BY <1>1 DEF GS!User
<1>3. Unwritten(user[u]) \in Int
  BY <1>2 DEF Unwritten
<1>4. ASSUME u \in DOMAIN users, fsm = "DB_UPDATE"
      PROVE  /\ users[u].ed \in Int /\ users[Peer(users, u)].ed \in Int
             /\ Due(users, u).change \in Int
  <2>1. users[u] \in TradeUser /\ users[Peer(users, u)] \in TradeUser
    BY <1>4, TwoTraders DEF SysTypes
  <2>2. users[u].ed \in Int /\ users[Peer(users, u)].ed \in Int
    BY <2>1, AmountAssumption DEF TradeUser
  <2> QED
    BY <2>2 DEF Due
<1>5. ASSUME NEW s, NEW sw PROVE Owed(fsm, users, u, s, sw) \in Int
  BY <1>4 DEF Owed, Taken, Executing
<1>6. user[u].init \in Int /\ user[u].ed \in Int
  BY <1>1 DEF GS!User
<1> QED
  BY <1>1, <1>3, <1>4, <1>5, <1>6

LEMMA UsualSettles ==
  ASSUME SysTypes, SysTypes', InOrder, Settling, NEW u \in Units, Usual(u)
  PROVE  /\ Stocked(fsm, users, db.items, u, user'[u].items, up'[u], down'[u], swaps)
         /\ OneWrite(user'[u])
         /\ u \notin drifted' => Counted(fsm, users, db'.ed[u], u, user'[u], up'[u], swaps)
         /\ LockedFor(fsm, users, u, user'[u], up'[u], down'[u])
<1>1. up[u] \in Seq(UpMessage) /\ down[u] \in Seq(DownMessage)
  BY DEF SysTypes, GSTypes
<1>2. /\ Stocked(fsm, users, db.items, u, user[u].items, up[u], down[u], swaps)
      /\ OneWrite(user[u])
      /\ u \notin drifted => Counted(fsm, users, db.ed[u], u, user[u], up[u], swaps)
      /\ LockedFor(fsm, users, u, user[u], up[u], down[u])
  BY DEF Settling, AllStocked, AllCounted, AllLocked
<1>3. None(up'[u], "DB_RESULT") <=> None(up[u], "DB_RESULT")
  <2>1. CASE up'[u] = up[u]
    BY <2>1
  <2>2. ASSUME NEW m, up'[u] = Append(up[u], m), m.type # "DB_RESULT"
        PROVE  None(up'[u], "DB_RESULT") <=> None(up[u], "DB_RESULT")
    BY <1>1, <2>2, AfterAppend
  <2> QED
    BY <2>1, <2>2 DEF Usual
<1>4. Taken(fsm, users, u, up'[u]) <=> Taken(fsm, users, u, up[u])
  BY <1>3 DEF Taken
<1>5. PutUp(up'[u], user'[u].items)
  <2>1. PutUp(up[u], user[u].items) /\ user'[u].items = user[u].items
    BY <1>2 DEF Stocked, Usual
  <2>2. CASE up'[u] = up[u]
    BY <2>1, <2>2
  <2>3. ASSUME NEW m, up'[u] = Append(up[u], m),
               m.type = "UPDATE_ITEM" /\ ~m.delete => m.item \in user[u].items
        PROVE  PutUp(up'[u], user'[u].items)
    BY <1>1, <2>1, <2>3, PutUpAfterAppend
  <2> QED
    BY <2>2, <2>3 DEF Usual
<1>6. \A i : Coming(u, i, down[u], swaps) => Coming(u, i, down'[u], swaps)
  BY <1>1, StillComing DEF Usual, Final
<1>7. None(down[u], "COMPLETE_NOT") <=> None(down'[u], "COMPLETE_NOT")
  <2>1. CASE down'[u] = down[u]
    BY <2>1
  <2>2. CASE down[u] # <<>> /\ down'[u] = Tail(down[u]) /\ Head(down[u]).type \notin Final
    <3>1. None(down[u], "COMPLETE_NOT")
             <=> Head(down[u]).type # "COMPLETE_NOT" /\ None(Tail(down[u]), "COMPLETE_NOT")
      BY <1>1, <2>2, AfterHead
    <3> QED
      BY <2>2, <3>1 DEF Final
  <2> QED
    BY <2>1, <2>2 DEF Usual
<1>8. Stocked(fsm, users, db.items, u, user'[u].items, up'[u], down'[u], swaps)
  BY <1>2, <1>4, <1>5, <1>6 DEF Stocked, Usual
<1>9. LockedFor(fsm, users, u, user'[u], up'[u], down'[u])
  BY <1>2, <1>4, <1>7 DEF LockedFor, Usual
<1>10. /\ OneWrite(user'[u])
       /\ user'[u].init - db'.ed[u] - Unwritten(user'[u])
            = user[u].init - db.ed[u] - Unwritten(user[u])
  BY <1>2 DEF Usual
<1>11. ASSUME u \notin drifted'
       PROVE  Counted(fsm, users, db'.ed[u], u, user'[u], up'[u], swaps)
  <2>1. Counted(fsm, users, db.ed[u], u, user[u], up[u], swaps)
    BY <1>2, <1>11 DEF Usual
  <2>2. Owed(fsm, users, u, up'[u], swaps) = Owed(fsm, users, u, up[u], swaps)
    BY <1>4 DEF Owed
  <2>3. /\ user'[u].init \in Int /\ db'.ed[u] \in Int /\ Unwritten(user'[u]) \in Int
        /\ user[u].init \in Int /\ db.ed[u] \in Int /\ Unwritten(user[u]) \in Int
        /\ Owed(fsm, users, u, up[u], swaps) \in Int
    <3>1. user'[u].init \in Int /\ db'.ed[u] \in Int /\ user'[u] \in GS!User
      BY DEF SysTypes, GSTypes, DBTypes, GS!User
    <3>2. Unwritten(user'[u]) \in Int
      BY <3>1 DEF Unwritten, GS!User
    <3> QED
      BY <3>1, <3>2, IntegerED
  <2> QED
    BY <1>10, <2>1, <2>2, <2>3 DEF Counted
<1> QED
  BY <1>8, <1>9, <1>10, <1>11

\* The part is carried out: what leaves the inventory is in the room's hands,
\* and the change of the ED is owed until the DB has swapped.
LEMMA DeductSettles ==
  ASSUME SysTypes, SysTypes', InOrder, Settling, NEW u \in Units, Deducts(u)
  PROVE  /\ Stocked(fsm, users, db.items, u, user'[u].items, up'[u], down'[u], swaps)
         /\ OneWrite(user'[u])
         /\ u \notin drifted' => Counted(fsm, users, db'.ed[u], u, user'[u], up'[u], swaps)
         /\ LockedFor(fsm, users, u, user'[u], up'[u], down'[u])
<1> DEFINE s == up[u]
           q == down[u]
           m == Head(down[u])
           r == [type |-> "DB_RESULT", info |-> GS!Report(m)]
<1>1. s \in Seq(UpMessage) /\ q \in Seq(DownMessage) /\ q # <<>> /\ m.type = "CONFIRM_NOT"
  BY DEF SysTypes, GSTypes, Deducts
<1>2. /\ Stocked(fsm, users, db.items, u, user[u].items, s, q, swaps)
      /\ OneWrite(user[u])
      /\ u \notin drifted => Counted(fsm, users, db.ed[u], u, user[u], s, swaps)
  BY DEF Settling, AllStocked, AllCounted
<1>3. up'[u] = Append(s, r) /\ r.type = "DB_RESULT" /\ down'[u] = Tail(q)
  BY DEF Deducts
<1>4. /\ user'[u].items = user[u].items \ m.out.items /\ user'[u].writes = user[u].writes
      /\ user'[u].init = user[u].ed + m.in.ed - m.out.ed
      /\ u \notin drifted' => u \notin drifted /\ user[u].ed = user[u].init
      /\ db' = db
  BY DEF Deducts
<1> HIDE DEF r, s, q
<1>5. m \in Range(q) /\ ~None(q, "CONFIRM_NOT")
  <2>1. m \in Range(q) /\ (None(q, "CONFIRM_NOT") => m.type # "CONFIRM_NOT")
    BY <1>1, AfterHead DEF q
  <2> QED
    BY <1>1, <2>1
<1> HIDE DEF m
<1>6. InTurn(fsm, users, u, s, q)
  BY DEF InOrder, AllInTurn, s, q
<1>7. /\ Executing(fsm, users, u) /\ m = Order(users, u)
      /\ None(s, "DB_RESULT") /\ users[u].dbInfo = {}
  BY <1>1, <1>5, <1>6 DEF InTurn
<1>8. ~Taken(fsm, users, u, s)
  BY <1>7 DEF Taken
<1>9. Taken(fsm, users, u, up'[u])
  <2>1. ~None(Append(s, r), "DB_RESULT")
    BY <1>1, <1>3, AfterAppend
  <2> QED
    BY <1>3, <1>7, <2>1 DEF Taken
<1>10. ~Moved(swaps)
  <2> SUFFICES ASSUME NEW n \in DOMAIN swaps, swaps[n].status = "done" PROVE FALSE
    BY DEF Moved
  <2>1. AskedInTurn(fsm, users, trades, swaps[n]) /\ Unanswered(swaps[n])
    BY DEF InOrder, SwapsInTurn, Unanswered
  <2> QED
    BY <1>7, <2>1 DEF AskedInTurn, Executing
<1>11. m.out.items = users[u].items /\ m.out.ed = users[u].ed /\ m.in.ed = users[Peer(users, u)].ed
  BY <1>7 DEF Order, GoodsOf
<1>12. Stocked(fsm, users, db.items, u, user'[u].items, up'[u], down'[u], swaps)
  <2>1. PutUp(up'[u], user'[u].items)
    <3>1. PutUp(s, user[u].items)
      BY <1>2 DEF Stocked
    <3> QED
      BY <1>1, <1>3, <3>1, PutUpAfterAppend
  <2>2. \A i : Coming(u, i, q, swaps) => Coming(u, i, down'[u], swaps)
    <3>1. Head(q).type # "COMPLETE_NOT"
      BY <1>1 DEF m, q
    <3> QED
      BY <1>1, <1>3, <3>1, StillComing
  <2> QED
    BY <1>2, <1>4, <1>9, <1>11, <2>1, <2>2 DEF Stocked
<1>13. OneWrite(user'[u]) /\ Unwritten(user'[u]) = Unwritten(user[u])
  BY <1>2, <1>4 DEF OneWrite, Unwritten
<1>14. ASSUME u \notin drifted'
       PROVE  Counted(fsm, users, db'.ed[u], u, user'[u], up'[u], swaps)
  <2>1. user[u].ed = user[u].init /\ Counted(fsm, users, db.ed[u], u, user[u], s, swaps)
    BY <1>2, <1>4, <1>14
  <2>2. user[u].init = db.ed[u] + Unwritten(user[u])
    <3>1. Owed(fsm, users, u, s, swaps) = 0
      BY <1>8 DEF Owed
    <3> QED
      BY <2>1, <3>1, IntegerED DEF Counted
  <2>3. Owed(fsm, users, u, up'[u], swaps) = users[Peer(users, u)].ed - users[u].ed
    BY <1>9, <1>10 DEF Owed, Due
  <2>4. /\ users[u].ed \in Int /\ users[Peer(users, u)].ed \in Int
    BY <1>7, IntegerED DEF Executing
  <2> QED
    BY <1>4, <1>11, <1>13, <2>1, <2>2, <2>3, <2>4, IntegerED DEF Counted
<1>15. LockedFor(fsm, users, u, user'[u], up'[u], down'[u])
  BY <1>9 DEF LockedFor
<1> QED
  BY <1>12, <1>13, <1>14, <1>15

LEMMA PutInSettles ==
  ASSUME SysTypes, Settling, NEW u \in Units, PutsIn(u)
  PROVE  /\ Stocked(fsm, users, db.items, u, user'[u].items, up'[u], down'[u], swaps)
         /\ OneWrite(user'[u])
         /\ u \notin drifted' => Counted(fsm, users, db'.ed[u], u, user'[u], up'[u], swaps)
         /\ LockedFor(fsm, users, u, user'[u], up'[u], down'[u])
<1> DEFINE m == Head(down[u])
<1>1. down[u] \in Seq(DownMessage) /\ down[u] # <<>>
  BY DEF SysTypes, GSTypes, PutsIn
<1>2. /\ Stocked(fsm, users, db.items, u, user[u].items, up[u], down[u], swaps)
      /\ OneWrite(user[u])
      /\ u \notin drifted => Counted(fsm, users, db.ed[u], u, user[u], up[u], swaps)
  BY DEF Settling, AllStocked, AllCounted
<1>3. /\ up'[u] = up[u] /\ down'[u] = Tail(down[u])
      /\ user'[u].items = user[u].items \cup m.info.in
      /\ user'[u].writes = user[u].writes /\ user'[u].init = user[u].init /\ ~user'[u].locked
      /\ db' = db /\ drifted \subseteq drifted'
  BY DEF PutsIn
<1> HIDE DEF m
<1>4. PutUp(up'[u], user'[u].items)
  BY <1>2, <1>3 DEF PutUp, Stocked
<1>5. \A i : Coming(u, i, down[u], swaps) => i \in m.info.in \/ Coming(u, i, down'[u], swaps)
  BY <1>1, <1>3, StillComing DEF m
<1>6. Stocked(fsm, users, db.items, u, user'[u].items, up'[u], down'[u], swaps)
  BY <1>2, <1>3, <1>4, <1>5 DEF Stocked
<1> QED
  BY <1>2, <1>3, <1>6 DEF Counted, OneWrite, Unwritten, LockedFor

LEMMA GSElsewhere ==
  ASSUME SysTypes, NEW u \in Units, GSAction(u), ~upset', NEW v \in Units, v # u
  PROVE  /\ user'[v] = user[v] /\ up'[v] = up[v] /\ down'[v] = down[v] /\ db'.ed[v] = db.ed[v]
         /\ v \notin drifted' => v \notin drifted
         /\ v \notin astray' => v \notin astray
<1>1. ~Die(u)
  BY DEF Die
<1>2. Mundane(u) \/ Deduct(u) \/ PutIn(u)
  BY <1>1, AllGSKinds DEF GSKinds
<1>3. user'[v] = user[v] /\ up'[v] = up[v] /\ down'[v] = down[v]
  BY <1>2 DEF Mundane, Deduct, PutIn, At
<1>4. db'.ed[v] = db.ed[v]
  <2>1. CASE Written(u)
    <3>1. PICK change \in user[u].writes : db' = [db EXCEPT !.ed[u] = @ + change] \/ db' = db
      BY <2>1 DEF Written
    <3> QED
      BY <3>1 DEF SysTypes, DBTypes
  <2>2. CASE ~Written(u)
    BY <1>1, <2>2 DEF GSAction, Ask, Approve, Receive, Repair, ComeAndGo
  <2> QED
    BY <2>1, <2>2
<1>5. drifted \subseteq drifted' /\ astray \subseteq astray'
  BY <1>1 DEF GSAction, Ask, Approve, Written, Receive, Repair, ComeAndGo
<1> QED
  BY <1>3, <1>4, <1>5

LEMMA GSSettles ==
  ASSUME Settled, SysTypes', NEW u \in Units, GSAction(u), ~upset'
  PROVE  Settling'
<1>1. ~Die(u) /\ ~upset
  <2>1. ~Die(u)
    BY DEF Die
  <2>2. CASE Receive(u)
    <3>1. upset' = (upset \/ Missed(u))
      BY <2>2 DEF Receive
    <3> QED
      BY <2>1, <3>1
  <2>3. CASE ~Receive(u)
    <3>1. upset' = upset
      BY <2>1, <2>3 DEF GSAction, Ask, Approve, Written, Repair, ComeAndGo
    <3> QED
      BY <2>1, <3>1
  <2> QED
    BY <2>2, <2>3
<1>2. SysTypes /\ Settling /\ InOrder
  BY <1>1 DEF Settled, Safe, Settling
<1>3. Wanders(u) /\ (Usual(u) \/ Deducts(u) \/ PutsIn(u))
  BY <1>1, <1>2, AskMoves, ApproveMoves, WrittenMoves, ReceiveMoves, OwnMoves
  DEF GSAction, SysTypes
<1>4. /\ fsm' = fsm /\ users' = users /\ swaps' = swaps /\ db'.items = db.items
  BY <1>2, GSLeavesTheRest
<1>5. ASSUME NEW v \in Units
      PROVE  /\ Stocked(fsm, users, db.items, v, user'[v].items, up'[v], down'[v], swaps)
             /\ OneWrite(user'[v])
             /\ v \notin drifted' => Counted(fsm, users, db'.ed[v], v, user'[v], up'[v], swaps)
             /\ LockedFor(fsm, users, v, user'[v], up'[v], down'[v])
             /\ v \notin astray' => Placed(fsm, users, v, user'[v], up'[v], down'[v])
  <2>1. CASE v # u
    BY <1>2, <2>1, GSElsewhere DEF Settling, AllStocked, AllCounted, AllLocked, AllPlaced
  <2>2. CASE v = u
    <3>1. v \notin astray' => Placed(fsm, users, v, user'[v], up'[v], down'[v])
      BY <1>2, <1>3, <2>2, GSPlaces DEF Settling
    <3> QED
      BY <1>2, <1>3, <2>2, <3>1, UsualSettles, DeductSettles, PutInSettles
  <2> QED
    BY <2>1, <2>2
<1>6. AllAlive'
  <2>1. Mundane(u) \/ Deduct(u) \/ PutIn(u)
    BY <1>1, <1>2, AllGSKinds DEF GSKinds
  <2> QED
    BY <1>2, <2>1, GSInTurn DEF AllAlive, Settling, InOrder
<1> QED
  BY <1>2, <1>4, <1>5, <1>6
  DEF Settling, AllStocked, AllCounted, AllLocked, AllPlaced, NoneFailed

-----------------------------------------------------------------------------
(* What the room tells the units.                                          *)

\* Whoever is told to have entered has just entered; who is told nothing of
\* an end still belongs to the trade, unless it has asked to leave.
Tells(u, m, v) ==
  LET r == ForServer(sent'[v])
  IN /\ Has(r, EntryAcks) => v = u /\ m.type \in {"OPEN", "JOIN"}
     /\ Has(r, EntryAcks) => Belongs(fsm', users', v)
     /\ Belongs(fsm, users, v) /\ ~Has(r, Breaks) =>
          Belongs(fsm', users', v) \/ (v = u /\ LeavesTrade(m))

LEMMA NoEntry ==
  ASSUME NEW v \in Units, Lacks(sent', "OPEN_ACK"), Lacks(sent', "JOIN_ACK")
  PROVE  ~Has(ForServer(sent'[v]), EntryAcks)
  BY DEF Lacks, Has, EntryAcks, ForServer

\* Nobody is told anything that matters, and all stay.
LEMMA KeptTells ==
  ASSUME NEW u, NEW m, NEW v \in Units, Lacks(sent', "OPEN_ACK"), Lacks(sent', "JOIN_ACK"),
         Belongs(fsm, users, v) =>
           Belongs(fsm', users', v) \/ (v = u /\ LeavesTrade(m))
  PROVE  Tells(u, m, v)
  BY NoEntry DEF Tells

\* Who is still in when the room closes is told so.
LEMMA Farewell ==
  ASSUME NEW us, NEW reason \in Nat, NEW before, BreakTrade(us, reason, before), NEW v \in Units,
         \/ before[v] = <<>>
         \/ \E k \in DownMessage : before[v] = <<k>> /\ k.type \in {"BREAK_ACK", "COMPLETE_NOT"}
  PROVE  LET r == ForServer(sent'[v])
         IN /\ ~Has(r, EntryAcks)
            /\ v \in DOMAIN us => Has(r, Breaks)
            /\ Has(before[v], Breaks) => Has(r, Breaks)
            /\ Range(before[v]) \subseteq Range(r)
<1> DEFINE b == Broadcast(us, BreakNot(reason))[v]
           a == before[v]
           k == BreakNot(reason)
<1>1. k \in DownMessage /\ k.type = "BREAK_NOT"
  BY PlainTypes DEF BreakNot, DownMessage
<1>2. b = IF v \in DOMAIN us THEN <<k>> ELSE <<>>
  BY DEF Broadcast
<1>3. sent'[v] = a \o b
  BY DEF BreakTrade, Then
<1> HIDE DEF a, b, k
<1>4. a \in Seq(DownMessage) /\ b \in Seq(DownMessage)
  <2>1. ASSUME NEW k2 \in DownMessage PROVE <<k2>> \in Seq(DownMessage)
    OBVIOUS
  <2>2. a = <<>> \/ \E k2 \in DownMessage : a = <<k2>>
    BY DEF a
  <2>3. b = <<>> \/ \E k2 \in DownMessage : b = <<k2>>
    BY <1>1, <1>2
  <2>4. <<>> \in Seq(DownMessage)
    OBVIOUS
  <2> QED
    BY ONLY <2>1, <2>2, <2>3, <2>4
<1>5. /\ \A n \in DOMAIN a : a[n].type \in {"BREAK_ACK", "COMPLETE_NOT"}
      /\ \A n \in DOMAIN b : b[n].type = "BREAK_NOT"
      /\ v \in DOMAIN us => Has(b, Breaks)
  <2>1. \A n \in DOMAIN a : a[n].type \in {"BREAK_ACK", "COMPLETE_NOT"}
    BY DEF a
  <2>2. \A n \in DOMAIN b : b[n].type = "BREAK_NOT"
    BY <1>1, <1>2
  <2>3. v \in DOMAIN us => 1 \in DOMAIN b
    BY <1>2
  <2> QED
    BY <2>1, <2>2, <2>3 DEF Has, Breaks
<1>6. Range(a \o b) = Range(a) \cup Range(b)
  BY <1>4, AfterConcat
<1>7. \A m \in Range(a \o b) : m.type \in {"BREAK_ACK", "COMPLETE_NOT", "BREAK_NOT"}
  BY <1>5, <1>6 DEF Range
<1>8. ForServer(sent'[v]) = a \o b
  BY <1>3, <1>7 DEF ForServer
<1>9. \A types : Has(a \o b, types) <=> Has(a, types) \/ Has(b, types)
  BY <1>4, HasAfterConcat
<1>10. ~Has(a, EntryAcks) /\ ~Has(b, EntryAcks)
  BY <1>5 DEF Has, EntryAcks
<1> QED
  BY <1>5, <1>6, <1>8, <1>9, <1>10 DEF a

LEMMA BrokenTells ==
  ASSUME NEW u, NEW m, NEW v \in Units, NEW us, DOMAIN us = DOMAIN users, NEW reason \in Nat,
         BreakTrade(us, reason, Silence)
  PROVE  Tells(u, m, v)
<1>1. Silence[v] = <<>>
  BY DEF Silence
<1> QED
  BY <1>1, Farewell DEF Tells, Belongs

LEMMA HandleTells ==
  ASSUME IndInv, NEW u \in Units, NEW m \in UpMessage, m.type # "GS_DOWN", Handle(u, m),
         NEW v \in Units
  PROVE  Tells(u, m, v)
<1>0. users \in UserMap
  BY TypeOKUsers DEF IndInv
<1>1. ASSUME Ignore PROVE Tells(u, m, v)
  <2>1. Lacks(sent', "OPEN_ACK") /\ Lacks(sent', "JOIN_ACK")
    BY <1>1, IgnoreLacks
  <2>2. fsm' = fsm /\ users' = users
    BY <1>1 DEF Ignore, Keep
  <2> QED
    BY <2>1, <2>2, KeptTells
\* Nobody goes, and the notices are of other things.
<1>2. ASSUME NEW us, DOMAIN us = DOMAIN users, users' = us,
             fsm \in {"WAIT", "CONFIRM", "DB_UPDATE"} => fsm' \in {"WAIT", "CONFIRM", "DB_UPDATE"},
             Lacks(sent', "OPEN_ACK"), Lacks(sent', "JOIN_ACK")
      PROVE  Tells(u, m, v)
  BY <1>2, KeptTells DEF Belongs
<1>3. ASSUME NEW us, DOMAIN us = DOMAIN users, Keep(us, Silence) PROVE Tells(u, m, v)
  <2>1. Lacks(sent', "OPEN_ACK") /\ Lacks(sent', "JOIN_ACK")
    BY <1>3, PlainNotices DEF Keep
  <2> QED
    BY <1>2, <1>3, <2>1 DEF Keep
<1>4. ASSUME m.type = "OPEN", OpenTradeReq(u, u, m.wallet, m.peer) PROVE Tells(u, m, v)
  <2>1. CASE Ignore
    BY <1>1, <2>1
  <2>2. CASE ~Ignore
    <3>1. /\ fsm = "INIT" /\ fsm' = "WAIT" /\ u \in DOMAIN users'
          /\ sent'[v] = To(u, Plain("OPEN_ACK"))[v] \o To(m.peer, Plain("ACCEPT_JOIN"))[v]
      BY <1>4, <2>2 DEF OpenTradeReq, StateTransition, Entered, Then
    <3> DEFINE a == To(u, Plain("OPEN_ACK"))[v]
               b == To(m.peer, Plain("ACCEPT_JOIN"))[v]
    <3>2. /\ a = <<Plain("OPEN_ACK")>> \/ (a = <<>> /\ v # u)
          /\ b = <<Plain("ACCEPT_JOIN")>> \/ b = <<>>
          /\ v # u => a = <<>>
      BY DEF To
    <3>3. Plain("OPEN_ACK") \in DownMessage /\ Plain("ACCEPT_JOIN") \in DownMessage
      BY PlainTypes DEF DownMessage
    <3> HIDE DEF a, b
    <3>4. a \in Seq(DownMessage) /\ b \in Seq(DownMessage)
      <4>1. ASSUME NEW k \in DownMessage PROVE <<k>> \in Seq(DownMessage)
        OBVIOUS
      <4>2. <<>> \in Seq(DownMessage)
        OBVIOUS
      <4> QED
        BY ONLY <3>2, <3>3, <4>1, <4>2
    <3>5. v # u => ~Has(a, EntryAcks)
      BY <3>2 DEF Has
    <3>6. ~Has(b, EntryAcks)
      BY <3>2 DEF Has, EntryAcks, Plain
    <3>7. v # u => ~Has(a \o b, EntryAcks)
      BY <3>4, <3>5, <3>6, HasAfterConcat
    <3>8. v # u => ~Has(ForServer(sent'[v]), EntryAcks)
      <4>1. sent'[v] = a \o b
        BY <3>1 DEF a, b
      <4>2. ForServer(a \o b) = a \o b \/ ForServer(a \o b) = <<>>
        BY DEF ForServer
      <4>3. ~Has(<<>>, EntryAcks)
        BY DEF Has
      <4> QED
        BY <3>7, <4>1, <4>2, <4>3
    <3> QED
      BY <1>4, <3>1, <3>8 DEF Tells, Belongs
  <2> QED
    BY <2>1, <2>2
<1>5. ASSUME m.type = "JOIN", JoinTradeReq(u, u, m.wallet) PROVE Tells(u, m, v)
  <2>1. CASE fsm = "WAIT" /\ Keep(Entered(users, u, u, m.wallet), To(u, Plain("JOIN_ACK")))
    <3>1. /\ fsm' = "WAIT" /\ DOMAIN users' = DOMAIN users \cup {u}
          /\ v # u => sent'[v] = <<>>
      BY <2>1 DEF Keep, Entered, To
    <3>2. v # u => ~Has(ForServer(sent'[v]), EntryAcks)
      BY <3>1 DEF ForServer, Has
    <3> QED
      BY <1>5, <3>1, <3>2 DEF Tells, Belongs
  <2>2. CASE BreakTrade(users, JoinFailed, Silence)
    BY <2>2, BrokenTells DEF JoinFailed
  <2> QED
    BY <1>1, <1>5, <2>1, <2>2 DEF JoinTradeReq, MayJoin
<1>6. ASSUME m.type = "BREAK", BreakTradeReq(u, m.reason) PROVE Tells(u, m, v)
  <2>1. DOMAIN Without(users, {u}) = DOMAIN users \ {u}
    BY DEF Without
  <2>2. CASE m.reason = Logout /\ Keep(Without(users, {u}), Silence)
    <3>1. Lacks(sent', "OPEN_ACK") /\ Lacks(sent', "JOIN_ACK")
      BY <2>2, PlainNotices DEF Keep
    <3> QED
      BY <1>6, <2>1, <2>2, <3>1, KeptTells DEF Keep, Belongs, LeavesTrade
  <2>3. CASE BreakTrade(Without(users, {u}), m.reason, To(u, Plain("BREAK_ACK")))
    <3> DEFINE before == To(u, Plain("BREAK_ACK"))
               k == Plain("BREAK_ACK")
    <3>1. k \in DownMessage /\ k.type = "BREAK_ACK"
      BY PlainTypes DEF DownMessage, Plain
    <3> HIDE DEF k
    <3>2. before[v] = IF v = u THEN <<k>> ELSE <<>>
      BY DEF To, k
    <3>3. m.reason \in Nat
      BY <1>6, ReasonAssumption DEF UpMessage
    <3>4. v = u => Has(before[v], Breaks)
      BY <3>1, <3>2 DEF Has, Breaks
    <3> HIDE DEF before
    <3>5. /\ ~Has(ForServer(sent'[v]), EntryAcks)
          /\ v \in DOMAIN users \ {u} => Has(ForServer(sent'[v]), Breaks)
          /\ Has(before[v], Breaks) => Has(ForServer(sent'[v]), Breaks)
      BY <2>1, <2>3, <3>1, <3>2, <3>3, Farewell DEF before, k
    <3> QED
      BY <3>4, <3>5 DEF Tells, Belongs
  <2> QED
    BY <1>1, <1>6, <2>2, <2>3 DEF BreakTradeReq
<1>7. ASSUME m.type = "UPDATE_ITEM", UpdateTradeItemReq(u, m.item, m.delete) PROVE Tells(u, m, v)
  <2>1. ASSUME NEW us, DOMAIN us = DOMAIN users, Keep(us, ItemNotice(u, m.item, m.delete))
        PROVE  Tells(u, m, v)
    <3>1. Lacks(sent', "OPEN_ACK") /\ Lacks(sent', "JOIN_ACK")
      BY <2>1, PlainNotices DEF Keep, ItemNotice
    <3> QED
      BY <1>2, <2>1, <3>1 DEF Keep
  <2>2. \A items, ed : DOMAIN Updated(u, items, ed) = DOMAIN users
    BY DEF Updated
  <2> QED
    BY <1>1, <1>7, <2>1, <2>2 DEF UpdateTradeItemReq
<1>8. ASSUME m.type = "UPDATE_ED", UpdateTradeEDReq(u, m.ed) PROVE Tells(u, m, v)
  <2>1. CASE Ignore
    BY <1>1, <2>1
  <2>2. CASE ~Ignore
    <3> DEFINE us == Updated(u, users[u].items, m.ed)
    <3>1. Keep(us, Broadcast(users, [type |-> "UPDATE_ED_NOT", unit |-> u, ed |-> m.ed]))
      BY <1>8, <2>2 DEF UpdateTradeEDReq
    <3>2. DOMAIN us = DOMAIN users
      BY DEF Updated
    <3> HIDE DEF us
    <3>3. Lacks(sent', "OPEN_ACK") /\ Lacks(sent', "JOIN_ACK")
      BY <3>1, PlainNotices DEF Keep
    <3> QED
      BY <1>2, <3>1, <3>2, <3>3 DEF Keep
  <2> QED
    BY <2>1, <2>2
<1>9. ASSUME m.type = "OFFER", OfferTradeReq(u) PROVE Tells(u, m, v)
  <2> DEFINE us == [users EXCEPT ![u].offer = TRUE]
  <2>1. DOMAIN us = DOMAIN users
    OBVIOUS
  <2> HIDE DEF us
  <2>2. CASE /\ users' = us /\ fsm = "WAIT" /\ fsm' = StateTransition(fsm, "TO_CONFIRM")
             /\ sent' = Silence
    <3>1. Lacks(sent', "OPEN_ACK") /\ Lacks(sent', "JOIN_ACK")
      BY <2>2, PlainNotices
    <3> QED
      BY <1>2, <2>1, <2>2, <3>1 DEF StateTransition
  <2>3. CASE BreakTrade(us, NoGoods, Silence)
    BY <2>1, <2>3, BrokenTells DEF NoGoods
  <2> QED
    BY <1>1, <1>3, <1>9, <2>1, <2>2, <2>3 DEF OfferTradeReq, CanOffer, us
<1>10. ASSUME m.type = "APPROVE", ApproveTradeReq(u) PROVE Tells(u, m, v)
  <2> DEFINE us == [users EXCEPT ![u].approval = TRUE]
  <2>1. DOMAIN us = DOMAIN users
    OBVIOUS
  <2> HIDE DEF us
  <2>2. CASE Keep(us, Mirrored("CONFIRM_REQ", us))
    <3>1. Lacks(sent', "OPEN_ACK") /\ Lacks(sent', "JOIN_ACK")
      BY <2>2 DEF Lacks, Mirrored, Keep
    <3> QED
      BY <1>2, <2>1, <2>2, <3>1 DEF Keep
  <2>3. CASE BreakTrade(us, WrongCount, Silence)
    BY <2>1, <2>3, BrokenTells DEF WrongCount
  <2> QED
    BY <1>1, <1>3, <1>10, <2>1, <2>2, <2>3 DEF ApproveTradeReq, us
<1>11. ASSUME m.type = "CONFIRM_ACK", ConfirmTradeAck(u, m.ok) PROVE Tells(u, m, v)
  <2> DEFINE us == IF u \in Members THEN [users EXCEPT ![u].confirm = TRUE] ELSE users
  <2>1. DOMAIN us = DOMAIN users
    OBVIOUS
  <2> HIDE DEF us
  <2>2. CASE /\ users' = us /\ fsm = "CONFIRM" /\ fsm' = StateTransition(fsm, "TO_DB_UPDATE")
             /\ sent' = Mirrored("CONFIRM_NOT", us)
    <3>1. Lacks(sent', "OPEN_ACK") /\ Lacks(sent', "JOIN_ACK")
      BY <2>2 DEF Lacks, Mirrored
    <3> QED
      BY <1>2, <2>1, <2>2, <3>1 DEF StateTransition
  <2>3. CASE BreakTrade(us, WrongCount, Silence) \/ BreakTrade(users, BadGoods, Silence)
    BY <2>1, <2>3, BrokenTells DEF WrongCount, BadGoods
  <2> QED
    BY <1>1, <1>3, <1>11, <2>1, <2>2, <2>3 DEF ConfirmTradeAck, us
<1>12. ASSUME m.type = "DB_RESULT", DBUpdateTradeResultNot(u, m.info) PROVE Tells(u, m, v)
  <2> DEFINE us == [users EXCEPT ![u].dbInfo = {m.info}]
  <2>1. DOMAIN us = DOMAIN users
    OBVIOUS
  <2> HIDE DEF us
  <2>2. CASE users' = us /\ fsm' = fsm /\ sent' = Silence
    <3>1. Lacks(sent', "OPEN_ACK") /\ Lacks(sent', "JOIN_ACK")
      BY <2>2, PlainNotices
    <3> QED
      BY <1>2, <2>1, <2>2, <3>1
  <2>3. CASE BreakTrade(us, WrongCount, Silence) \/ BreakTrade(users, Cancelled, Silence)
    BY <2>1, <2>3, BrokenTells DEF WrongCount, Cancelled
  <2> QED
    BY <1>1, <1>3, <1>12, <2>1, <2>2, <2>3 DEF DBUpdateTradeResultNot, us
<1> QED
  BY <1>4, <1>5, <1>6, <1>7, <1>8, <1>9, <1>10, <1>11, <1>12 DEF Handle

LEMMA TickTells ==
  ASSUME Tick, NEW u, NEW m, NEW v \in Units
  PROVE  Tells(u, m, v)
<1>1. ASSUME CloseRoom PROVE Tells(u, m, v)
  <2>1. Lacks(sent', "OPEN_ACK") /\ Lacks(sent', "JOIN_ACK")
    BY <1>1, PlainNotices DEF CloseRoom
  <2> QED
    BY <1>1, <2>1, KeptTells DEF CloseRoom, Belongs
<1>2. ASSUME GiveUpWaiting PROVE Tells(u, m, v)
  BY <1>2, BrokenTells DEF GiveUpWaiting, JoinLate
<1> QED
  BY <1>1, <1>2 DEF Tick

-----------------------------------------------------------------------------
(* The room's steps leave the traders in their place.                      *)

\* What comes down to a unit is what the room tells it, acks apart.
LEMMA ToldThen ==
  ASSUME SysTypes, AllAlive, NEW acks, RoomStep(acks), NEW v \in Units
  PROVE  \E r \in Seq(DownMessage) :
            /\ down'[v] = down[v] \o r
            /\ Has(r, EntryAcks) <=> Has(ForServer(sent'[v]), EntryAcks)
            /\ Has(r, Breaks) <=> Has(ForServer(sent'[v]), Breaks)
<1> DEFINE d == down[v]
           a == acks[v]
           f == ForServer(sent'[v])
<1>1. d \in Seq(DownMessage) /\ a \in Seq(DownMessage) /\ f \in Seq(DownMessage)
  BY PlainFromRoom DEF SysTypes, GSTypes, RoomStep
<1>2. down'[v] = (d \o a) \o f
  BY DEF RoomStep, Forward, AllAlive
<1>3. \A n \in DOMAIN a : a[n].type = "APPROVE_ACK"
  BY DEF RoomStep
<1> HIDE DEF d, a, f
<1>4. (d \o a) \o f = d \o (a \o f) /\ a \o f \in Seq(DownMessage)
  BY <1>1, ConcatAssociative, ConcatProperties
<1>5. ~Has(a, EntryAcks) /\ ~Has(a, Breaks)
  BY <1>3 DEF Has, EntryAcks, Breaks
<1>6. \A types : Has(a \o f, types) <=> Has(a, types) \/ Has(f, types)
  BY <1>1, HasAfterConcat
<1> QED
  BY <1>2, <1>4, <1>5, <1>6 DEF d, f

\* m is what the room has taken from u, or anything if it has taken nothing.
LEMMA RoomPlaces ==
  ASSUME NEW v \in Units, NEW u, NEW m, Tells(u, m, v), NEW x,
         NEW s \in Seq(UpMessage), NEW s2, NEW q \in Seq(DownMessage),
         NEW r \in Seq(DownMessage),
         Has(r, EntryAcks) <=> Has(ForServer(sent'[v]), EntryAcks),
         Has(r, Breaks) <=> Has(ForServer(sent'[v]), Breaks),
         \/ s2 = s /\ (v = u => m.type \notin {"OPEN", "JOIN", "BREAK"})
         \/ s # <<>> /\ s2 = Tail(s) /\ (v = u => m = Head(s)),
         Placed(fsm, users, v, x, s, q)
  PROVE  Placed(fsm', users', v, x, s2, q \o r)
<1>1. /\ Has(r, EntryAcks) => v = u /\ m.type \in {"OPEN", "JOIN"}
      /\ Has(r, EntryAcks) => Belongs(fsm', users', v)
      /\ Belongs(fsm, users, v) /\ ~Has(r, Breaks) =>
           Belongs(fsm', users', v) \/ (v = u /\ LeavesTrade(m))
  BY DEF Tells
<1>2. /\ \A types : Has(q \o r, types) <=> Has(q, types) \/ Has(r, types)
      /\ Enters(q \o r) => Enters(r) \/ (Enters(q) /\ ~Has(r, Breaks))
  BY HasAfterConcat
<1>3. Enters(r) => Has(r, EntryAcks)
  BY DEF Enters, Has
<1>4. Enters(q) => Has(q, EntryAcks)
  BY DEF Enters, Has
<1>5. s # <<>> => /\ 1 \in DOMAIN s /\ s[1] = Head(s)
                  /\ \A n \in DOMAIN Tail(s) : n + 1 \in DOMAIN s /\ Tail(s)[n] = s[n + 1] /\ 1 < n + 1
                  /\ \A n, k \in DOMAIN Tail(s) : k < n => k + 1 < n + 1
  BY TailElement
\* Who leaves was neither in a trade nor about to enter one.
<1>6. ASSUME v = u, LeavesTrade(m) PROVE ~x.trading /\ ~Has(q, EntryAcks)
  <2>1. s # <<>> /\ s2 = Tail(s) /\ m = Head(s)
    BY <1>6 DEF LeavesTrade
  <2> QED
    BY <1>5, <1>6, <2>1 DEF Placed
<1>7. ASSUME Enters(q \o r) \/ (x.trading /\ ~Has(q \o r, Breaks))
      PROVE  Belongs(fsm', users', v)
  <2>1. CASE Has(r, EntryAcks)
    BY <1>1, <2>1
  <2>2. CASE ~Has(r, EntryAcks)
    <3>1. /\ ~Has(r, Breaks)
          /\ Enters(q) \/ (x.trading /\ ~Has(q, Breaks))
      BY <1>2, <1>3, <1>7, <2>2
    <3>2. Belongs(fsm, users, v)
      BY <3>1 DEF Placed
    <3>3. ~(v = u /\ LeavesTrade(m))
      BY <1>4, <1>6, <3>1
    <3> QED
      BY <1>1, <3>1, <3>2, <3>3
  <2> QED
    BY <2>1, <2>2
<1>8. ASSUME NEW n \in DOMAIN s2, LeavesTrade(s2[n])
      PROVE  /\ ~x.trading /\ ~Has(q \o r, EntryAcks)
             /\ \A k \in DOMAIN s2 : k < n => s2[k].type \notin {"OPEN", "JOIN"}
  <2>1. CASE s2 = s /\ (v = u => m.type \notin {"OPEN", "JOIN", "BREAK"})
    BY <1>1, <1>2, <1>8, <2>1 DEF Placed
  <2>2. CASE s # <<>> /\ s2 = Tail(s) /\ (v = u => m = Head(s))
    <3>1. n + 1 \in DOMAIN s /\ LeavesTrade(s[n + 1]) /\ 1 < n + 1
      BY <1>5, <1>8, <2>2
    <3>2. /\ ~x.trading /\ ~Has(q, EntryAcks)
          /\ \A k \in DOMAIN s : k < n + 1 => s[k].type \notin {"OPEN", "JOIN"}
      BY <3>1 DEF Placed
    <3>3. Head(s).type \notin {"OPEN", "JOIN"}
      BY <1>5, <2>2, <3>1, <3>2
    <3>4. ~Has(r, EntryAcks)
      BY <1>1, <2>2, <3>3
    <3>5. ASSUME NEW k \in DOMAIN s2, k < n PROVE s2[k].type \notin {"OPEN", "JOIN"}
      BY <1>5, <1>8, <2>2, <3>2, <3>5
    <3> QED
      BY <1>2, <3>2, <3>4, <3>5
  <2> QED
    BY <2>1, <2>2
<1> QED
  BY <1>7, <1>8 DEF Placed

-----------------------------------------------------------------------------
(* The room's steps leave everything owed on its way.                      *)

\* Goods come to lie on the table only by being put up.
Grows(u, m, v) ==
  \/ users'[v].items = {}
  \/ Belongs(fsm, users, v) /\ users'[v].items \subseteq users[v].items
  \/ /\ Belongs(fsm, users, v) /\ v = u /\ m.type = "UPDATE_ITEM" /\ ~m.delete
     /\ users'[v].items \subseteq users[v].items \cup {m.item}

LEMMA UpdatedItems ==
  ASSUME IndInv, NEW u, NEW items, NEW ed, NEW v \in DOMAIN users
  PROVE  Updated(u, items, ed)[v].items = IF v = u THEN items ELSE users[v].items
<1>1. users[v] \in TradeUser
  BY TypeOKUsers, UserMapDomain DEF IndInv
<1> DEFINE mine == [[users[u] EXCEPT !.items = items] EXCEPT !.ed = ed]
           x == IF v = u THEN mine ELSE users[v]
<1>2. Updated(u, items, ed)[v] = IF v = Other(u) THEN [x EXCEPT !.offer = FALSE] ELSE x
  BY DEF Updated
<1>3. x.items = IF v = u THEN items ELSE users[v].items
  BY <1>1 DEF TradeUser
<1>4. [x EXCEPT !.offer = FALSE].items = x.items
  OBVIOUS
<1> HIDE DEF x
<1> QED
  BY <1>2, <1>3, <1>4

LEMMA HandleGoods ==
  ASSUME IndInv, NEW u \in Units, NEW m \in UpMessage, m.type # "GS_DOWN", Handle(u, m),
         NEW v \in Units, Belongs(fsm', users', v)
  PROVE  Grows(u, m, v)
<1>1. ASSUME NEW us, NEW reason, NEW before, BreakTrade(us, reason, before) PROVE FALSE
  BY <1>1 DEF BreakTrade, StateTransition, Belongs
<1>2. ASSUME NEW us, users' = us, fsm \in {"WAIT", "CONFIRM", "DB_UPDATE"},
             DOMAIN us \subseteq Members, SameGoods(us)
      PROVE  Grows(u, m, v)
  BY <1>2 DEF SameGoods, GoodsOf, Grows, Belongs, Members
<1>3. ASSUME Ignore PROVE Grows(u, m, v)
  BY <1>3 DEF Ignore, Keep, Grows, Belongs
<1>4. ASSUME NEW us, NEW d, NEW w,
             \/ us = users
             \/ us = Without(users, {w})
             \/ us = [users EXCEPT ![w].offer = TRUE]
             \/ us = [users EXCEPT ![w].approval = TRUE]
             \/ us = [users EXCEPT ![w].confirm = TRUE]
             \/ us = [users EXCEPT ![w].dbInfo = d]
      PROVE  SameGoods(us) /\ DOMAIN us \subseteq Members
  <2>1. SameGoods(us)
    BY <1>4, GoodsStay
  <2>2. DOMAIN us \subseteq Members
    BY <1>4 DEF Without, Members
  <2> QED
    BY <2>1, <2>2
<1>5. ASSUME NEW us, NEW notices, Keep(us, notices), DOMAIN us \subseteq Members, SameGoods(us)
      PROVE  Grows(u, m, v)
  BY <1>2, <1>5 DEF Keep, Belongs
<1>6. ASSUME OpenTradeReq(u, u, m.wallet, m.peer) PROVE Grows(u, m, v)
  <2>1. CASE users' = Entered(NoUsers, u, u, m.wallet)
    BY <2>1 DEF Entered, NoUsers, NewUser, Belongs, Grows
  <2> QED
    BY <1>3, <1>6, <2>1 DEF OpenTradeReq
<1>7. ASSUME JoinTradeReq(u, u, m.wallet) PROVE Grows(u, m, v)
  <2>1. CASE users' = Entered(users, u, u, m.wallet) /\ fsm = "WAIT"
    BY <2>1 DEF Entered, NewUser, Belongs, Grows
  <2> QED
    BY <1>1, <1>3, <1>7, <2>1 DEF JoinTradeReq, MayJoin, Keep
<1>8. ASSUME BreakTradeReq(u, m.reason) PROVE Grows(u, m, v)
  BY <1>1, <1>3, <1>4, <1>5, <1>8 DEF BreakTradeReq
<1>9. ASSUME m.type = "UPDATE_ITEM", UpdateTradeItemReq(u, m.item, m.delete) PROVE Grows(u, m, v)
  <2>1. ASSUME NEW items, NEW ed, fsm = "WAIT", users' = Updated(u, items, ed)
        PROVE  /\ Belongs(fsm, users, v)
               /\ users'[v].items = IF v = u THEN items ELSE users[v].items
    <3>1. v \in DOMAIN users
      BY <2>1 DEF Updated, Belongs
    <3> QED
      BY <2>1, <3>1, UpdatedItems DEF Belongs
  <2>2. CASE /\ fsm = "WAIT" /\ ~m.delete
             /\ users' = Updated(u, users[u].items \cup {m.item}, users[u].ed)
    BY <1>9, <2>1, <2>2 DEF Grows
  <2>3. CASE fsm = "WAIT" /\ users' = Updated(u, users[u].items \ {m.item}, users[u].ed)
    BY <2>1, <2>3 DEF Grows
  <2> QED
    BY <1>3, <1>9, <2>2, <2>3 DEF UpdateTradeItemReq, CanUpdateItem, Keep
<1>10. ASSUME UpdateTradeEDReq(u, m.ed) PROVE Grows(u, m, v)
  <2>1. CASE fsm = "WAIT" /\ users' = Updated(u, users[u].items, m.ed)
    <3>1. v \in DOMAIN users
      BY <2>1 DEF Updated, Belongs
    <3> QED
      BY <2>1, <3>1, UpdatedItems DEF Belongs, Grows
  <2> QED
    BY <1>3, <1>10, <2>1 DEF UpdateTradeEDReq, CanUpdateED, Keep
<1>11. ASSUME OfferTradeReq(u) PROVE Grows(u, m, v)
  <2> DEFINE us == [users EXCEPT ![u].offer = TRUE]
  <2>1. SameGoods(us) /\ DOMAIN us \subseteq Members
    BY <1>4
  <2> HIDE DEF us
  <2> QED
    BY <1>1, <1>2, <1>3, <1>5, <1>11, <2>1 DEF OfferTradeReq, CanOffer, us
<1>12. ASSUME ApproveTradeReq(u) PROVE Grows(u, m, v)
  <2> DEFINE us == [users EXCEPT ![u].approval = TRUE]
  <2>1. SameGoods(us) /\ DOMAIN us \subseteq Members
    BY <1>4
  <2> HIDE DEF us
  <2> QED
    BY <1>1, <1>3, <1>5, <1>12, <2>1 DEF ApproveTradeReq, us
<1>13. ASSUME ConfirmTradeAck(u, m.ok) PROVE Grows(u, m, v)
  <2> DEFINE us == IF u \in Members THEN [users EXCEPT ![u].confirm = TRUE] ELSE users
  <2>1. SameGoods(us) /\ DOMAIN us \subseteq Members
    BY <1>4
  <2> HIDE DEF us
  <2> QED
    BY <1>1, <1>2, <1>3, <1>5, <1>13, <2>1 DEF ConfirmTradeAck, us
<1>14. ASSUME DBUpdateTradeResultNot(u, m.info) PROVE Grows(u, m, v)
  <2> DEFINE us == [users EXCEPT ![u].dbInfo = {m.info}]
  <2>1. SameGoods(us) /\ DOMAIN us \subseteq Members
    BY <1>4
  <2> HIDE DEF us
  <2> QED
    BY <1>1, <1>2, <1>3, <1>5, <1>14, <2>1 DEF DBUpdateTradeResultNot, us
<1> QED
  BY <1>6, <1>7, <1>8, <1>9, <1>10, <1>11, <1>12, <1>13, <1>14 DEF Handle

\* The room asks the DB for a swap at most.
LEMMA SwapsAfterRoom ==
  ASSUME SysTypes, NoneFailed, NEW acks, RoomStep(acks)
  PROVE  /\ Moved(swaps') <=> Moved(swaps)
         /\ \A u, i, q : Coming(u, i, q, swaps) => Coming(u, i, q, swaps')
         /\ NoneFailed'
<1>1. CASE swaps' = swaps
  BY <1>1 DEF NoneFailed
<1>2. ASSUME NEW x, x.status = "asked", swaps' = Append(swaps, x)
      PROVE  /\ Moved(swaps') <=> Moved(swaps)
             /\ \A u, i, q : Coming(u, i, q, swaps) => Coming(u, i, q, swaps')
             /\ NoneFailed'
  <2>1. /\ DOMAIN swaps = 1..Len(swaps) /\ Len(swaps) \in Nat
        /\ DOMAIN swaps' = 1..Len(swaps) + 1 /\ swaps'[Len(swaps) + 1] = x
        /\ \A n \in DOMAIN swaps : swaps'[n] = swaps[n]
    BY <1>2 DEF SysTypes, SwapTypes
  <2>2. /\ \A n \in DOMAIN swaps' : n \in DOMAIN swaps \/ swaps'[n] = x
        /\ \A n \in DOMAIN swaps : n \in DOMAIN swaps'
    BY <2>1
  <2>3. Moved(swaps') <=> Moved(swaps)
    BY <1>2, <2>1, <2>2 DEF Moved
  <2>4. ASSUME NEW u, NEW i, NEW q, Coming(u, i, q, swaps) PROVE Coming(u, i, q, swaps')
    BY <2>1, <2>2, <2>4 DEF Coming
  <2>5. NoneFailed'
    BY <1>2, <2>1, <2>2 DEF NoneFailed
  <2> QED
    BY <2>3, <2>4, <2>5
<1> QED
  BY <1>1, <1>2 DEF RoomStep, Forward

LEMMA StillThere ==
  ASSUME NEW q \in Seq(DownMessage), NEW r \in Seq(DownMessage)
  PROVE  /\ \A u, i, sw : Coming(u, i, q, sw) => Coming(u, i, q \o r, sw)
         /\ \A type : ~None(q, type) => ~None(q \o r, type)
<1>1. Range(q \o r) = Range(q) \cup Range(r)
  BY AfterConcat
<1>2. \A type : None(q \o r, type) <=> None(q, type) /\ None(r, type)
  BY AfterConcat
<1> QED
  BY <1>1, <1>2 DEF Coming

\* Goods that are out stay so, on the same terms, and no others lie on the
\* table than the trader has.
GoodsKept(v) ==
  /\ Taken(fsm', users', v, up'[v]) <=> Taken(fsm, users, v, up[v])
  /\ Taken(fsm, users, v, up[v]) => /\ users'[v].items = users[v].items
                                    /\ Due(users', v) = Due(users, v)
  /\ Belongs(fsm', users', v) /\ ~Taken(fsm', users', v, up'[v]) =>
       users'[v].items \subseteq user[v].items

LEMMA RoomKeeps ==
  ASSUME SysTypes, InOrder, Settling, NEW acks, RoomStep(acks), NEW v \in Units,
         GoodsKept(v)
  PROVE  /\ Stocked(fsm', users', db.items, v, user[v].items, up'[v], down'[v], swaps')
         /\ v \notin drifted => Counted(fsm', users', db.ed[v], v, user[v], up'[v], swaps')
         /\ LockedFor(fsm', users', v, user[v], up'[v], down'[v])
<1>1. /\ Stocked(fsm, users, db.items, v, user[v].items, up[v], down[v], swaps)
      /\ v \notin drifted => Counted(fsm, users, db.ed[v], v, user[v], up[v], swaps)
      /\ LockedFor(fsm, users, v, user[v], up[v], down[v])
      /\ Holds(fsm, users, db.items, v, user[v].items, up[v], down[v])
      /\ NoneFailed /\ AllAlive
  BY DEF Settling, AllStocked, AllCounted, AllLocked, InOrder, AllHold
<1>2. /\ Moved(swaps') <=> Moved(swaps)
      /\ \A i, q : Coming(v, i, q, swaps) => Coming(v, i, q, swaps')
  BY <1>1, SwapsAfterRoom
<1>3. /\ \A i, sw : Coming(v, i, down[v], sw) => Coming(v, i, down'[v], sw)
      /\ ~None(down[v], "COMPLETE_NOT") => ~None(down'[v], "COMPLETE_NOT")
  <2>1. PICK r \in Seq(DownMessage) : down'[v] = down[v] \o r
    BY <1>1, ToldThen
  <2>2. down[v] \in Seq(DownMessage)
    BY DEF SysTypes, GSTypes
  <2> DEFINE q == down[v]
  <2> HIDE DEF q
  <2>3. /\ \A i, sw : Coming(v, i, q, sw) => Coming(v, i, q \o r, sw)
        /\ ~None(q, "COMPLETE_NOT") => ~None(q \o r, "COMPLETE_NOT")
    BY <2>2, StillThere DEF q
  <2> QED
    BY <2>1, <2>3 DEF q
<1>4. PutUp(up'[v], user[v].items)
  <2>1. up[v] \in Seq(UpMessage) /\ PutUp(up[v], user[v].items)
    BY <1>1 DEF SysTypes, GSTypes, Stocked
  <2>2. up'[v] = up[v] \/ (up[v] # <<>> /\ up'[v] = Tail(up[v]))
    BY DEF RoomStep
  <2> DEFINE s == up[v]
  <2> HIDE DEF s
  <2>3. s # <<>> => PutUp(Tail(s), user[v].items)
    BY <2>1, PutUpAfterHead DEF s
  <2> QED
    BY <2>1, <2>2, <2>3 DEF s
<1>5. Executing(fsm', users', v) /\ ~Moved(swaps') => \A i \in users'[v].items : db.items[i] = v
  <2>1. CASE Taken(fsm', users', v, up'[v])
    BY <1>1, <1>2, <2>1 DEF GoodsKept, Taken, Stocked
  <2>2. CASE ~Taken(fsm', users', v, up'[v])
    <3>1. Executing(fsm', users', v) => Belongs(fsm', users', v)
      BY DEF Executing, Belongs
    <3> QED
      BY <1>1, <2>2, <3>1 DEF GoodsKept, Holds
  <2> QED
    BY <2>1, <2>2
<1>6. ASSUME NEW i \in Items, db.items[i] = v
      PROVE  \/ i \in user[v].items
             \/ Taken(fsm', users', v, up'[v]) /\ i \in users'[v].items
             \/ Coming(v, i, down'[v], swaps')
  BY <1>1, <1>2, <1>3, <1>6 DEF GoodsKept, Stocked
<1>7. Owed(fsm', users', v, up'[v], swaps') = Owed(fsm, users, v, up[v], swaps)
  BY <1>2 DEF GoodsKept, Owed
<1>8. Stocked(fsm', users', db.items, v, user[v].items, up'[v], down'[v], swaps')
  BY <1>4, <1>5, <1>6 DEF GoodsKept, Stocked
<1>9. v \notin drifted => Counted(fsm', users', db.ed[v], v, user[v], up'[v], swaps')
  BY <1>1, <1>7 DEF Counted
<1>10. LockedFor(fsm', users', v, user[v], up'[v], down'[v])
  BY <1>1, <1>3 DEF GoodsKept, LockedFor
<1> QED
  BY <1>8, <1>9, <1>10

\* Before an execution nothing has been taken.
LEMMA BeforeExecution ==
  ASSUME SysTypes, InOrder, NEW acks, RoomStep(acks), NEW v \in Units, fsm # "DB_UPDATE",
         Ignore \/ Uneventful \/ Execution
  PROVE  ~Taken(fsm, users, v, up[v]) /\ ~Taken(fsm', users', v, up'[v])
<1>1. ~Taken(fsm, users, v, up[v])
  BY DEF Taken, Executing
<1>2. CASE fsm' # "DB_UPDATE"
  BY <1>1, <1>2 DEF Taken, Executing
<1>3. CASE Execution
  <2>1. v \in DOMAIN users' => users'[v].dbInfo = {}
    BY <1>3 DEF Execution, SysTypes, IndInv, NoFlagBeforeItsTime, Members
  <2>2. None(up[v], "DB_RESULT")
    BY DEF InOrder, AllInTurn, InTurn, Executing
  <2>3. None(up'[v], "DB_RESULT")
    BY <2>2, ComesUp DEF Fewer
  <2> QED
    BY <1>1, <2>1, <2>3 DEF Taken, Executing
<1> QED
  BY <1>2, <1>3 DEF Ignore, Keep, Uneventful

LEMMA DeliverKeeps ==
  ASSUME Safe, SysTypes', Settling, NEW u \in Units, Deliver(u), NEW v \in Units
  PROVE  GoodsKept(v)
<1> DEFINE m == Head(up[u])
<1>1. SysTypes /\ InOrder /\ DeathKnown /\ IndInv /\ AllAlive
  BY DEF Safe, Settling, SysTypes
<1>2. /\ up[u] \in Seq(UpMessage) /\ up[u] # <<>> /\ m \in UpMessage
      /\ m.type # "GS_DOWN" /\ ~None(up[u], m.type) /\ Handle(u, m)
      /\ up'[u] = Tail(up[u]) /\ (v # u => up'[v] = up[v])
      /\ \E acks : RoomStep(acks)
  BY <1>1, DeliverStep
<1>3. PICK acks : RoomStep(acks)
  BY <1>2
<1>4. /\ Stocked(fsm, users, db.items, v, user[v].items, up[v], down[v], swaps)
      /\ InTurn(fsm, users, v, up[v], down[v])
  BY <1>1 DEF Settling, AllStocked, InOrder, AllInTurn
<1>5. \A type : None(up[u], type) <=> m.type # type /\ None(up'[u], type)
  <2> DEFINE s == up[u]
  <2> HIDE DEF s
  <2>1. s \in Seq(UpMessage) /\ s # <<>>
    BY <1>2 DEF s
  <2>2. \A type : None(s, type) <=> Head(s).type # type /\ None(Tail(s), type)
    BY <2>1, AfterHead
  <2> QED
    BY <1>2, <2>2 DEF s
<1>6. m.type = "UPDATE_ITEM" /\ ~m.delete =>
        \/ m.item \in user[u].items
        \/ ~None(up[u], "DB_RESULT")
  <2>1. PutUp(up[u], user[u].items)
    BY DEF Settling, AllStocked, Stocked
  <2>2. 1 \in DOMAIN up[u] /\ m = up[u][1]
    BY <1>2
  <2> HIDE DEF m
  <2> QED
    BY <2>1, <2>2 DEF PutUp, None
<1> HIDE DEF m
<1>7. CASE fsm # "DB_UPDATE"
  <2>1. Ignore \/ Uneventful \/ Execution
    BY <1>1, <1>2, <1>7, HandleKinds
  <2>2. ~Taken(fsm, users, v, up[v]) /\ ~Taken(fsm', users', v, up'[v])
    BY <1>1, <1>3, <1>7, <2>1, BeforeExecution
  <2>3. ASSUME Belongs(fsm', users', v) PROVE users'[v].items \subseteq user[v].items
    <3>1. Grows(u, m, v)
      BY <1>1, <1>2, <2>3, HandleGoods
    <3>2. Belongs(fsm, users, v) => users[v].items \subseteq user[v].items
      BY <1>4, <2>2 DEF Stocked
    <3>3. v = u => None(up[u], "DB_RESULT")
      BY <1>4, <1>7 DEF InTurn, Executing
    <3> QED
      BY <1>6, <3>1, <3>2, <3>3 DEF Grows
  <2> QED
    BY <2>2, <2>3 DEF GoodsKept
<1>8. CASE fsm = "DB_UPDATE" /\ m.type # "DB_RESULT"
  <2>1. Ignore
    BY <1>1, <1>2, <1>8, HandleKinds DEF Uneventful, Execution
  <2>2. fsm' = fsm /\ users' = users
    BY <2>1 DEF Ignore, Keep
  <2>3. None(up'[v], "DB_RESULT") <=> None(up[v], "DB_RESULT")
    BY <1>2, <1>5, <1>8
  <2>4. Taken(fsm', users', v, up'[v]) <=> Taken(fsm, users, v, up[v])
    BY <2>2, <2>3 DEF Taken
  <2> QED
    BY <1>4, <2>2, <2>4 DEF GoodsKept, Stocked
<1>9. CASE fsm = "DB_UPDATE" /\ m.type = "DB_RESULT"
  <2>1. u \in Members
    <3>1. InTurn(fsm, users, u, up[u], down[u])
      BY <1>1 DEF InOrder, AllInTurn
    <3> QED
      BY <1>2, <1>9, <3>1 DEF InTurn, Executing, Members
  <2>2. Report(u, m.info)
    BY <1>1, <1>2, <1>9, <2>1, HandleKinds
  <2> DEFINE us == [users EXCEPT ![u].dbInfo = {m.info}]
  <2>3. fsm' = "DB_UPDATE" /\ users' = us
    BY <2>2 DEF Report
  <2>4. /\ \A w \in DOMAIN users : users[w] \in TradeUser /\ Peer(users, w) \in DOMAIN users
    BY <1>1, <1>9, TwoTraders
  <2>5. /\ DOMAIN us = DOMAIN users
        /\ \A w \in DOMAIN users : us[w].items = users[w].items /\ us[w].ed = users[w].ed
        /\ \A w \in DOMAIN users : w # u => us[w].dbInfo = users[w].dbInfo
        /\ us[u].dbInfo = {m.info}
    BY <2>1, <2>4 DEF TradeUser, Members
  <2> HIDE DEF us
  <2>6. \A w \in DOMAIN users : Due(us, w) = Due(users, w)
    <3>1. \A w : Peer(us, w) = Peer(users, w)
      BY <2>5 DEF Peer
    <3> QED
      BY <2>4, <2>5, <3>1 DEF Due
  <2>7. Taken("DB_UPDATE", us, v, up'[v]) <=> Taken(fsm, users, v, up[v])
    <3>1. CASE v = u
      BY <1>2, <1>9, <2>1, <2>5, <3>1 DEF Taken, Executing, Members
    <3>2. CASE v # u
      BY <1>2, <1>9, <2>5, <3>2 DEF Taken, Executing
    <3> QED
      BY <3>1, <3>2
  <2>8. Taken(fsm, users, v, up[v]) => us[v].items = users[v].items /\ Due(us, v) = Due(users, v)
    BY <2>5, <2>6 DEF Taken, Executing
  <2>9. Belongs("DB_UPDATE", us, v) /\ ~Taken(fsm, users, v, up[v]) =>
          us[v].items \subseteq user[v].items
    BY <1>4, <1>9, <2>5 DEF Belongs, Stocked
  <2> QED
    BY <2>3, <2>7, <2>8, <2>9 DEF GoodsKept
<1> QED
  BY <1>7, <1>8, <1>9

\* Whatever the room does, all settles if each unit's goods and place do.
LEMMA RoomSettles ==
  ASSUME Safe, Settling, NEW acks, RoomStep(acks), UNCHANGED <<drifted, astray>>,
         \A v \in Units : GoodsKept(v),
         \A v \in Units : v \notin astray => Placed(fsm', users', v, user[v], up'[v], down'[v])
  PROVE  Settling'
<1>1. SysTypes /\ InOrder /\ AllAlive /\ NoneFailed
  BY DEF Safe, Settling
<1>2. user' = user /\ db' = db /\ drifted' = drifted /\ astray' = astray
  BY DEF RoomStep
<1>3. ASSUME NEW v \in Units
      PROVE  /\ Stocked(fsm', users', db.items, v, user[v].items, up'[v], down'[v], swaps')
             /\ v \notin drifted => Counted(fsm', users', db.ed[v], v, user[v], up'[v], swaps')
             /\ LockedFor(fsm', users', v, user[v], up'[v], down'[v])
  BY <1>1, RoomKeeps
<1>4. NoneFailed'
  BY <1>1, SwapsAfterRoom
<1> QED
  BY <1>1, <1>2, <1>3, <1>4
  DEF Settling, AllAlive, AllStocked, AllCounted, AllLocked, AllPlaced

LEMMA DeliverSettles ==
  ASSUME Safe, SysTypes', Settling, NEW u \in Units, Deliver(u)
  PROVE  Settling'
<1> DEFINE m == Head(up[u])
<1>1. SysTypes /\ DeathKnown /\ IndInv /\ AllAlive
  BY DEF Safe, Settling, SysTypes
<1>2. /\ up[u] \in Seq(UpMessage) /\ up[u] # <<>> /\ m \in UpMessage
      /\ m.type # "GS_DOWN" /\ Handle(u, m)
      /\ up'[u] = Tail(up[u]) /\ \A v \in Units : v # u => up'[v] = up[v]
      /\ \E acks : RoomStep(acks)
  BY <1>1, DeliverStep
<1>3. PICK acks : RoomStep(acks)
  BY <1>2
<1>4. ASSUME NEW v \in Units, v \notin astray
      PROVE  Placed(fsm', users', v, user[v], up'[v], down'[v])
  <2> DEFINE s == up[v]
             q == down[v]
             x == user[v]
  <2>1. Tells(u, m, v)
    BY <1>1, <1>2, HandleTells
  <2>2. PICK r \in Seq(DownMessage) :
              /\ down'[v] = q \o r
              /\ Has(r, EntryAcks) <=> Has(ForServer(sent'[v]), EntryAcks)
              /\ Has(r, Breaks) <=> Has(ForServer(sent'[v]), Breaks)
    BY <1>1, <1>3, ToldThen
  <2>3. /\ s \in Seq(UpMessage) /\ q \in Seq(DownMessage)
        /\ Placed(fsm, users, v, x, s, q)
    BY <1>1, <1>4 DEF SysTypes, GSTypes, Settling, AllPlaced
  <2>4. \/ up'[v] = s /\ (v = u => m.type \notin {"OPEN", "JOIN", "BREAK"})
        \/ s # <<>> /\ up'[v] = Tail(s) /\ (v = u => m = Head(s))
    BY <1>2
  <2> HIDE DEF s, q, x, m
  <2>5. Placed(fsm', users', v, x, up'[v], q \o r)
    BY <2>1, <2>2, <2>3, <2>4, RoomPlaces
  <2> QED
    BY <2>2, <2>5 DEF x
<1>5. \A v \in Units : GoodsKept(v)
  BY DeliverKeeps
<1>6. UNCHANGED <<drifted, astray>>
  BY DEF Deliver
<1> QED
  BY <1>3, <1>4, <1>5, <1>6, RoomSettles

LEMMA TickSettles ==
  ASSUME Safe, SysTypes', Settling, RoomTick
  PROVE  Settling'
<1>1. SysTypes /\ InOrder /\ IndInv /\ AllAlive
  BY DEF Safe, Settling, SysTypes
<1>2. RoomStep(Silence)
  BY TickStep
<1>3. Tick /\ up' = up /\ UNCHANGED <<drifted, astray>>
  BY DEF RoomTick, ghosts
<1>4. ASSUME NEW v \in Units PROVE GoodsKept(v)
  <2>1. Uneventful
    BY <1>1, <1>3, TickKinds
  <2>2. ~Taken(fsm, users, v, up[v]) /\ ~Taken(fsm', users', v, up'[v])
    BY <1>1, <1>2, <2>1, BeforeExecution DEF Uneventful
  <2>3. ~Belongs(fsm', users', v)
    BY <1>3 DEF Tick, CloseRoom, GiveUpWaiting, BreakTrade, StateTransition, Belongs
  <2> QED
    BY <2>2, <2>3 DEF GoodsKept
<1>5. ASSUME NEW v \in Units, v \notin astray
      PROVE  Placed(fsm', users', v, user[v], up'[v], down'[v])
  <2> DEFINE s == up[v]
             q == down[v]
             x == user[v]
             m == [type |-> "TICK"]
  <2>1. Tells(v, m, v)
    BY <1>3, TickTells
  <2>2. PICK r \in Seq(DownMessage) :
              /\ down'[v] = q \o r
              /\ Has(r, EntryAcks) <=> Has(ForServer(sent'[v]), EntryAcks)
              /\ Has(r, Breaks) <=> Has(ForServer(sent'[v]), Breaks)
    BY <1>1, <1>2, ToldThen
  <2>3. /\ s \in Seq(UpMessage) /\ q \in Seq(DownMessage)
        /\ Placed(fsm, users, v, x, s, q)
    BY <1>1, <1>5 DEF SysTypes, GSTypes, Settling, AllPlaced
  <2>4. up'[v] = s /\ m.type \notin {"OPEN", "JOIN", "BREAK"}
    BY <1>3
  <2> HIDE DEF s, q, x, m
  <2>5. Placed(fsm', users', v, x, up'[v], q \o r)
    BY <2>1, <2>2, <2>3, <2>4, RoomPlaces
  <2> QED
    BY <2>2, <2>5 DEF x
<1> QED
  BY <1>2, <1>3, <1>4, <1>5, RoomSettles

-----------------------------------------------------------------------------
(* The DB's steps leave everything owed on its way.                        *)

\* What is asked of the DB is not yet swapped, and is what each trader owns.
LEMMA CanBeSwapped ==
  ASSUME SysTypes, InOrder, AllStocked, NEW n \in DOMAIN swaps, swaps[n].status = "asked"
  PROVE  CanSwap(swaps[n].info) /\ ~Moved(swaps)
<1>1. Unanswered(swaps[n])
  BY DEF Unanswered
<1>2. /\ fsm = "DB_UPDATE" /\ DOMAIN swaps[n].info = DOMAIN users
      /\ \A v \in DOMAIN users : /\ swaps[n].info[v].out = users[v].items
                                 /\ Executing(fsm, users, v)
      /\ \A k \in DOMAIN swaps : k # n => ~Unanswered(swaps[k])
  BY <1>1, TheRequest
<1>3. ~Moved(swaps)
  BY <1>2 DEF Moved, Unanswered
<1>4. DOMAIN users \subseteq Units
  BY <1>2, TwoTraders DEF SysTypes
<1>5. \A v \in DOMAIN users : \A i \in users[v].items : db.items[i] = v
  BY <1>2, <1>3, <1>4 DEF AllStocked, Stocked
<1> QED
  BY <1>2, <1>3, <1>5 DEF CanSwap

LEMMA SwapSettles ==
  ASSUME Safe, SysTypes', Settling, NEW n \in DOMAIN swaps, Swap(n), ~upset'
  PROVE  Settling'
<1> DEFINE info == swaps[n].info
           own == db.items
<1>0. SysTypes /\ InOrder /\ AllAlive /\ AllStocked
  BY DEF Safe, Settling
<1>1. /\ fsm' = fsm /\ users' = users /\ swaps[n].status = "asked"
      /\ user' = user /\ up' = up /\ down' = down /\ drifted' = drifted /\ astray' = astray
  BY DEF Swap, Ignore, Keep, gsVars
<1>2. CanSwap(info) /\ ~Moved(swaps)
  BY <1>0, <1>1, CanBeSwapped
<1>3. swaps' = [swaps EXCEPT ![n].status = "done"] /\ db' = Swapped(info)
  <2>1. CASE upset' = (upset \/ CanSwap(info))
    BY <1>2, <2>1
  <2> QED
    BY <1>2, <2>1 DEF Swap
<1>4. Unanswered(swaps[n])
  BY <1>1 DEF Unanswered
<1>5. /\ info \in DBInfos /\ fsm = "DB_UPDATE" /\ DOMAIN info = DOMAIN users
      /\ \A v \in DOMAIN users : /\ info[v].out = users[v].items
                                 /\ Executing(fsm, users, v) /\ users[v].dbInfo # {}
  BY <1>0, <1>4, TheRequest
<1>6. \A v \in DOMAIN users : info[v] = Due(users, v)
  <2>1. AskedInTurn(fsm, users, trades, swaps[n])
    BY <1>0 DEF InOrder, SwapsInTurn
  <2> QED
    BY <1>4, <2>1 DEF AskedInTurn
<1>7. /\ DOMAIN swaps' = DOMAIN swaps /\ swaps'[n].status = "done"
      /\ \A k \in DOMAIN swaps : k # n => swaps'[k].status = swaps[k].status
      /\ \A k \in DOMAIN swaps : swaps'[k].info = swaps[k].info
  BY <1>0, <1>3, SwapStatus DEF SysTypes
<1>8. Moved(swaps') /\ NoneFailed'
  <2>1. Moved(swaps')
    BY <1>7 DEF Moved
  <2>2. \A k \in DOMAIN swaps : swaps[k].status # "failed"
    BY DEF Settling, NoneFailed
  <2> QED
    BY <1>7, <2>1, <2>2 DEF NoneFailed
<1>9. \A w \in DOMAIN info : \A i \in info[w].out :
        \A w2 \in DOMAIN info : i \in info[w2].out => w2 = w
  BY <1>2 DEF CanSwap
<1> HIDE DEF info, own
<1>10. ASSUME NEW v \in Units, NEW i \in Items, db'.items[i] = v
       PROVE  \/ i \in user[v].items
              \/ Coming(v, i, down[v], swaps')
  <2>1. CASE \E w \in DOMAIN info : i \in info[w].out
    <3>1. PICK w \in DOMAIN info : i \in info[w].out
      BY <2>1
    <3>2. (CHOOSE u \in DOMAIN info : i \in info[u].out) = w
      BY <1>9, <3>1
    <3>3. v = Partner(info, w)
      BY <1>3, <1>10, <2>1, <3>2 DEF Swapped
    <3>4. v \in DOMAIN info /\ Partner(info, v) = w
      BY <1>5, <3>1, <3>3, PairOf
    <3>5. swaps'[n].status = "done" /\ swaps'[n].info = info
      BY <1>7 DEF info
    <3> QED
      BY <1>7, <3>1, <3>4, <3>5 DEF Coming
  <2>2. CASE ~\E w \in DOMAIN info : i \in info[w].out
    <3>1. own[i] = v
      BY <1>3, <1>10, <2>2 DEF Swapped, own
    <3>2. \/ i \in user[v].items
          \/ Taken(fsm, users, v, up[v]) /\ i \in users[v].items
          \/ Coming(v, i, down[v], swaps)
      BY <1>0, <3>1 DEF AllStocked, Stocked, own
    <3>3. ~(Taken(fsm, users, v, up[v]) /\ i \in users[v].items)
      BY <1>5, <2>2 DEF Taken, Executing
    <3>4. Coming(v, i, down[v], swaps) => Coming(v, i, down[v], swaps')
      BY <1>2 DEF Coming, Moved
    <3> QED
      BY <3>2, <3>3, <3>4
  <2> QED
    BY <2>1, <2>2
<1>11. ASSUME NEW v \in Units
       PROVE  /\ Stocked(fsm, users, db'.items, v, user[v].items, up[v], down[v], swaps')
              /\ v \notin drifted => Counted(fsm, users, db'.ed[v], v, user[v], up[v], swaps')
  <2>1. /\ Stocked(fsm, users, own, v, user[v].items, up[v], down[v], swaps)
        /\ v \notin drifted => Counted(fsm, users, db.ed[v], v, user[v], up[v], swaps)
    BY DEF Settling, AllStocked, AllCounted, own
  <2>2. Stocked(fsm, users, db'.items, v, user[v].items, up[v], down[v], swaps')
    BY <1>8, <1>10, <2>1 DEF Stocked
  <2>3. Owed(fsm, users, v, up[v], swaps') = 0
    BY <1>8 DEF Owed
  <2>4. /\ user[v].init \in Int /\ db.ed[v] \in Int /\ Unwritten(user[v]) \in Int
        /\ v \in DOMAIN users => Due(users, v).change \in Int
    BY <1>0, <1>5, IntegerED
  <2>5. ASSUME v \notin drifted PROVE Counted(fsm, users, db'.ed[v], v, user[v], up[v], swaps')
    <3>1. user[v].init = db.ed[v] + Unwritten(user[v]) + Owed(fsm, users, v, up[v], swaps)
      BY <2>1, <2>5 DEF Counted
    <3>2. CASE v \in DOMAIN users
      <4>1. Owed(fsm, users, v, up[v], swaps) = Due(users, v).change
        BY <1>2, <1>5, <3>2 DEF Owed, Taken
      <4>2. db'.ed[v] = db.ed[v] + Due(users, v).change
        BY <1>3, <1>5, <1>6, <3>2 DEF Swapped, info
      <4> DEFINE c == Due(users, v).change
                 w == Unwritten(user[v])
      <4> HIDE DEF c, w
      <4>3. user[v].init = db'.ed[v] + w + 0
        BY <2>4, <3>1, <3>2, <4>1, <4>2 DEF c, w
      <4> QED
        BY <2>3, <4>3 DEF Counted, w
    <3>3. CASE v \notin DOMAIN users
      <4>1. Owed(fsm, users, v, up[v], swaps) = 0
        BY <3>3 DEF Owed, Taken, Executing
      <4>2. db'.ed[v] = db.ed[v]
        BY <1>3, <1>5, <3>3 DEF Swapped
      <4> QED
        BY <2>3, <3>1, <4>1, <4>2 DEF Counted
    <3> QED
      BY <3>2, <3>3
  <2> QED
    BY <2>2, <2>5
<1> QED
  BY <1>0, <1>1, <1>8, <1>11
  DEF Settling, AllAlive, AllStocked, AllCounted, AllLocked, AllPlaced

\* Who is told of the answer: each trader what it got, and that it is over.
LEMMA AnswerTells ==
  ASSUME SysTypes, InOrder, NEW n \in DOMAIN swaps, swaps[n].status = "done", Answer(n),
         NEW v \in Units
  PROVE  LET r == ForServer(sent'[v])
             info == swaps[n].info
         IN /\ ~Has(r, EntryAcks)
            /\ v \in DOMAIN users =>
                 /\ Has(r, Breaks)
                 /\ \E m \in Range(r) : /\ m.type = "COMPLETE_NOT"
                                        /\ m.info.in = info[Partner(info, v)].out
<1> DEFINE info == Crosswise(swaps[n].info)
           before == [w \in Units |-> IF w \in DOMAIN info \cap Members
                                      THEN <<[type |-> "COMPLETE_NOT", info |-> info[w]]>>
                                      ELSE <<>>]
           k == [type |-> "COMPLETE_NOT", info |-> info[v]]
<1>1. /\ swaps[n].info \in DBInfos /\ fsm = "DB_UPDATE"
      /\ DOMAIN swaps[n].info = DOMAIN users
  BY TheRequest DEF Unanswered
<1>2. /\ info \in DBInfos /\ DOMAIN info = DOMAIN users
      /\ v \in DOMAIN info => info[v].in = swaps[n].info[Partner(swaps[n].info, v)].out
  BY <1>1, CrosswiseTypes
<1>3. BreakTrade(users, Completed, before)
  BY <1>1 DEF Answer, DBUpdateTradeResultAck
<1> HIDE DEF info
<1>4. v \in DOMAIN info => k \in DownMessage
  <2>1. v \in DOMAIN info => info[v] \in DBInfo
    BY <1>2, PairOf
  <2> QED
    BY <2>1 DEF DownMessage, Message
<1>5. before[v] = IF v \in DOMAIN info THEN <<k>> ELSE <<>>
  BY <1>2 DEF Members
<1>6. k.type = "COMPLETE_NOT" /\ k.info = info[v]
  OBVIOUS
<1> HIDE DEF before, k
<1>7. LET r == ForServer(sent'[v])
      IN /\ ~Has(r, EntryAcks)
         /\ v \in DOMAIN users => Has(r, Breaks)
         /\ Range(before[v]) \subseteq Range(r)
  BY <1>3, <1>4, <1>5, <1>6, Farewell DEF Completed
<1>8. v \in DOMAIN info => k \in Range(before[v])
  BY <1>5 DEF Range
<1> QED
  BY <1>2, <1>6, <1>7, <1>8

LEMMA AnswerSettles ==
  ASSUME Safe, SysTypes', Settling, NEW n \in DOMAIN swaps, Answer(n)
  PROVE  Settling'
<1> DEFINE info == swaps[n].info
           own == db.items
<1>0. SysTypes /\ InOrder /\ AllAlive
  BY DEF Safe, Settling
<1>1. /\ user' = user /\ up' = up /\ db' = db /\ drifted' = drifted /\ astray' = astray
      /\ swaps[n].status = "done"
      /\ swaps' = [swaps EXCEPT ![n].status = "answered"]
      /\ \A v \in Units : down'[v] = down[v] \o ForServer(sent'[v])
  BY <1>0 DEF Answer, ghosts, Settling, NoneFailed, AllAlive
<1>2. Unanswered(swaps[n])
  BY <1>1 DEF Unanswered
<1>3. /\ info \in DBInfos /\ fsm = "DB_UPDATE" /\ DOMAIN info = DOMAIN users
      /\ \A v \in DOMAIN users : /\ info[v].out = users[v].items
                                 /\ Executing(fsm, users, v) /\ users[v].dbInfo # {}
      /\ \A k \in DOMAIN swaps : k # n => ~Unanswered(swaps[k])
  BY <1>0, <1>2, TheRequest
<1>4. fsm' = "CLOSE" /\ users' = users
  BY <1>3 DEF Answer, DBUpdateTradeResultAck, BreakTrade, StateTransition
<1>5. /\ DOMAIN swaps' = DOMAIN swaps /\ swaps'[n].status = "answered"
      /\ \A k \in DOMAIN swaps : k # n => swaps'[k].status = swaps[k].status
  BY <1>0, <1>1, SwapStatus DEF SysTypes
<1>6. Moved(swaps) /\ NoneFailed'
  <2>1. \A k \in DOMAIN swaps : swaps[k].status # "failed"
    BY DEF Settling, NoneFailed
  <2> QED
    BY <1>1, <1>5, <2>1 DEF Moved, NoneFailed
<1>7. HandedOver(own, swaps[n])
  BY <1>0 DEF InOrder, SwapsInTurn
<1> HIDE DEF info, own
<1>8. ASSUME NEW v \in Units
      PROVE  /\ Stocked("CLOSE", users, own, v, user[v].items, up[v], down'[v], swaps')
             /\ v \notin drifted => Counted("CLOSE", users, db.ed[v], v, user[v], up[v], swaps')
             /\ LockedFor("CLOSE", users, v, user[v], up[v], down'[v])
             /\ v \notin astray => Placed("CLOSE", users, v, user[v], up[v], down'[v])
  <2> DEFINE q == down[v]
             r == ForServer(sent'[v])
             s == up[v]
             x == user[v]
             m == [type |-> "TICK"]
  <2>1. /\ Stocked(fsm, users, own, v, x.items, s, q, swaps)
        /\ v \notin drifted => Counted(fsm, users, db.ed[v], v, x, s, swaps)
        /\ LockedFor(fsm, users, v, x, s, q)
        /\ v \notin astray => Placed(fsm, users, v, x, s, q)
    BY DEF Settling, AllStocked, AllCounted, AllLocked, AllPlaced, own
  <2>2. s \in Seq(UpMessage) /\ q \in Seq(DownMessage) /\ r \in Seq(DownMessage)
    <3>1. sent' \in Notices
      BY TypeOKNext DEF SysTypes, IndInv
    <3> QED
      BY <1>0, <3>1, PlainFromRoom DEF SysTypes, GSTypes
  <2>3. down'[v] = q \o r
    BY <1>1
  <2>4. /\ ~Has(r, EntryAcks)
        /\ v \in DOMAIN users => Has(r, Breaks)
        /\ v \in DOMAIN users => \E k \in Range(r) : /\ k.type = "COMPLETE_NOT"
                                                     /\ k.info.in = info[Partner(info, v)].out
    BY <1>0, <1>1, AnswerTells DEF info
  <2>5. Tells(v, m, v)
    BY <1>4, <2>4 DEF Tells, Belongs
  <2>6. m.type \notin {"OPEN", "JOIN", "BREAK"}
    OBVIOUS
  <2>7. r = ForServer(sent'[v])
    OBVIOUS
  <2> HIDE DEF q, r, s, x, m
  <2>8. v \notin astray => Placed(fsm', users', v, x, s, q \o r)
    BY <2>1, <2>2, <2>5, <2>6, <2>7, RoomPlaces
  <2>9. /\ Range(q \o r) = Range(q) \cup Range(r)
        /\ None(q \o r, "COMPLETE_NOT") <=> None(q, "COMPLETE_NOT") /\ None(r, "COMPLETE_NOT")
    BY <2>2, AfterConcat
  <2>10. v \in DOMAIN users => ~None(r, "COMPLETE_NOT")
    BY <2>4 DEF None, Range
  <2>11. LockedFor("CLOSE", users, v, x, s, q \o r)
    BY <2>1, <2>9, <2>10 DEF LockedFor, Taken, Executing
  <2>12. v \notin drifted => Counted("CLOSE", users, db.ed[v], v, x, s, swaps')
    <3>1. Owed(fsm, users, v, s, swaps) = 0
      BY <1>6 DEF Owed
    <3>2. Owed("CLOSE", users, v, s, swaps') = 0
      BY DEF Owed, Taken, Executing
    <3> QED
      BY <2>1, <3>1, <3>2 DEF Counted
  <2>13. ASSUME NEW i \in Items, own[i] = v PROVE i \in x.items \/ Coming(v, i, q \o r, swaps')
    <3>1. CASE Taken(fsm, users, v, s) /\ i \in users[v].items
      <4>1. v \in DOMAIN info /\ i \in info[v].out
        BY <1>3, <3>1 DEF Taken, Executing
      <4>2. own[i] = Partner(info, v)
        BY <1>1, <1>7, <4>1 DEF HandedOver, info
      <4> QED
        BY <1>3, <2>13, <4>1, <4>2, PairOf
    <3>2. CASE \E k \in Range(q) : k.type = "COMPLETE_NOT" /\ i \in k.info.in
      BY <2>9, <3>2 DEF Coming
    <3>3. CASE \E k \in DOMAIN swaps : /\ swaps[k].status = "done" /\ v \in DOMAIN swaps[k].info
                                       /\ i \in swaps[k].info[Partner(swaps[k].info, v)].out
      <4>1. PICK k \in DOMAIN swaps : /\ swaps[k].status = "done" /\ v \in DOMAIN swaps[k].info
                                      /\ i \in swaps[k].info[Partner(swaps[k].info, v)].out
        BY <3>3
      <4>2. k = n
        BY <1>3, <4>1 DEF Unanswered
      <4>3. v \in DOMAIN users /\ i \in info[Partner(info, v)].out
        BY <1>3, <4>1, <4>2 DEF info
      <4> QED
        BY <2>4, <2>9, <4>3 DEF Coming
    <3> QED
      BY <2>1, <2>13, <3>1, <3>2, <3>3 DEF Stocked, Coming
  <2>14. Stocked("CLOSE", users, own, v, x.items, s, q \o r, swaps')
    <3>1. PutUp(s, x.items)
      BY <2>1 DEF Stocked
    <3> QED
      BY <2>13, <3>1 DEF Stocked, Belongs, Executing
  <2> QED
    BY <1>4, <2>3, <2>8, <2>11, <2>12, <2>14 DEF s, x
<1>9. \A v \in Units : OneWrite(user[v])
  BY DEF Settling, AllCounted
<1> QED
  BY <1>0, <1>1, <1>4, <1>6, <1>8, <1>9
  DEF Settling, AllAlive, AllStocked, AllCounted, AllLocked, AllPlaced, own

-----------------------------------------------------------------------------
(* All settles.                                                            *)

LEMMA SettledInit == SysInit => Settled
<1> SUFFICES ASSUME SysInit PROVE Settled
  OBVIOUS
<1>1. Safe
  BY SafeInit
<1>2. /\ fsm = "INIT" /\ swaps = <<>> /\ db.items = Owner /\ db.ed = Wealth
      /\ \A u \in Units : up[u] = <<>> /\ down[u] = <<>>
  BY DEF SysInit, Init
<1>3. \A u \in Units :
        /\ user[u].items = {i \in Items : Owner[i] = u} /\ user[u].init = Wealth[u]
        /\ user[u].alive /\ ~user[u].trading /\ ~user[u].locked /\ user[u].writes = {}
  BY DEF SysInit, GS!LoggedIn
<1>4. ASSUME NEW u \in Units
      PROVE  /\ Stocked(fsm, users, db.items, u, user[u].items, up[u], down[u], swaps)
             /\ OneWrite(user[u])
             /\ Counted(fsm, users, db.ed[u], u, user[u], up[u], swaps)
             /\ LockedFor(fsm, users, u, user[u], up[u], down[u])
             /\ Placed(fsm, users, u, user[u], up[u], down[u])
  <2>1. ~Belongs(fsm, users, u) /\ ~Executing(fsm, users, u) /\ ~Taken(fsm, users, u, up[u])
    BY <1>2 DEF Belongs, Executing, Taken
  <2>2. Stocked(fsm, users, db.items, u, user[u].items, up[u], down[u], swaps)
    BY <1>2, <1>3, <2>1 DEF Stocked, PutUp
  <2>3. Counted(fsm, users, db.ed[u], u, user[u], up[u], swaps)
    <3>1. Wealth[u] \in Int
      BY SystemAssumption
    <3> QED
      BY <1>2, <1>3, <2>1, <3>1 DEF Counted, Unwritten, Owed
  <2>4. Placed(fsm, users, u, user[u], up[u], down[u])
    BY <1>2, <1>3 DEF Placed, Enters
  <2> QED
    BY <1>3, <2>2, <2>3, <2>4 DEF OneWrite, LockedFor
<1>5. AllAlive /\ NoneFailed
  BY <1>2, <1>3 DEF AllAlive, NoneFailed
<1> QED
  BY <1>1, <1>4, <1>5
  DEF Settled, Settling, AllStocked, AllCounted, AllLocked, AllPlaced

LEMMA SettledStep == Settled /\ [SysNext]_sysVars => Settled'
<1> SUFFICES ASSUME Settled, [SysNext]_sysVars, ~upset' PROVE Settling'
  BY SafeStep DEF Settled
<1>1. Safe /\ SysTypes /\ SysTypes'
  BY SysStepTypes DEF Settled, Safe
<1>2. ASSUME NEW u \in Units, GSAction(u) PROVE Settling'
  BY <1>1, <1>2, GSSettles
<1>3. ASSUME upset' = upset PROVE Settling
  BY <1>3 DEF Settled
<1>4. ASSUME NEW u \in Units, Deliver(u) PROVE Settling'
  BY <1>1, <1>3, <1>4, DeliverSettles DEF Deliver
<1>5. ASSUME RoomTick PROVE Settling'
  BY <1>1, <1>3, <1>5, TickSettles DEF RoomTick, ghosts
<1>6. ASSUME UNCHANGED <<fsm, users, gsVars, db, swaps, ghosts>> PROVE Settling'
  BY <1>3, <1>6
  DEF gsVars, ghosts, Settling, AllAlive, AllStocked, AllCounted, AllLocked, AllPlaced, NoneFailed
<1>7. ASSUME RoomTimeout PROVE Settling'
  BY <1>6, <1>7 DEF RoomTimeout, WaitTimeout
<1>8. ASSUME NEW n \in DOMAIN swaps, Swap(n) PROVE Settling'
  <2>1. ~upset
    <3>1. upset' = upset \/ upset' = (upset \/ CanSwap(swaps[n].info))
      BY <1>8 DEF Swap
    <3> QED
      BY <3>1
  <2> QED
    BY <1>1, <1>8, <2>1, SwapSettles DEF Settled
<1>9. ASSUME NEW n \in DOMAIN swaps, Answer(n) PROVE Settling'
  BY <1>1, <1>3, <1>9, AnswerSettles DEF Answer, ghosts
<1>10. ASSUME UNCHANGED sysVars PROVE Settling'
  BY <1>6, <1>10 DEF sysVars, vars
<1> QED
  BY <1>2, <1>4, <1>5, <1>7, <1>8, <1>9, <1>10 DEF SysNext, GSAction

\* The inductive invariant of the last property: unless something of no
\* remedy has happened, everything a unit is owed is on its way to it.
THEOREM WhatIsOwedComes == SysSpec => []Settled
  BY SettledInit, SettledStep, PTL DEF SysSpec

\* Units, items, amounts and trades of any number: when nothing is on its way
\* and the room is free, each unit has exactly the items that are its own in
\* the DB, its ED is that of the DB unless a trade was carried out over
\* unwritten ED, and nobody is left in a trade (the astray apart) or locked
\* (GSUserTrade.cpp:1011, 1122), unless something of no remedy has happened.
THEOREM SettledWhenQuiet == SysSpec => []QuietMeansSettled
<1>1. ASSUME Settled PROVE QuietMeansSettled
  <2> SUFFICES ASSUME Quiet, ~upset, NEW u \in Units
               PROVE  /\ user[u].items = {i \in Items : db.items[i] = u}
                      /\ u \notin drifted => user[u].init = db.ed[u]
                      /\ user[u].trading => u \in astray
                      /\ ~user[u].locked
    BY DEF QuietMeansSettled
  <2>1. /\ Stocked(fsm, users, db.items, u, user[u].items, up[u], down[u], swaps)
        /\ u \notin drifted => Counted(fsm, users, db.ed[u], u, user[u], up[u], swaps)
        /\ LockedFor(fsm, users, u, user[u], up[u], down[u])
        /\ u \notin astray => Placed(fsm, users, u, user[u], up[u], down[u])
        /\ SysTypes /\ Holds(fsm, users, db.items, u, user[u].items, up[u], down[u])
    BY <1>1
    DEF Settled, Settling, Safe, InOrder, AllHold, AllStocked, AllCounted, AllLocked, AllPlaced
  <2>2. /\ up[u] = <<>> /\ down[u] = <<>> /\ user[u].writes = {}
        /\ ~Belongs(fsm, users, u) /\ ~Taken(fsm, users, u, up[u])
    BY DEF Quiet, Belongs, Taken, Executing
  <2>3. \A i : ~Coming(u, i, down[u], swaps)
    BY <2>2 DEF Quiet, Coming, Range
  <2>4. user[u].items \subseteq Items /\ \A i \in user[u].items : db.items[i] = u
    BY <2>1 DEF SysTypes, GSTypes, GS!User, Holds
  <2>5. user[u].items = {i \in Items : db.items[i] = u}
    BY <2>1, <2>2, <2>3, <2>4 DEF Stocked
  <2>6. u \notin drifted => user[u].init = db.ed[u]
    <3>1. db.ed[u] \in Int
      BY <2>1, IntegerED
    <3> QED
      BY <2>1, <2>2, <3>1 DEF Counted, Unwritten, Owed
  <2>7. user[u].trading => u \in astray
    BY <2>1, <2>2 DEF Placed, Has
  <2>8. ~user[u].locked
    BY <2>1, <2>2 DEF LockedFor, None
  <2> QED
    BY <2>5, <2>6, <2>7, <2>8
<1> QED
  BY <1>1, WhatIsOwedComes, PTL

=============================================================================
