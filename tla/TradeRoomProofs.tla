--------------------------- MODULE TradeRoomProofs ---------------------------
(***************************************************************************)
(* Proofs about TradeRoom, for any units, items, amounts and server groups *)
(* and whatever events the room is sent.                                   *)
(*                                                                         *)
(* Every handler ends in Keep, BreakTrade, or a transition forward that    *)
(* replaces the member map by us.  So the proof that a step preserves      *)
(* IndInv is made once for the room (KeepInv, BreakInv), from facts on us  *)
(* and on the notices that each handler then establishes.                  *)
(*                                                                         *)
(* From IndInv follow the invariants, then the action properties and the   *)
(* refinement of TradeDeal: each handler is shown to be one of a few kinds *)
(* of steps on goods and offers, and each kind to be a step of the deal.   *)
(***************************************************************************)
EXTENDS TradeRoom, FiniteSetTheorems, SequenceTheorems, TLAPS

-----------------------------------------------------------------------------
(* The member map.                                                         *)

UserMap == UNION {[S -> TradeUser] : S \in SUBSET Units}

LEMMA UserMapDomain ==
  ASSUME NEW us \in UserMap
  PROVE  /\ us \in [DOMAIN us -> TradeUser]
         /\ DOMAIN us \subseteq Units
         /\ IsFiniteSet(DOMAIN us)
         /\ NumMember(us) \in Nat
<1>1. PICK S \in SUBSET Units : us \in [S -> TradeUser]
  BY DEF UserMap
<1>2. IsFiniteSet(S)
  BY UnitsAssumption, FS_Subset
<1> QED
  BY <1>1, <1>2, FS_CardinalityType DEF NumMember

LEMMA TypeOKUsers == TypeOK <=> /\ fsm \in FsmStates
                                /\ users \in UserMap
                                /\ waitOver \in BOOLEAN
                                /\ sent \in [Units -> Seq(Message)]
                                /\ sentDB \in SUBSET [Members -> DBInfo]
  BY DEF TypeOK, UserMap, Members

\* GetOtherUser: in a room of two, the other member is the only other one.
LEMMA OtherMember ==
  ASSUME users \in UserMap, NumMember(users) = 2, NEW u \in Members
  PROVE  Other(u) \in Members /\ Other(u) # u /\ Members = {u, Other(u)}
<1>1. IsFiniteSet(Members) /\ Cardinality(Members) = 2
  BY UserMapDomain DEF NumMember, Members
<1>2. IsFiniteSet(Members \ {u}) /\ Cardinality(Members \ {u}) = 1
  BY <1>1, FS_RemoveElement
<1>3. PICK x : Members \ {u} = {x}
  BY <1>2, FS_Singleton
<1>4. Other(u) \in Members /\ Other(u) # u
  BY <1>3 DEF Other
<1> QED
  BY <1>3, <1>4

LEMMA SubMap ==
  ASSUME NEW us \in UserMap, NEW leavers
  PROVE  /\ Without(us, leavers) \in UserMap
         /\ DOMAIN Without(us, leavers) \subseteq DOMAIN us
         /\ NumMember(Without(us, leavers)) <= NumMember(us)
         /\ \A v \in DOMAIN Without(us, leavers) : Without(us, leavers)[v] = us[v]
         /\ NumMember(Without(us, leavers)) = NumMember(us)
              => Without(us, leavers) = us
<1> DEFINE w == Without(us, leavers)
<1>1. /\ us \in [DOMAIN us -> TradeUser]
      /\ DOMAIN us \subseteq Units
      /\ IsFiniteSet(DOMAIN us)
  BY UserMapDomain
<1>2. DOMAIN w = DOMAIN us \ leavers /\ \A v \in DOMAIN w : w[v] = us[v]
  BY DEF Without
<1>3. w \in [DOMAIN us \ leavers -> TradeUser]
  BY <1>1 DEF Without
<1>4. w \in UserMap
  BY <1>1, <1>3 DEF UserMap
<1>5. /\ Cardinality(DOMAIN w) <= Cardinality(DOMAIN us)
      /\ Cardinality(DOMAIN w) = Cardinality(DOMAIN us) => DOMAIN w = DOMAIN us
  BY <1>1, <1>2, FS_Subset
<1>6. DOMAIN w = DOMAIN us => w = us
  BY <1>1, <1>2, <1>3
<1> QED
  BY <1>2, <1>4, <1>5, <1>6 DEF NumMember

LEMMA EnteredMap ==
  ASSUME NEW us \in UserMap, NumMember(us) < 2, NEW u \in Units,
         u \notin DOMAIN us, NEW gs \in Servers, NEW wallet \in Wallets
  PROVE  /\ Entered(us, u, gs, wallet) \in UserMap
         /\ DOMAIN Entered(us, u, gs, wallet) = DOMAIN us \cup {u}
         /\ NumMember(Entered(us, u, gs, wallet)) <= 2
<1>1. NewUser(gs, wallet) \in TradeUser
  BY AmountAssumption DEF NewUser, TradeUser
<1>2. /\ us \in [DOMAIN us -> TradeUser]
      /\ DOMAIN us \subseteq Units
      /\ IsFiniteSet(DOMAIN us)
      /\ NumMember(us) \in Nat
  BY UserMapDomain
<1>3. Entered(us, u, gs, wallet) \in [DOMAIN us \cup {u} -> TradeUser]
  BY <1>1, <1>2 DEF Entered
<1>4. Cardinality(DOMAIN us \cup {u}) = Cardinality(DOMAIN us) + 1
  BY <1>2, FS_AddElement
<1> QED
  BY <1>2, <1>3, <1>4 DEF UserMap, NumMember

LEMMA NoUsersMap == NoUsers \in UserMap /\ DOMAIN NoUsers = {} /\ NumMember(NoUsers) = 0
<1>1. NoUsers \in [{} -> TradeUser] /\ DOMAIN NoUsers = {}
  BY DEF NoUsers
<1> QED
  BY <1>1, FS_EmptySet DEF UserMap, NumMember

-----------------------------------------------------------------------------
(* What is sent.                                                           *)

Notices == [Units -> Seq(Message)]

LEMMA NoticeTypes ==
  /\ Silence \in Notices
  /\ \A u \in Units, m \in Message : To(u, m) \in Notices
  /\ \A us : \A m \in Message : Broadcast(us, m) \in Notices
  BY DEF Silence, To, Broadcast, Notices

LEMMA ConcatElement ==
  ASSUME NEW S, NEW s \in Seq(S), NEW t \in Seq(S), NEW n \in DOMAIN (s \o t)
  PROVE  \/ n \in DOMAIN s /\ (s \o t)[n] = s[n]
         \/ n - Len(s) \in DOMAIN t /\ (s \o t)[n] = t[n - Len(s)]
<1>1. n \in 1..Len(s) + Len(t) /\ Len(s) \in Nat /\ Len(t) \in Nat
  BY ConcatProperties
<1>2. CASE n <= Len(s)
  BY <1>1, <1>2, ConcatProperties
<1>3. CASE n > Len(s)
  <2>1. n - Len(s) \in 1..Len(t)
    BY <1>1, <1>3
  <2> QED
    BY <1>1, <1>3, <2>1, ConcatProperties
<1> QED
  BY <1>1, <1>2, <1>3

LEMMA ThenType ==
  ASSUME NEW f \in Notices, NEW g \in Notices
  PROVE  Then(f, g) \in Notices
<1>1. \A v \in Units : f[v] \o g[v] \in Seq(Message)
  BY ConcatProperties DEF Notices
<1> QED
  BY <1>1 DEF Then, Notices

LEMMA PlainTypes ==
  /\ \A type \in {"OPEN_ACK", "ACCEPT_JOIN", "JOIN_ACK", "BREAK_ACK"} :
       Plain(type) \in Message
  /\ \A reason \in Nat : BreakNot(reason) \in Message
  BY DEF Plain, BreakNot, Message

LEMMA MirroredType ==
  ASSUME users \in UserMap, NEW us \in UserMap, DOMAIN us = Members,
         NumMember(users) = 2, NEW type \in {"CONFIRM_REQ", "CONFIRM_NOT"}
  PROVE  Mirrored(type, us) \in Notices
<1>1. ASSUME NEW v \in DOMAIN us
      PROVE  GoodsOf(us, v) \in Goods /\ GoodsOf(us, Other(v)) \in Goods
  <2>1. Other(v) \in DOMAIN us
    BY <1>1, OtherMember
  <2>2. us[v] \in TradeUser /\ us[Other(v)] \in TradeUser
    BY <1>1, <2>1, UserMapDomain
  <2> QED
    BY <2>2 DEF GoodsOf, Goods, TradeUser
<1>2. ASSUME NEW v \in DOMAIN us
      PROVE  [type |-> type, out |-> GoodsOf(us, v), in |-> GoodsOf(us, Other(v))]
               \in Message
  BY <1>1, <1>2 DEF Message
<1> QED
  BY <1>2 DEF Mirrored, Notices

-----------------------------------------------------------------------------
(* The invariant as a predicate on a state of the machine and a member map *)

Sound(f, us) ==
  /\ NumMember(us) <= 2
  /\ \A u, v \in DOMAIN us : ServerGroup[u] = ServerGroup[v]
  /\ \A u \in DOMAIN us :
       /\ f = "WAIT" => ~us[u].approval /\ ~us[u].confirm
       /\ f \in {"WAIT", "CONFIRM"} => us[u].dbInfo = {}
  /\ f \in {"CONFIRM", "DB_UPDATE"} => AllOffered(us)
  /\ f = "CONFIRM" /\ NumMember(us) = 2 => ~NothingToTrade(us)
  /\ f = "DB_UPDATE" =>
       NumMember(us) = 2 /\ AllConfirmed(us) /\ ~NothingToTrade(us)

LEMMA IndInvIsSound == IndInv <=> TypeOK /\ Sound(fsm, users)
  BY DEF IndInv, Sound, AtMostTwo, OneServerGroup, NoFlagBeforeItsTime,
         OffersStand, SomethingAtStake, ReadyToSwap, SameServerGroup, Members

LEMMA IndInvIsSoundNext == IndInv' <=> TypeOK' /\ Sound(fsm', users')
  BY DEF IndInv, Sound, AtMostTwo, OneServerGroup, NoFlagBeforeItsTime,
         OffersStand, SomethingAtStake, ReadyToSwap, SameServerGroup, Members,
         AllOffered, AllConfirmed, NothingToTrade, NumMember

LEMMA TypeOKNext == TypeOK' <=> /\ fsm' \in FsmStates
                                /\ users' \in UserMap
                                /\ waitOver' \in BOOLEAN
                                /\ sent' \in Notices
                                /\ sentDB' \in SUBSET [DOMAIN users' -> DBInfo]
  BY DEF TypeOK, UserMap, Members, Notices

\* A step that sends nothing to the DB.
LEMMA StepInv ==
  ASSUME IndInv, NEW us \in UserMap, NEW n \in Notices,
         users' = us, sent' = n, sentDB' = {}, waitOver' \in BOOLEAN,
         fsm' \in FsmStates, Sound(fsm', us)
  PROVE  IndInv'
  BY TypeOKNext, IndInvIsSoundNext

LEMMA KeepInv ==
  ASSUME IndInv, NEW us \in UserMap, NEW n \in Notices, Keep(us, n), Sound(fsm, us)
  PROVE  IndInv'
  BY StepInv DEF Keep, IndInv, TypeOK

\* Closing is safe whatever flags are set: the promises are about open rooms.
LEMMA BreakInv ==
  ASSUME IndInv, NEW us \in UserMap, DOMAIN us \subseteq Members,
         NEW reason \in Nat, NEW before \in Notices,
         BreakTrade(us, reason, before)
  PROVE  IndInv'
<1>1. fsm' \in {"INIT", "CLOSE"}
  BY DEF BreakTrade, StateTransition, IndInv, TypeOK, FsmStates
<1>2. NumMember(us) <= 2
  <2>1. IsFiniteSet(Members) /\ NumMember(users) \in Nat /\ NumMember(users) <= 2
    BY TypeOKUsers, UserMapDomain DEF IndInv, AtMostTwo, Members
  <2> QED
    BY <2>1, UserMapDomain, FS_Subset DEF NumMember, Members
<1>3. \A u, v \in DOMAIN us : ServerGroup[u] = ServerGroup[v]
  BY DEF IndInv, OneServerGroup
<1>4. Sound(fsm', us)
  BY <1>1, <1>2, <1>3 DEF Sound
<1>5. Broadcast(us, BreakNot(reason)) \in Notices
  BY PlainTypes, NoticeTypes
<1>6. Then(before, Broadcast(us, BreakNot(reason))) \in Notices
  BY <1>5, ThenType
<1> QED
  BY <1>1, <1>4, <1>6, StepInv DEF BreakTrade, FsmStates, IndInv, TypeOK

LEMMA IgnoreInv == IndInv /\ Ignore => IndInv'
  BY KeepInv, TypeOKUsers, IndInvIsSound, NoticeTypes DEF Ignore, IndInv

\* A change of a member's own fields: same members, the rest untouched.
LEMMA ChangedMap ==
  ASSUME TypeOK, NEW us, us \in [Members -> TradeUser]
  PROVE  us \in UserMap /\ DOMAIN us = Members /\ NumMember(us) = NumMember(users)
  BY DEF TypeOK, UserMap, NumMember, Members

-----------------------------------------------------------------------------
(* Each handler preserves the invariant.                                   *)

LEMMA OpenInv ==
  ASSUME IndInv, NEW u \in Units, NEW gs \in Servers, NEW wallet \in Wallets,
         NEW peer \in Units, OpenTradeReq(u, gs, wallet, peer)
  PROVE  IndInv'
<1>1. CASE Ignore
  BY <1>1, IgnoreInv
<1>2. CASE fsm = "INIT" /\ ~Ignore
  <2> DEFINE us == Entered(NoUsers, u, gs, wallet)
             n == Then(To(u, Plain("OPEN_ACK")), To(peer, Plain("ACCEPT_JOIN")))
  <2>1. us \in UserMap /\ DOMAIN us = {u} /\ NumMember(us) <= 2
    <3>1. /\ NoUsers \in UserMap /\ DOMAIN NoUsers = {}
          /\ NumMember(NoUsers) < 2 /\ u \notin DOMAIN NoUsers
      BY NoUsersMap
    <3>2. /\ us \in UserMap /\ DOMAIN us = DOMAIN NoUsers \cup {u}
          /\ NumMember(us) <= 2
      BY ZenonT(60), <3>1, EnteredMap
    <3> HIDE DEF us
    <3> QED
      BY <3>1, <3>2
  <2>2. us[u] = NewUser(gs, wallet)
    BY DEF Entered
  <2>3. n \in Notices
    <3>1. To(u, Plain("OPEN_ACK")) \in Notices /\ To(peer, Plain("ACCEPT_JOIN")) \in Notices
      BY PlainTypes, NoticeTypes
    <3> QED
      BY <3>1, ThenType
  <2>4. fsm' = "WAIT"
    BY <1>2 DEF OpenTradeReq, StateTransition
  <2>5. Sound("WAIT", us)
    BY <2>1, <2>2 DEF Sound, NewUser
  <2>6. users' = us /\ sent' = n /\ sentDB' = {} /\ waitOver' = FALSE
    BY <1>2 DEF OpenTradeReq
  <2> HIDE DEF us, n
  <2> QED
    BY <2>1, <2>3, <2>4, <2>5, <2>6, StepInv DEF FsmStates
<1> QED
  BY <1>1, <1>2 DEF OpenTradeReq

LEMMA JoinInv ==
  ASSUME IndInv, NEW u \in Units, NEW gs \in Servers, NEW wallet \in Wallets,
         JoinTradeReq(u, gs, wallet)
  PROVE  IndInv'
<1> DEFINE us == Entered(users, u, gs, wallet)
<1>0. users \in UserMap /\ DOMAIN users = Members
  BY TypeOKUsers DEF IndInv, Members
<1>1. CASE Ignore
  BY <1>1, IgnoreInv
<1>2. CASE /\ fsm = "WAIT" /\ SameServerGroup(u) /\ CanEnter(u)
           /\ Keep(us, To(u, Plain("JOIN_ACK")))
  <2>1. us \in UserMap /\ DOMAIN us = Members \cup {u} /\ NumMember(us) <= 2
    BY <1>0, <1>2, EnteredMap DEF CanEnter
  <2>2. us[u] = NewUser(gs, wallet) /\ \A v \in Members : v # u => us[v] = users[v]
    BY <1>0 DEF Entered
  <2>3. \A v, w \in DOMAIN us : ServerGroup[v] = ServerGroup[w]
    BY <1>2, <2>1 DEF SameServerGroup, IndInv, OneServerGroup
  <2>4. Sound("WAIT", us)
    BY <1>2, <2>1, <2>2, <2>3 DEF Sound, NewUser, IndInv, NoFlagBeforeItsTime
  <2>5. To(u, Plain("JOIN_ACK")) \in Notices
    BY PlainTypes, NoticeTypes
  <2> HIDE DEF us
  <2> QED
    BY <1>2, <2>1, <2>4, <2>5, KeepInv
<1>3. CASE BreakTrade(users, JoinFailed, Silence)
  BY <1>0, <1>3, BreakInv, NoticeTypes DEF JoinFailed
<1> QED
  BY <1>1, <1>2, <1>3 DEF JoinTradeReq, MayJoin

LEMMA LeaveInv ==
  ASSUME IndInv, NEW u \in Units, NEW reason \in Reasons, BreakTradeReq(u, reason)
  PROVE  IndInv'
<1> DEFINE us == Without(users, {u})
<1>0. users \in UserMap /\ DOMAIN users = Members
  BY TypeOKUsers DEF IndInv, Members
<1>1. /\ us \in UserMap /\ DOMAIN us \subseteq Members
      /\ NumMember(us) <= NumMember(users)
      /\ \A v \in DOMAIN us : us[v] = users[v]
      /\ NumMember(us) = NumMember(users) => us = users
  BY <1>0, SubMap
<1>2. CASE Ignore
  BY <1>2, IgnoreInv
<1>3. CASE fsm \in {"WAIT", "CONFIRM"} /\ Keep(us, Silence)
  <2>1. NumMember(us) \in Nat /\ NumMember(users) \in Nat /\ NumMember(users) <= 2
    BY <1>0, <1>1, UserMapDomain DEF IndInv, AtMostTwo
  <2>2. Sound(fsm, users)
    BY IndInvIsSound
  <2>3. Sound(fsm, us)
    <3>1. NumMember(us) <= 2 /\ (NumMember(us) = 2 => us = users)
      BY <1>1, <2>1
    <3> HIDE DEF us
    <3> QED
      BY <1>0, <1>1, <1>3, <2>2, <3>1 DEF Sound, AllOffered
  <2> HIDE DEF us
  <2> QED
    BY <1>1, <1>3, <2>3, KeepInv, NoticeTypes
<1>4. CASE BreakTrade(us, reason, To(u, Plain("BREAK_ACK")))
  <2>1. To(u, Plain("BREAK_ACK")) \in Notices /\ reason \in Nat
    BY PlainTypes, NoticeTypes, ReasonAssumption
  <2> HIDE DEF us
  <2> QED
    BY <1>1, <1>4, <2>1, BreakInv
<1> QED
  BY <1>2, <1>3, <1>4 DEF BreakTradeReq, MayLeave

LEMMA CheckInvalidUserInv ==
  ASSUME IndInv, NEW gs, CheckInvalidUser(gs)
  PROVE  IndInv'
<1> DEFINE us == Without(users, {u \in Members : users[u].gs = gs})
<1>1. CASE Ignore
  BY <1>1, IgnoreInv
<1>2. CASE BreakTrade(us, Cancelled, Silence)
  <2>1. us \in UserMap /\ DOMAIN us \subseteq Members
    BY SubMap, TypeOKUsers DEF IndInv, Members
  <2> HIDE DEF us
  <2> QED
    BY <1>2, <2>1, BreakInv, NoticeTypes DEF Cancelled
<1> QED
  BY <1>1, <1>2 DEF CheckInvalidUser

\* A change of u's goods: u's items and ED, and the partner's offer.
LEMMA UpdatedFields ==
  ASSUME users \in [Members -> TradeUser], NEW u \in Members,
         Other(u) \in Members, Other(u) # u,
         NEW items \in SUBSET Items, NEW ed \in EDs
  PROVE  /\ Updated(u, items, ed) \in [Members -> TradeUser]
         /\ Updated(u, items, ed)[Other(u)].offer = FALSE
         /\ \A v \in Members :
              /\ Updated(u, items, ed)[v].approval = users[v].approval
              /\ Updated(u, items, ed)[v].confirm = users[v].confirm
              /\ Updated(u, items, ed)[v].dbInfo = users[v].dbInfo
              /\ v # u => GoodsOf(Updated(u, items, ed), v) = GoodsOf(users, v)
<1> DEFINE us == Updated(u, items, ed)
           mine == [[users[u] EXCEPT !.items = items] EXCEPT !.ed = ed]
           theirs == [users[Other(u)] EXCEPT !.offer = FALSE]
<1>1. us = [v \in Members |-> IF v = u THEN mine
                              ELSE IF v = Other(u) THEN theirs ELSE users[v]]
  BY DEF Updated
<1>2. /\ mine \in TradeUser /\ mine.approval = users[u].approval
      /\ mine.confirm = users[u].confirm /\ mine.dbInfo = users[u].dbInfo
  BY DEF TradeUser
<1>3. /\ theirs \in TradeUser /\ theirs.offer = FALSE
      /\ theirs.approval = users[Other(u)].approval
      /\ theirs.confirm = users[Other(u)].confirm
      /\ theirs.dbInfo = users[Other(u)].dbInfo
      /\ theirs.items = users[Other(u)].items /\ theirs.ed = users[Other(u)].ed
  BY DEF TradeUser
<1> HIDE DEF mine, theirs, us
<1> QED
  BY <1>1, <1>2, <1>3 DEF GoodsOf, us

LEMMA UpdateInv ==
  ASSUME IndInv, NEW u \in Units, fsm = "WAIT", HasOther(u),
         NEW items \in SUBSET Items, NEW ed \in EDs, NEW n \in Notices,
         Keep(Updated(u, items, ed), n)
  PROVE  IndInv'
<1> DEFINE us == Updated(u, items, ed)
<1>1. u \in Members /\ Other(u) \in Members /\ Other(u) # u
  BY TypeOKUsers, OtherMember DEF HasOther, IndInv
<1>2. users \in [Members -> TradeUser]
  BY DEF IndInv, TypeOK
<1>3. /\ us \in [Members -> TradeUser]
      /\ \A v \in Members : /\ us[v].approval = users[v].approval
                            /\ us[v].confirm = users[v].confirm
                            /\ us[v].dbInfo = users[v].dbInfo
  BY ZenonT(60), <1>1, <1>2, UpdatedFields
<1>4. us \in UserMap /\ DOMAIN us = Members /\ NumMember(us) = NumMember(users)
  BY <1>3, ChangedMap DEF IndInv
<1>5. Sound(fsm, us)
  <2> HIDE DEF us
  <2> QED
    BY <1>3, <1>4, IndInvIsSound DEF Sound, Members
<1> HIDE DEF us
<1> QED
  BY <1>4, <1>5, KeepInv DEF us

LEMMA UpdateItemInv ==
  ASSUME IndInv, NEW u \in Units, NEW item \in Items, NEW delete \in BOOLEAN,
         UpdateTradeItemReq(u, item, delete)
  PROVE  IndInv'
<1>1. ItemNotice(u, item, delete) \in Notices
  <2>1. [type |-> "UPDATE_ITEM_NOT", unit |-> u, item |-> item, delete |-> delete]
          \in Message
    BY DEF Message
  <2> QED
    BY <2>1, NoticeTypes DEF ItemNotice
<1>2. u \in Members => users[u].items \in SUBSET Items /\ users[u].ed \in EDs
  BY DEF IndInv, TypeOK, TradeUser
<1>3. CASE /\ CanUpdateItem(u) /\ CanInsert(u, item)
           /\ Keep(Updated(u, users[u].items \cup {item}, users[u].ed),
                   ItemNotice(u, item, delete))
  <2>1. users[u].items \cup {item} \in SUBSET Items /\ users[u].ed \in EDs
    BY <1>2, <1>3 DEF CanUpdateItem
  <2> QED
    BY <1>1, <1>3, <2>1, UpdateInv DEF CanUpdateItem, CanInsert
<1>4. CASE /\ CanUpdateItem(u) /\ CanRemove(u, item)
           /\ Keep(Updated(u, users[u].items \ {item}, users[u].ed),
                   ItemNotice(u, item, delete))
  <2>1. users[u].items \ {item} \in SUBSET Items /\ users[u].ed \in EDs
    BY <1>2, <1>4 DEF CanUpdateItem
  <2> QED
    BY <1>1, <1>4, <2>1, UpdateInv DEF CanUpdateItem, CanRemove
<1>5. CASE Ignore
  BY <1>5, IgnoreInv
<1> QED
  BY <1>3, <1>4, <1>5 DEF UpdateTradeItemReq

LEMMA UpdateEDInv ==
  ASSUME IndInv, NEW u \in Units, NEW ed \in EDs, UpdateTradeEDReq(u, ed)
  PROVE  IndInv'
<1> DEFINE n == Broadcast(users, [type |-> "UPDATE_ED_NOT", unit |-> u, ed |-> ed])
<1>1. CASE Ignore
  BY <1>1, IgnoreInv
<1>2. CASE CanUpdateED(u, ed) /\ Keep(Updated(u, users[u].items, ed), n)
  <2>1. [type |-> "UPDATE_ED_NOT", unit |-> u, ed |-> ed] \in Message
    BY DEF Message
  <2>2. n \in Notices
    BY <2>1, NoticeTypes
  <2>3. users[u].items \in SUBSET Items
    BY <1>2 DEF CanUpdateED, HasOther, IndInv, TypeOK, TradeUser
  <2> HIDE DEF n
  <2> QED
    BY <1>2, <2>2, <2>3, UpdateInv DEF CanUpdateED
<1> QED
  BY <1>1, <1>2 DEF UpdateTradeEDReq

LEMMA OfferInv ==
  ASSUME IndInv, NEW u \in Units, OfferTradeReq(u)
  PROVE  IndInv'
<1> DEFINE us == [users EXCEPT ![u].offer = TRUE]
<1>1. CASE Ignore
  BY <1>1, IgnoreInv
<1>2. CASE CanOffer(u)
  <2>1. u \in Members /\ fsm = "WAIT"
    BY <1>2 DEF CanOffer, HasOther
  <2>2. users \in [Members -> TradeUser]
    BY DEF IndInv, TypeOK
  <2>3. /\ us \in [Members -> TradeUser]
        /\ \A v \in Members : /\ us[v].approval = users[v].approval
                              /\ us[v].confirm = users[v].confirm
                              /\ us[v].dbInfo = users[v].dbInfo
    BY <2>1, <2>2 DEF TradeUser
  <2>4. us \in UserMap /\ DOMAIN us = Members /\ NumMember(us) = NumMember(users)
    BY <2>3, ChangedMap DEF IndInv
  <2>5. Sound("WAIT", us)
    <3> HIDE DEF us
    <3> QED
      BY <2>1, <2>3, <2>4, IndInvIsSound DEF Sound, Members
  <2>6. CASE Keep(us, Silence)
    <3> HIDE DEF us
    <3> QED
      BY <2>1, <2>4, <2>5, <2>6, KeepInv, NoticeTypes
  <2>7. CASE BreakTrade(us, NoGoods, Silence)
    <3> HIDE DEF us
    <3> QED
      BY <2>4, <2>7, BreakInv, NoticeTypes DEF NoGoods
  <2>8. CASE /\ AllOffered(us) /\ ~NothingToTrade(us)
             /\ users' = us /\ fsm' = StateTransition(fsm, "TO_CONFIRM")
             /\ sent' = Silence /\ sentDB' = {} /\ UNCHANGED waitOver
    <3>1. fsm' = "CONFIRM"
      BY <2>1, <2>8 DEF StateTransition
    <3>2. Sound("CONFIRM", us)
      <4> HIDE DEF us
      <4> QED
        BY <2>5, <2>8 DEF Sound
    <3> HIDE DEF us
    <3> QED
      BY <2>4, <2>8, <3>1, <3>2, StepInv, NoticeTypes DEF FsmStates, IndInv, TypeOK
  <2> HIDE DEF us
  <2> QED
    BY <1>2, <2>6, <2>7, <2>8 DEF OfferTradeReq, us
<1> QED
  BY <1>1, <1>2 DEF OfferTradeReq

LEMMA ApproveInv ==
  ASSUME IndInv, NEW u \in Units, ApproveTradeReq(u)
  PROVE  IndInv'
<1> DEFINE us == [users EXCEPT ![u].approval = TRUE]
<1>1. CASE Ignore
  BY <1>1, IgnoreInv
<1>2. CASE fsm = "CONFIRM" /\ u \in Members
  <2>1. users \in [Members -> TradeUser] /\ users \in UserMap
    BY TypeOKUsers DEF IndInv, TypeOK
  <2>2. /\ us \in [Members -> TradeUser]
        /\ \A v \in Members : /\ us[v].offer = users[v].offer
                              /\ us[v].items = users[v].items
                              /\ us[v].ed = users[v].ed
                              /\ us[v].dbInfo = users[v].dbInfo
    BY <1>2, <2>1 DEF TradeUser
  <2>3. us \in UserMap /\ DOMAIN us = Members /\ NumMember(us) = NumMember(users)
    BY <2>2, ChangedMap DEF IndInv
  <2>4. Sound(fsm, us)
    <3> HIDE DEF us
    <3> QED
      BY <1>2, <2>2, <2>3, IndInvIsSound
      DEF Sound, Members, AllOffered, NothingToTrade
  <2>5. CASE Keep(us, Silence)
    <3> HIDE DEF us
    <3> QED
      BY <2>3, <2>4, <2>5, KeepInv, NoticeTypes
  <2>6. CASE BreakTrade(us, WrongCount, Silence)
    <3> HIDE DEF us
    <3> QED
      BY <2>3, <2>6, BreakInv, NoticeTypes DEF WrongCount
  <2>7. CASE NumMember(us) = 2 /\ Keep(us, Mirrored("CONFIRM_REQ", us))
    <3> HIDE DEF us
    <3>1. Mirrored("CONFIRM_REQ", us) \in Notices
      BY <2>1, <2>3, <2>7, MirroredType
    <3> QED
      BY <2>3, <2>4, <2>7, <3>1, KeepInv
  <2> HIDE DEF us
  <2> QED
    BY <1>2, <2>5, <2>6, <2>7 DEF ApproveTradeReq, MayApprove, us
<1> QED
  BY <1>1, <1>2 DEF ApproveTradeReq, MayApprove

LEMMA ConfirmInv ==
  ASSUME IndInv, NEW u \in Units, NEW ok \in BOOLEAN, ConfirmTradeAck(u, ok)
  PROVE  IndInv'
<1> DEFINE us == IF u \in Members THEN [users EXCEPT ![u].confirm = TRUE] ELSE users
<1>0. users \in [Members -> TradeUser] /\ users \in UserMap /\ DOMAIN users = Members
  BY TypeOKUsers DEF IndInv, TypeOK, Members
<1>1. CASE Ignore
  BY <1>1, IgnoreInv
<1>2. CASE BreakTrade(users, BadGoods, Silence)
  BY <1>0, <1>2, BreakInv, NoticeTypes DEF BadGoods
<1>3. CASE fsm = "CONFIRM" /\ ok
  <2>1. /\ us \in [Members -> TradeUser]
        /\ \A v \in Members : /\ us[v].offer = users[v].offer
                              /\ us[v].items = users[v].items
                              /\ us[v].ed = users[v].ed
                              /\ us[v].dbInfo = users[v].dbInfo
    BY ZenonT(60), <1>0 DEF TradeUser
  <2>2. us \in UserMap /\ DOMAIN us = Members /\ NumMember(us) = NumMember(users)
    BY <2>1, ChangedMap DEF IndInv
  <2>3. Sound("CONFIRM", us)
    <3> HIDE DEF us
    <3> QED
      BY <1>3, <2>1, <2>2, IndInvIsSound
      DEF Sound, Members, AllOffered, NothingToTrade
  <2>4. CASE Keep(us, Silence)
    <3> HIDE DEF us
    <3> QED
      BY <1>3, <2>2, <2>3, <2>4, KeepInv, NoticeTypes
  <2>5. CASE BreakTrade(us, WrongCount, Silence)
    <3> HIDE DEF us
    <3> QED
      BY <2>2, <2>5, BreakInv, NoticeTypes DEF WrongCount
  <2>6. CASE /\ AllConfirmed(us) /\ NumMember(us) = 2
             /\ users' = us
             /\ fsm' = StateTransition(fsm, "TO_DB_UPDATE")
             /\ sent' = Mirrored("CONFIRM_NOT", us) /\ sentDB' = {}
             /\ UNCHANGED waitOver
    <3> HIDE DEF us
    <3>1. fsm' = "DB_UPDATE"
      BY <1>3, <2>6 DEF StateTransition
    <3>2. Sound("DB_UPDATE", us)
      BY <2>3, <2>6 DEF Sound
    <3>3. Mirrored("CONFIRM_NOT", us) \in Notices
      BY <1>0, <2>2, <2>6, MirroredType
    <3> QED
      BY <2>2, <2>6, <3>1, <3>2, <3>3, StepInv DEF FsmStates, IndInv, TypeOK
  <2> HIDE DEF us
  <2> QED
    BY <1>3, <2>4, <2>5, <2>6 DEF ConfirmTradeAck, us
<1> QED
  BY <1>1, <1>2, <1>3 DEF ConfirmTradeAck

LEMMA ResultNotInv ==
  ASSUME IndInv, NEW u \in Units, NEW g \in DBInfo, DBUpdateTradeResultNot(u, g)
  PROVE  IndInv'
<1> DEFINE us == [users EXCEPT ![u].dbInfo = {g}]
<1>0. users \in [Members -> TradeUser] /\ users \in UserMap /\ DOMAIN users = Members
  BY TypeOKUsers DEF IndInv, TypeOK, Members
<1>1. CASE Ignore
  BY <1>1, IgnoreInv
<1>2. CASE BreakTrade(users, Cancelled, Silence)
  BY <1>0, <1>2, BreakInv, NoticeTypes DEF Cancelled
<1>3. CASE fsm = "DB_UPDATE" /\ u \in Members
  <2>1. /\ us \in [Members -> TradeUser]
        /\ \A v \in Members : /\ us[v].offer = users[v].offer
                              /\ us[v].confirm = users[v].confirm
                              /\ us[v].items = users[v].items
                              /\ us[v].ed = users[v].ed
    BY <1>0, <1>3 DEF TradeUser
  <2>2. us \in UserMap /\ DOMAIN us = Members /\ NumMember(us) = NumMember(users)
    BY <2>1, ChangedMap DEF IndInv
  <2>3. Sound("DB_UPDATE", us)
    <3> HIDE DEF us
    <3> QED
      BY <1>3, <2>1, <2>2, IndInvIsSound
      DEF Sound, Members, AllOffered, AllConfirmed, NothingToTrade
  <2>4. CASE Keep(us, Silence)
    <3> HIDE DEF us
    <3> QED
      BY <1>3, <2>2, <2>3, <2>4, KeepInv, NoticeTypes
  <2>5. CASE BreakTrade(us, WrongCount, Silence)
    <3> HIDE DEF us
    <3> QED
      BY <2>2, <2>5, BreakInv, NoticeTypes DEF WrongCount
  <2>6. CASE /\ AllDBReady(us) /\ users' = us /\ sent' = Silence
             /\ sentDB' = {[v \in Members |-> CHOOSE h \in us[v].dbInfo : TRUE]}
             /\ UNCHANGED <<fsm, waitOver>>
    <3> DEFINE req == [v \in Members |-> CHOOSE h \in us[v].dbInfo : TRUE]
    <3>1. \A v \in Members : (CHOOSE h \in us[v].dbInfo : TRUE) \in DBInfo
      <4> HIDE DEF us
      <4>1. \A v \in Members : us[v].dbInfo # {} /\ us[v].dbInfo \subseteq DBInfo
        BY <2>1, <2>2, <2>6 DEF AllDBReady, TradeUser
      <4> QED
        BY <4>1
    <3>2. req \in [Members -> DBInfo]
      BY <3>1
    <3> HIDE DEF us, req
    <3>3. sentDB' \in SUBSET [DOMAIN users' -> DBInfo]
      BY <2>2, <2>6, <3>2 DEF req
    <3>4. TypeOK'
      BY <2>2, <2>6, <3>3, TypeOKNext, NoticeTypes DEF IndInv, TypeOK
    <3> QED
      BY <1>3, <2>3, <2>6, <3>4, IndInvIsSoundNext
  <2> HIDE DEF us
  <2> QED
    BY <1>3, <2>4, <2>5, <2>6 DEF DBUpdateTradeResultNot, us
<1> QED
  BY <1>1, <1>2, <1>3 DEF DBUpdateTradeResultNot

LEMMA ResultAckInv ==
  ASSUME IndInv, NEW ok \in BOOLEAN, NEW info \in DBInfos,
         DBUpdateTradeResultAck(ok, info)
  PROVE  IndInv'
<1> DEFINE n == [v \in Units |->
                   IF v \in DOMAIN info \cap Members
                   THEN <<[type |-> "COMPLETE_NOT", info |-> info[v]]>> ELSE <<>>]
<1>0. users \in UserMap /\ DOMAIN users = Members
  BY TypeOKUsers DEF IndInv, Members
<1>1. CASE Ignore
  BY <1>1, IgnoreInv
<1>2. CASE BreakTrade(users, WrongCount, Silence)
  BY <1>0, <1>2, BreakInv, NoticeTypes DEF WrongCount
<1>3. CASE BreakTrade(users, Completed, n)
  <2>1. \A v \in DOMAIN info : info[v] \in DBInfo
    BY DEF DBInfos
  <2>2. \A v \in DOMAIN info : [type |-> "COMPLETE_NOT", info |-> info[v]] \in Message
    BY <2>1 DEF Message
  <2>3. n \in Notices
    BY <2>2 DEF Notices
  <2> HIDE DEF n
  <2> QED
    BY <1>0, <1>3, <2>3, BreakInv DEF Completed
<1> QED
  BY <1>1, <1>2, <1>3 DEF DBUpdateTradeResultAck

LEMMA TickInv == IndInv /\ Tick => IndInv'
<1> SUFFICES ASSUME IndInv, Tick PROVE IndInv'
  OBVIOUS
<1>1. CASE CloseRoom
  <2>1. fsm' = "INIT"
    BY <1>1 DEF CloseRoom, StateTransition
  <2>2. Sound("INIT", NoUsers)
    BY NoUsersMap DEF Sound
  <2> QED
    BY <1>1, <2>1, <2>2, StepInv, NoUsersMap, NoticeTypes
    DEF CloseRoom, FsmStates, IndInv, TypeOK
<1>2. CASE GiveUpWaiting
  BY <1>2, BreakInv, TypeOKUsers, NoticeTypes
  DEF GiveUpWaiting, JoinLate, IndInv, Members
<1> QED
  BY <1>1, <1>2 DEF Tick

LEMMA WaitTimeoutInv == IndInv /\ WaitTimeout => IndInv'
  BY StepInv, TypeOKUsers, IndInvIsSound, NoticeTypes
  DEF WaitTimeout, IndInv, TypeOK

-----------------------------------------------------------------------------
(* The theorems.                                                           *)

LEMMA InitInv == Init => IndInv
<1> SUFFICES ASSUME Init PROVE IndInv
  OBVIOUS
<1>1. TypeOK
  BY NoUsersMap, NoticeTypes, TypeOKUsers DEF Init, FsmStates, Notices
<1>2. Sound(fsm, users)
  BY NoUsersMap DEF Init, Sound
<1> QED
  BY <1>1, <1>2, IndInvIsSound

LEMMA RequestInv ==
  ASSUME IndInv, NEW u \in Units, Request(u)
  PROVE  IndInv'
  BY OpenInv, JoinInv, LeaveInv, UpdateItemInv, UpdateEDInv, OfferInv,
     ApproveInv, ConfirmInv, ResultNotInv DEF Request

LEMMA NextInv == IndInv /\ [Next]_vars => IndInv'
<1> SUFFICES ASSUME IndInv, [Next]_vars PROVE IndInv'
  OBVIOUS
<1>1. CASE Next
  BY <1>1, RequestInv, CheckInvalidUserInv, ResultAckInv, TickInv, WaitTimeoutInv
  DEF Next
<1>2. CASE UNCHANGED vars
  <2>1. Sound(fsm', users')
    BY <1>2, IndInvIsSound DEF vars
  <2>2. TypeOK'
    BY <1>2, TypeOKUsers, TypeOKNext DEF vars, IndInv, TypeOK, Members, Notices
  <2> QED
    BY <2>1, <2>2, IndInvIsSoundNext
<1> QED
  BY <1>1, <1>2

\* The inductive invariant holds in every reachable state of the room,
\* whatever Trade.cpp's handlers are sent.
THEOREM RoomInvariant == Spec => []IndInv
  BY InitInv, NextInv, PTL DEF Spec

\* The variables keep their types.
THEOREM TypeCorrect == Spec => []TypeOK
  BY RoomInvariant, PTL DEF IndInv

\* A room that waits for the DB has two confirmed traders and something to
\* swap, past S_WAIT every offer stands, and no flag of a later phase is set
\* while goods can change.
THEOREM SafeRoom == Spec => [](NoFlagBeforeItsTime /\ OffersStand /\ ReadyToSwap)
<1>1. IndInv => NoFlagBeforeItsTime /\ OffersStand /\ ReadyToSwap
  BY DEF IndInv
<1> QED
  BY <1>1, RoomInvariant, PTL

\* Of them by name: nothing of an earlier trade in the reused room counts for the
\* next one,
THEOREM FlagsAreOfThisTrade == Spec => []NoFlagBeforeItsTime
  BY SafeRoom, PTL

\* and who is in a room past S_WAIT has offered.
THEOREM OffersHold == Spec => []OffersStand
  BY SafeRoom, PTL

-----------------------------------------------------------------------------
(* What the steps do to the deal: the room implements TradeDeal, sealed    *)
(* goods are frozen, a change of goods takes offers back, and what is      *)
(* carried out is one deal seen from its two ends.                         *)
(*                                                                         *)
(* Every step of the room is one of seven kinds, each of them a step of    *)
(* TradeDeal or a stutter: nothing the deal can see (QuietStep), an        *)
(* opening, an entry, a departure, a change of one's goods, an offer, a    *)
(* move on to the execution, or the end.  StepKinds shows that for every   *)
(* handler; each theorem then looks at the kinds only.                     *)


\* Members, goods and offers stay as they are.
SameDeal(us) ==
  /\ DOMAIN us = Members
  /\ \A u \in Members : GoodsOf(us, u) = GoodsOf(users, u) /\ us[u].offer = users[u].offer

QuietStep == fsm' = fsm /\ SameDeal(users')

Opening ==
  /\ fsm = "INIT" /\ fsm' = "WAIT"
  /\ \E u \in Units, gs \in Servers, wallet \in Wallets :
        users' = Entered(NoUsers, u, gs, wallet)

Entry ==
  /\ fsm = "WAIT" /\ fsm' = "WAIT"
  /\ \E u \in Units, gs \in Servers, wallet \in Wallets :
        CanEnter(u) /\ users' = Entered(users, u, gs, wallet)

Departure ==
  /\ fsm \in {"WAIT", "CONFIRM"} /\ fsm' = fsm
  /\ \E u \in Units : users' = Without(users, {u})

ChangeOfGoods ==
  /\ fsm = "WAIT" /\ fsm' = "WAIT"
  /\ \E u \in Units, items \in SUBSET Items, ed \in EDs :
        /\ HasOther(u) /\ ~users[u].offer
        /\ users' = Updated(u, items, ed)

Offering ==
  /\ fsm = "WAIT"
  /\ \E u \in Units :
        LET us == [users EXCEPT ![u].offer = TRUE]
        IN /\ HasOther(u)
           /\ users' = us
           /\ \/ ~AllOffered(us) /\ fsm' = "WAIT"
              \/ AllOffered(us) /\ ~NothingToTrade(us) /\ fsm' = "CONFIRM"

MoveOn ==
  /\ fsm = "CONFIRM" /\ fsm' = "DB_UPDATE"
  /\ NumMember(users) = 2 /\ SameDeal(users')

Ending ==
  \/ /\ fsm # "INIT" /\ fsm' = "CLOSE"
     /\ \A u \in Members \cap DOMAIN users' : GoodsOf(users', u) = GoodsOf(users, u)
  \/ /\ fsm = "CLOSE" /\ fsm' = "INIT"
     /\ users' = NoUsers

\* A free room is empty.
Emptied == fsm = "INIT" => Members = {}

-----------------------------------------------------------------------------
(* Every step is of one of these kinds.                                    *)

SameGoods(us) == \A v \in Members \cap DOMAIN us : GoodsOf(us, v) = GoodsOf(users, v)

LEMMA BreakEnds ==
  ASSUME IndInv, fsm # "INIT", NEW us, SameGoods(us), NEW reason, NEW before,
         BreakTrade(us, reason, before)
  PROVE  Ending
<1>1. fsm' = "CLOSE"
  BY DEF BreakTrade, StateTransition, IndInv, TypeOK, FsmStates
<1> QED
  BY <1>1 DEF BreakTrade, Ending, SameGoods

\* Neither a departure nor a flag changes anybody's goods.
LEMMA GoodsStay ==
  ASSUME IndInv, NEW us, NEW u, NEW d,
         \/ us = users
         \/ \E leavers : us = Without(users, leavers)
         \/ us = [users EXCEPT ![u].offer = TRUE]
         \/ us = [users EXCEPT ![u].approval = TRUE]
         \/ us = [users EXCEPT ![u].confirm = TRUE]
         \/ us = [users EXCEPT ![u].dbInfo = d]
  PROVE  SameGoods(us)
<1>1. /\ users \in UserMap /\ DOMAIN users = Members
      /\ \A v \in Members : users[v] \in TradeUser
  BY TypeOKUsers, UserMapDomain DEF IndInv, Members
<1>2. ASSUME NEW v \in Members, v \in DOMAIN us
      PROVE  us[v].items = users[v].items /\ us[v].ed = users[v].ed
  <2>1. users[v] \in TradeUser
    BY <1>1
  <2>2. CASE us[v] = users[v]
    BY <2>2
  <2>3. CASE \/ us[v] = [users[v] EXCEPT !.offer = TRUE]
             \/ us[v] = [users[v] EXCEPT !.approval = TRUE]
             \/ us[v] = [users[v] EXCEPT !.confirm = TRUE]
             \/ us[v] = [users[v] EXCEPT !.dbInfo = d]
    BY <2>1, <2>3 DEF TradeUser
  <2>4. CASE us = users \/ \E leavers : us = Without(users, leavers)
    BY <1>2, <2>2, <2>4 DEF Without
  <2>5. CASE v # u
    BY <1>1, <2>2, <2>4, <2>5
  <2>6. CASE v = u
    BY <1>1, <2>2, <2>3, <2>4, <2>6
  <2> QED
    BY <2>5, <2>6
<1> QED
  BY <1>2 DEF SameGoods, GoodsOf

LEMMA IgnoreIsQuiet == Ignore => QuietStep
  BY DEF Ignore, Keep, QuietStep, SameDeal, Members

Kinds == \/ QuietStep \/ Opening \/ Entry \/ Departure \/ ChangeOfGoods
         \/ Offering \/ MoveOn \/ Ending

\* A member's flags other than its offer do not belong to the deal.
LEMMA FlagsAreQuiet ==
  ASSUME IndInv, NEW u, NEW d, NEW us, fsm' = fsm, users' = us,
         \/ us = users
         \/ u \in Members /\ us = [users EXCEPT ![u].approval = TRUE]
         \/ u \in Members /\ us = [users EXCEPT ![u].confirm = TRUE]
         \/ u \in Members /\ us = [users EXCEPT ![u].dbInfo = d]
  PROVE  QuietStep
<1>1. users \in UserMap
  BY TypeOKUsers DEF IndInv
<1>2. /\ DOMAIN users = Members
      /\ \A v \in Members : users[v] \in TradeUser
  BY <1>1, UserMapDomain DEF Members
<1>3. DOMAIN us = Members
  BY <1>2
<1>4. ASSUME NEW v \in Members
      PROVE  us[v].items = users[v].items /\ us[v].ed = users[v].ed
             /\ us[v].offer = users[v].offer
  BY <1>2 DEF TradeUser
<1> QED
  BY <1>3, <1>4 DEF QuietStep, SameDeal, GoodsOf

LEMMA RequestKinds ==
  ASSUME IndInv, NEW u \in Units, Request(u)
  PROVE  Kinds
<1>0. /\ users \in UserMap /\ DOMAIN users = Members
      /\ \A v \in Members : users[v] \in TradeUser
  BY TypeOKUsers, UserMapDomain DEF IndInv, Members
<1>1. ASSUME NEW gs \in Servers, NEW wallet \in Wallets, NEW peer \in Units,
             OpenTradeReq(u, gs, wallet, peer)
      PROVE  Kinds
  BY <1>1, IgnoreIsQuiet DEF OpenTradeReq, Kinds, Opening, StateTransition
<1>2. ASSUME NEW gs \in Servers, NEW wallet \in Wallets, JoinTradeReq(u, gs, wallet)
      PROVE  Kinds
  BY <1>2, IgnoreIsQuiet, BreakEnds, GoodsStay DEF JoinTradeReq, MayJoin, Kinds, Entry, Keep
<1>3. ASSUME NEW reason \in Reasons, BreakTradeReq(u, reason)
      PROVE  Kinds
  BY <1>3, IgnoreIsQuiet, BreakEnds, GoodsStay DEF BreakTradeReq, MayLeave, Kinds, Departure, Keep
<1>4. ASSUME NEW item \in Items, NEW delete \in BOOLEAN, UpdateTradeItemReq(u, item, delete)
      PROVE  Kinds
  <2>1. CASE Ignore
    BY <2>1, IgnoreIsQuiet DEF Kinds
  <2>2. ASSUME NEW items, items \in {users[u].items \cup {item}, users[u].items \ {item}},
               CanUpdateItem(u), HasOther(u), fsm' = fsm,
               users' = Updated(u, items, users[u].ed)
        PROVE  ChangeOfGoods
    <3>1. users[u] \in TradeUser
      BY <1>0, <2>2 DEF HasOther
    <3>2. items \in SUBSET Items /\ users[u].ed \in EDs
      BY <2>2, <3>1 DEF TradeUser
    <3> QED
      BY <2>2, <3>2 DEF ChangeOfGoods, CanUpdateItem
  <2> QED
    BY <1>4, <2>1, <2>2 DEF UpdateTradeItemReq, CanInsert, CanRemove, Keep, Kinds
<1>5. ASSUME NEW ed \in EDs, UpdateTradeEDReq(u, ed)
      PROVE  Kinds
  <2>1. CASE Ignore
    BY <2>1, IgnoreIsQuiet DEF Kinds
  <2>2. CASE CanUpdateED(u, ed) /\ fsm' = fsm /\ users' = Updated(u, users[u].items, ed)
    <3>1. users[u].items \in SUBSET Items
      BY <1>0, <2>2 DEF CanUpdateED, HasOther, TradeUser
    <3> QED
      BY <2>2, <3>1 DEF ChangeOfGoods, CanUpdateED, Unsettled, Kinds
  <2> QED
    BY <1>5, <2>1, <2>2 DEF UpdateTradeEDReq, Keep
<1>6. ASSUME OfferTradeReq(u)
      PROVE  Kinds
  BY <1>6, IgnoreIsQuiet, BreakEnds, GoodsStay
  DEF OfferTradeReq, CanOffer, Keep, Kinds, Offering, StateTransition
<1>7. ASSUME ApproveTradeReq(u)
      PROVE  Kinds
  <2> DEFINE us == [users EXCEPT ![u].approval = TRUE]
  <2>1. CASE Ignore
    BY <2>1, IgnoreIsQuiet DEF Kinds
  <2>2. CASE u \in Members /\ fsm' = fsm /\ users' = us
    BY <2>2, FlagsAreQuiet DEF Kinds
  <2>3. CASE BreakTrade(us, WrongCount, Silence) /\ fsm = "CONFIRM"
    BY <2>3, BreakEnds, GoodsStay DEF Kinds
  <2> QED
    BY <1>7, <2>1, <2>2, <2>3 DEF ApproveTradeReq, MayApprove, Keep
<1>8. ASSUME NEW ok \in BOOLEAN, ConfirmTradeAck(u, ok)
      PROVE  Kinds
  <2> DEFINE us == IF u \in Members THEN [users EXCEPT ![u].confirm = TRUE] ELSE users
  <2>1. CASE Ignore
    BY <2>1, IgnoreIsQuiet DEF Kinds
  <2>2. CASE fsm' = fsm /\ users' = us
    BY <2>2, FlagsAreQuiet DEF Kinds
  <2>3. CASE /\ fsm = "CONFIRM"
             /\ BreakTrade(us, WrongCount, Silence) \/ BreakTrade(users, BadGoods, Silence)
    BY <2>3, BreakEnds, GoodsStay DEF Kinds
  <2>4. CASE fsm = "CONFIRM" /\ fsm' = "DB_UPDATE" /\ users' = us /\ NumMember(us) = 2
    <3>1. DOMAIN us = Members
      BY <1>0
    <3>2. \A v \in Members : /\ us[v].items = users[v].items /\ us[v].ed = users[v].ed
                             /\ us[v].offer = users[v].offer
      BY <1>0 DEF TradeUser
    <3> QED
      BY <2>4, <3>1, <3>2 DEF MoveOn, SameDeal, GoodsOf, NumMember, Members, Kinds
  <2> HIDE DEF us
  <2> QED
    BY <1>8, <2>1, <2>2, <2>3, <2>4 DEF ConfirmTradeAck, Keep, StateTransition, us
<1>9. ASSUME NEW g \in DBInfo, DBUpdateTradeResultNot(u, g)
      PROVE  Kinds
  <2> DEFINE us == [users EXCEPT ![u].dbInfo = {g}]
  <2>1. CASE Ignore
    BY <2>1, IgnoreIsQuiet DEF Kinds
  <2>2. CASE u \in Members /\ fsm' = fsm /\ users' = us
    BY <2>2, FlagsAreQuiet DEF Kinds
  <2>3. CASE /\ fsm = "DB_UPDATE"
             /\ BreakTrade(us, WrongCount, Silence) \/ BreakTrade(users, Cancelled, Silence)
    BY <2>3, BreakEnds, GoodsStay DEF Kinds
  <2> HIDE DEF us
  <2> QED
    BY <1>9, <2>1, <2>2, <2>3 DEF DBUpdateTradeResultNot, Keep, us
<1> QED
  BY <1>1, <1>2, <1>3, <1>4, <1>5, <1>6, <1>7, <1>8, <1>9 DEF Request

LEMMA StepKinds == IndInv /\ Emptied /\ [Next]_vars => Kinds
<1> SUFFICES ASSUME IndInv, Emptied, [Next]_vars PROVE Kinds
  OBVIOUS
<1>1. ASSUME NEW u \in Units, Request(u) PROVE Kinds
  BY <1>1, RequestKinds
<1>2. ASSUME NEW gs \in Servers, CheckInvalidUser(gs) PROVE Kinds
  BY <1>2, IgnoreIsQuiet, BreakEnds, GoodsStay DEF CheckInvalidUser, Kinds, Emptied
<1>3. ASSUME NEW ok \in BOOLEAN, NEW info \in DBInfos, DBUpdateTradeResultAck(ok, info)
      PROVE  Kinds
  BY <1>3, IgnoreIsQuiet, BreakEnds, GoodsStay DEF DBUpdateTradeResultAck, Kinds
<1>4. ASSUME Tick PROVE Kinds
  <2>1. CASE CloseRoom
    BY <2>1 DEF CloseRoom, StateTransition, Ending, Kinds
  <2>2. CASE GiveUpWaiting
    BY <2>2, BreakEnds, GoodsStay DEF GiveUpWaiting, Kinds
  <2> QED
    BY <1>4, <2>1, <2>2 DEF Tick
<1>5. ASSUME WaitTimeout \/ UNCHANGED vars PROVE Kinds
  BY <1>5 DEF WaitTimeout, vars, QuietStep, SameDeal, Members, Kinds
<1> QED
  BY <1>1, <1>2, <1>3, <1>4, <1>5 DEF Next

LEMMA RoomIsEmptied == Spec => []Emptied
<1>1. Init => Emptied
  BY NoUsersMap DEF Init, Emptied, Members
<1>2. ASSUME IndInv, Emptied, [Next]_vars PROVE Emptied'
  <2>1. Kinds
    BY <1>2, StepKinds
  <2> QED
    BY <1>2, <2>1, NoUsersMap
    DEF Kinds, QuietStep, SameDeal, Opening, Entry, Departure, ChangeOfGoods, Offering,
        MoveOn, Ending, Emptied, Members
<1> QED
  BY <1>1, <1>2, RoomInvariant, PTL DEF Spec

-----------------------------------------------------------------------------
(* What the kinds do to members, goods and offers.                         *)

LEMMA EntryFacts ==
  ASSUME IndInv, NEW u, CanEnter(u), NEW gs, NEW wallet,
         users' = Entered(users, u, gs, wallet)
  PROVE  /\ Members' = Members \cup {u} /\ u \notin Members
         /\ \A v \in Members : users'[v] = users[v]
         /\ users'[u] = NewUser(gs, wallet)
  BY DEF CanEnter, Entered, Members

LEMMA DepartureFacts ==
  ASSUME NEW u, users' = Without(users, {u})
  PROVE  Members' = Members \ {u} /\ \A v \in Members' : users'[v] = users[v]
  BY DEF Without, Members

LEMMA ChangeFacts ==
  ASSUME IndInv, NEW u \in Units, HasOther(u), NEW items, NEW ed,
         users' = Updated(u, items, ed)
  PROVE  /\ Members' = Members /\ Members = {u, Other(u)} /\ u # Other(u)
         /\ users'[u].items = items /\ users'[u].ed = ed
         /\ users'[u].offer = users[u].offer
         /\ GoodsOf(users', Other(u)) = GoodsOf(users, Other(u))
         /\ ~users'[Other(u)].offer
<1>1. /\ users \in UserMap /\ DOMAIN users = Members
      /\ \A v \in Members : users[v] \in TradeUser
  BY TypeOKUsers, UserMapDomain DEF IndInv, Members
<1>2. Members = {u, Other(u)} /\ u # Other(u)
  BY <1>1, OtherMember DEF HasOther
<1>3. Members' = Members
  BY <1>1 DEF Updated, Members
<1>4. users'[u] = [users[u] EXCEPT !.items = items, !.ed = ed]
  BY <1>1, <1>2 DEF Updated
<1>5. users'[Other(u)] = [users[Other(u)] EXCEPT !.offer = FALSE]
  BY <1>1, <1>2 DEF Updated
<1>6. users[u] \in TradeUser /\ users[Other(u)] \in TradeUser
  BY <1>1, <1>2
<1>7. users'[u].items = items /\ users'[u].ed = ed /\ users'[u].offer = users[u].offer
  BY <1>4, <1>6 DEF TradeUser
<1>8. /\ users'[Other(u)].items = users[Other(u)].items
      /\ users'[Other(u)].ed = users[Other(u)].ed
      /\ users'[Other(u)].offer = FALSE
  BY <1>5, <1>6 DEF TradeUser
<1> QED
  BY <1>2, <1>3, <1>7, <1>8 DEF GoodsOf

LEMMA OfferFacts ==
  ASSUME IndInv, NEW u \in Units, HasOther(u),
         users' = [users EXCEPT ![u].offer = TRUE]
  PROVE  /\ Members' = Members /\ u \in Members
         /\ \A v \in Members : GoodsOf(users', v) = GoodsOf(users, v)
         /\ users'[u].offer
         /\ \A v \in Members : v # u => users'[v].offer = users[v].offer
<1>1. /\ users \in UserMap /\ DOMAIN users = Members
      /\ \A v \in Members : users[v] \in TradeUser
  BY TypeOKUsers, UserMapDomain DEF IndInv, Members
<1>2. u \in Members /\ Members' = Members
  BY <1>1 DEF HasOther, Members
<1>3. \A v \in Members : GoodsOf(users', v) = GoodsOf(users, v)
  BY <1>1, <1>2, GoodsStay DEF SameGoods, Members
<1>4. users'[u] = [users[u] EXCEPT !.offer = TRUE] /\ users[u] \in TradeUser
  BY <1>1, <1>2
<1>5. users'[u].offer
  BY <1>4 DEF TradeUser
<1>6. \A v \in Members : v # u => users'[v] = users[v]
  BY <1>1
<1> QED
  BY <1>2, <1>3, <1>5, <1>6

-----------------------------------------------------------------------------
(* Goods under an offer, and sealed goods.                                 *)

\* Once both offers stand, nobody enters and no goods change before the room
\* closes (the handlers' S_WAIT guards, CheckStateUpdateTradeItem).
THEOREM SealedGoodsAreFrozen == Spec => GoodsFrozen
<1> DEFINE Frozen ==
      fsm \in {"CONFIRM", "DB_UPDATE"} /\ fsm' \in {"CONFIRM", "DB_UPDATE"} =>
        /\ Members' \subseteq Members
        /\ \A u \in Members' : GoodsOf(users', u) = GoodsOf(users, u)
<1>1. ASSUME IndInv, Emptied, [Next]_vars PROVE Frozen
  <2>1. CASE QuietStep \/ MoveOn
    BY <2>1 DEF QuietStep, MoveOn, SameDeal, Members
  <2>2. CASE Departure
    BY <2>2, DepartureFacts DEF Departure, GoodsOf
  <2>3. CASE Opening \/ Entry \/ ChangeOfGoods \/ Offering \/ Ending
    BY <2>3 DEF Opening, Entry, ChangeOfGoods, Offering, Ending
  <2> QED
    BY <1>1, <2>1, <2>2, <2>3, StepKinds DEF Kinds
<1>2. ASSUME Frozen PROVE [Frozen]_vars
  BY <1>2
<1> QED
  BY <1>1, RoomInvariant, RoomIsEmptied, PTL DEF Spec, GoodsFrozen

\* Nobody's goods change under its own offer, and a change leaves no offer
\* of the partner standing (KTradeUserManager::UpdateTradeItem, UpdateTradeED
\* and RemoveTradeItem).
THEOREM OffersAreForWhatLies == Spec => ChangeVoidsOffers
<1> DEFINE Voided ==
      \A u \in Members \cap Members' :
        GoodsOf(users', u) # GoodsOf(users, u)
          => ~users[u].offer /\ (\A v \in Members' : v # u => ~users'[v].offer)
<1>1. ASSUME IndInv, Emptied, [Next]_vars PROVE Voided
  <2>1. CASE QuietStep \/ MoveOn
    BY <2>1 DEF QuietStep, MoveOn, SameDeal, Members
  <2>2. CASE Departure
    BY <2>2, DepartureFacts DEF Departure, GoodsOf
  <2>3. CASE Opening \/ Ending
    BY <1>1, <2>3, NoUsersMap DEF Opening, Ending, Emptied, Members
  <2>4. CASE Entry
    BY <1>1, <2>4, EntryFacts DEF Entry, GoodsOf
  <2>5. CASE Offering
    BY <1>1, <2>5, OfferFacts DEF Offering
  <2>6. CASE ChangeOfGoods
    BY <1>1, <2>6, ChangeFacts DEF ChangeOfGoods
  <2> QED
    BY <1>1, <2>1, <2>2, <2>3, <2>4, <2>5, <2>6, StepKinds DEF Kinds
<1> QED
  BY <1>1, RoomInvariant, RoomIsEmptied, PTL DEF Spec, ChangeVoidsOffers

-----------------------------------------------------------------------------
(* What the game servers are told to carry out.                            *)

\* Nobody is sent a message of this type.
Lacks(notices, type) ==
  \A u \in Units : \A n \in DOMAIN notices[u] : notices[u][n].type # type

\* Orders to carry the trade out, and what the DB made of it.
Final == {"CONFIRM_NOT", "COMPLETE_NOT"}

LEMMA PlainNotices ==
  ASSUME NEW type
  PROVE  /\ Lacks(Silence, type)
         /\ \A u : \A m : m.type # type => Lacks(To(u, m), type)
         /\ \A us : \A m : m.type # type => Lacks(Broadcast(us, m), type)
  BY DEF Lacks, Silence, To, Broadcast

LEMMA ThenLacks ==
  ASSUME NEW f \in Notices, NEW g \in Notices, NEW type, Lacks(f, type), Lacks(g, type)
  PROVE  Lacks(Then(f, g), type)
<1> SUFFICES ASSUME NEW u \in Units, NEW n \in DOMAIN (f[u] \o g[u])
             PROVE  (f[u] \o g[u])[n].type # type
  BY DEF Lacks, Then
<1>1. f[u] \in Seq(Message) /\ g[u] \in Seq(Message)
  BY DEF Notices
<1>2. \/ n \in DOMAIN f[u] /\ (f[u] \o g[u])[n] = f[u][n]
      \/ \E k \in DOMAIN g[u] : (f[u] \o g[u])[n] = g[u][k]
  <2> DEFINE s == f[u]
             t == g[u]
  <2> HIDE DEF s, t
  <2>1. s \in Seq(Message) /\ t \in Seq(Message) /\ n \in DOMAIN (s \o t)
    BY <1>1 DEF s, t
  <2>2. \/ n \in DOMAIN s /\ (s \o t)[n] = s[n]
        \/ n - Len(s) \in DOMAIN t /\ (s \o t)[n] = t[n - Len(s)]
    BY ONLY <2>1, ConcatElement
  <2> QED
    BY <2>2 DEF s, t
<1> QED
  BY <1>2 DEF Lacks

LEMMA BreakLacks ==
  ASSUME NEW us, NEW reason \in Nat, NEW before \in Notices, NEW type \in Final,
         Lacks(before, type), BreakTrade(us, reason, before)
  PROVE  Lacks(sent', type)
<1>1. /\ Broadcast(us, BreakNot(reason)) \in Notices
      /\ Lacks(Broadcast(us, BreakNot(reason)), type)
  BY PlainTypes, NoticeTypes, PlainNotices DEF BreakNot, Final
<1> QED
  BY <1>1, ThenLacks DEF BreakTrade

LEMMA BreakSilently ==
  ASSUME NEW us, NEW reason \in Nat, NEW type \in Final, BreakTrade(us, reason, Silence)
  PROVE  Lacks(sent', type)
  BY BreakLacks, PlainNotices, NoticeTypes

LEMMA IgnoreLacks == ASSUME Ignore, NEW type PROVE Lacks(sent', type)
  BY PlainNotices DEF Ignore, Keep

\* The one handler that has a trade carried out.
Execution ==
  /\ fsm = "CONFIRM" /\ fsm' = "DB_UPDATE"
  /\ users' \in UserMap /\ Members' = Members /\ NumMember(users) = 2
  /\ SameDeal(users') /\ \A v \in Members : users'[v].dbInfo = users[v].dbInfo
  /\ sent' = Mirrored("CONFIRM_NOT", users') /\ sentDB' = {}

LEMMA ConfirmOrders ==
  ASSUME IndInv, NEW u \in Units, NEW ok \in BOOLEAN, ConfirmTradeAck(u, ok)
  PROVE  \/ Execution
         \/ /\ Ignore \/ (fsm = "CONFIRM" /\ fsm' \in {"CONFIRM", "CLOSE"} /\ sentDB' = {})
            /\ \A type \in Final : Lacks(sent', type)
<1> DEFINE us == IF u \in Members THEN [users EXCEPT ![u].confirm = TRUE] ELSE users
<1>1. users \in [Members -> TradeUser] /\ users \in UserMap /\ DOMAIN users = Members
  BY TypeOKUsers DEF IndInv, TypeOK, Members
<1>2. us \in [Members -> TradeUser]
  BY ZenonT(60), <1>1 DEF TradeUser
<1>3. us \in UserMap /\ DOMAIN us = Members /\ NumMember(us) = NumMember(users)
  BY <1>2, ChangedMap DEF IndInv
<1>4. \A v \in Members : /\ us[v].items = users[v].items /\ us[v].ed = users[v].ed
                         /\ us[v].offer = users[v].offer /\ us[v].dbInfo = users[v].dbInfo
  BY <1>1 DEF TradeUser
<1>5. CASE /\ fsm = "CONFIRM" /\ fsm' = StateTransition(fsm, "TO_DB_UPDATE")
           /\ users' = us /\ NumMember(us) = 2
           /\ sent' = Mirrored("CONFIRM_NOT", us) /\ sentDB' = {}
  <2> HIDE DEF us
  <2>1. fsm' = "DB_UPDATE"
    BY <1>5 DEF StateTransition
  <2> QED
    BY <1>3, <1>4, <1>5, <2>1 DEF Execution, SameDeal, GoodsOf, Members
<1>6. CASE Ignore
  BY <1>6, IgnoreLacks
<1>7. CASE fsm = "CONFIRM" /\ Keep(us, Silence)
  BY <1>7, PlainNotices DEF Keep
<1>8. CASE /\ fsm = "CONFIRM"
           /\ BreakTrade(us, WrongCount, Silence) \/ BreakTrade(users, BadGoods, Silence)
  <2> HIDE DEF us
  <2>1. fsm' = "CLOSE" /\ sentDB' = {}
    BY <1>8 DEF BreakTrade, StateTransition
  <2>2. \A type \in Final : Lacks(sent', type)
    BY <1>8, BreakSilently DEF WrongCount, BadGoods
  <2> QED
    BY <1>8, <2>1, <2>2
<1> HIDE DEF us
<1> QED
  BY <1>5, <1>6, <1>7, <1>8 DEF ConfirmTradeAck, us

LEMMA RequestOrders ==
  ASSUME IndInv, NEW u \in Units, Request(u), NEW type \in Final
  PROVE  Lacks(sent', type) \/ Execution
<1>1. ASSUME NEW gs \in Servers, NEW wallet \in Wallets, NEW peer \in Units,
             OpenTradeReq(u, gs, wallet, peer)
      PROVE  Lacks(sent', type)
  <2> DEFINE f == To(u, Plain("OPEN_ACK"))
             g == To(peer, Plain("ACCEPT_JOIN"))
  <2>1. f \in Notices /\ g \in Notices /\ Lacks(f, type) /\ Lacks(g, type)
    BY PlainTypes, NoticeTypes, PlainNotices DEF Plain, Final
  <2> HIDE DEF f, g
  <2>2. Lacks(Then(f, g), type)
    BY <2>1, ThenLacks
  <2> QED
    BY <1>1, <2>2, IgnoreLacks DEF OpenTradeReq, f, g
<1>2. ASSUME NEW gs \in Servers, NEW wallet \in Wallets, JoinTradeReq(u, gs, wallet)
      PROVE  Lacks(sent', type)
  BY <1>2, IgnoreLacks, BreakSilently, PlainNotices
  DEF JoinTradeReq, Keep, JoinFailed, Plain, Final
<1>3. ASSUME NEW reason \in Reasons, BreakTradeReq(u, reason)
      PROVE  Lacks(sent', type)
  <2>1. To(u, Plain("BREAK_ACK")) \in Notices /\ Lacks(To(u, Plain("BREAK_ACK")), type)
    BY PlainTypes, NoticeTypes, PlainNotices DEF Plain, Final
  <2>2. reason \in Nat
    BY ReasonAssumption
  <2> QED
    BY <1>3, <2>1, <2>2, IgnoreLacks, BreakLacks, PlainNotices DEF BreakTradeReq, Keep
<1>4. ASSUME NEW item \in Items, NEW delete \in BOOLEAN, UpdateTradeItemReq(u, item, delete)
      PROVE  Lacks(sent', type)
  <2>1. Lacks(ItemNotice(u, item, delete), type)
    BY PlainNotices DEF ItemNotice, Final
  <2> QED
    BY <1>4, <2>1, IgnoreLacks DEF UpdateTradeItemReq, Keep
<1>5. ASSUME NEW ed \in EDs, UpdateTradeEDReq(u, ed)
      PROVE  Lacks(sent', type)
  BY <1>5, IgnoreLacks, PlainNotices DEF UpdateTradeEDReq, Keep, Final
<1>6. ASSUME OfferTradeReq(u)
      PROVE  Lacks(sent', type)
  BY <1>6, IgnoreLacks, BreakSilently, PlainNotices DEF OfferTradeReq, Keep, NoGoods
<1>7. ASSUME ApproveTradeReq(u)
      PROVE  Lacks(sent', type)
  <2>1. \A us : Lacks(Mirrored("CONFIRM_REQ", us), type)
    BY DEF Lacks, Mirrored, Final
  <2> QED
    BY <1>7, <2>1, IgnoreLacks, BreakSilently, PlainNotices DEF ApproveTradeReq, Keep, WrongCount
<1>8. ASSUME NEW ok \in BOOLEAN, ConfirmTradeAck(u, ok)
      PROVE  Lacks(sent', type) \/ Execution
  BY <1>8, ConfirmOrders
<1>9. ASSUME NEW g \in DBInfo, DBUpdateTradeResultNot(u, g)
      PROVE  Lacks(sent', type)
  BY <1>9, IgnoreLacks, BreakSilently, PlainNotices
  DEF DBUpdateTradeResultNot, Keep, WrongCount, Cancelled
<1> QED
  BY <1>1, <1>2, <1>3, <1>4, <1>5, <1>6, <1>7, <1>8, <1>9 DEF Request

LEMMA NextOrders == IndInv /\ Next => Lacks(sent', "CONFIRM_NOT") \/ Execution
<1> SUFFICES ASSUME IndInv, Next PROVE Lacks(sent', "CONFIRM_NOT") \/ Execution
  OBVIOUS
<1>0. "CONFIRM_NOT" \in Final
  BY DEF Final
<1>1. ASSUME NEW gs \in Servers, CheckInvalidUser(gs) PROVE Lacks(sent', "CONFIRM_NOT")
  BY <1>0, <1>1, IgnoreLacks, BreakSilently DEF CheckInvalidUser, Cancelled
<1>2. ASSUME NEW ok \in BOOLEAN, NEW info \in DBInfos, DBUpdateTradeResultAck(ok, info)
      PROVE  Lacks(sent', "CONFIRM_NOT")
  <2> DEFINE n == [v \in Units |->
                     IF v \in DOMAIN info \cap Members
                     THEN <<[type |-> "COMPLETE_NOT", info |-> info[v]]>> ELSE <<>>]
  <2>1. Lacks(n, "CONFIRM_NOT")
    BY DEF Lacks
  <2>2. \A v \in DOMAIN info : info[v] \in DBInfo
    BY DEF DBInfos
  <2>3. \A v \in DOMAIN info : [type |-> "COMPLETE_NOT", info |-> info[v]] \in Message
    BY <2>2 DEF Message
  <2>4. n \in Notices
    BY <2>3 DEF Notices
  <2> HIDE DEF n
  <2> QED
    BY <1>0, <1>2, <2>1, <2>4, IgnoreLacks, BreakSilently, BreakLacks
    DEF DBUpdateTradeResultAck, WrongCount, Completed, n
<1>3. Tick => Lacks(sent', "CONFIRM_NOT")
  BY <1>0, BreakSilently, PlainNotices DEF Tick, CloseRoom, GiveUpWaiting, JoinLate
<1>4. WaitTimeout => Lacks(sent', "CONFIRM_NOT")
  BY PlainNotices DEF WaitTimeout
<1> QED
  BY <1>0, <1>1, <1>2, <1>3, <1>4, RequestOrders DEF Next

\* What both game servers are told to carry out is one deal seen from its two
\* ends, whoever asked for what in which order (ON_ERM_CONFIRM_TRADE_ACK
\* sends it to both members or to nobody).
THEOREM ExecutionHasTwoEnds == Spec => []ExecutionIsMutual
<1>1. ASSUME IndInv, Execution PROVE ExecutionIsMutual'
  <2>1. users \in UserMap /\ NumMember(users) = 2
    BY <1>1, TypeOKUsers DEF Execution, IndInv
  <2>2. DOMAIN users' = Members /\ Members \subseteq Units
    BY <1>1, <2>1, UserMapDomain DEF Execution, Members
  <2> DEFINE order(u) == [type |-> "CONFIRM_NOT", out |-> GoodsOf(users', u),
                          in |-> GoodsOf(users', Other(u))]
  <2>3. \A u \in Units : sent'[u] = IF u \in Members THEN <<order(u)>> ELSE <<>>
    BY <1>1, <2>2 DEF Execution, Mirrored
  <2>4. \A u \in Units : /\ u \in Members => Range(sent'[u]) = {order(u)}
                         /\ u \notin Members => Range(sent'[u]) = {}
    <3> HIDE DEF order
    <3>1. \A x : Range(<<x>>) = {x}
      BY DEF Range
    <3>2. Range(<<>>) = {}
      BY DEF Range
    <3> QED
      BY <2>3, <3>1, <3>2
  <2>5. ASSUME NEW u \in Members
        PROVE  Other(u) \in Members /\ Other(u) # u /\ Other(Other(u)) = u
    <3>1. Other(u) \in Members /\ Other(u) # u /\ Members = {u, Other(u)}
      BY <2>1, OtherMember
    <3>2. Other(Other(u)) \in Members /\ Other(Other(u)) # Other(u)
      BY <2>1, <3>1, OtherMember
    <3> QED
      BY <3>1, <3>2
  <2>6. ASSUME NEW u \in Members
        PROVE  /\ Other(u) \in Units \ {u} /\ order(Other(u)) \in Range(sent'[Other(u)])
               /\ order(Other(u)).out = order(u).in /\ order(Other(u)).in = order(u).out
               /\ order(Other(u)).type = "CONFIRM_NOT"
    BY <2>2, <2>4, <2>5
  <2> HIDE DEF order
  <2>7. ASSUME NEW u \in Units, NEW m \in Range(sent'[u])
        PROVE  \E v \in Units \ {u} : \E n \in Range(sent'[v]) :
                 n.type = "CONFIRM_NOT" /\ n.out = m.in /\ n.in = m.out
    <3>1. u \in Members /\ m = order(u)
      BY <2>4
    <3> QED
      BY <2>6, <3>1
  <2> QED
    BY <2>7 DEF ExecutionIsMutual
<1>2. ASSUME Lacks(sent', "CONFIRM_NOT") PROVE ExecutionIsMutual'
  BY <1>2 DEF Lacks, ExecutionIsMutual, Range
<1>3. ASSUME ExecutionIsMutual, UNCHANGED vars PROVE ExecutionIsMutual'
  BY <1>3 DEF vars, ExecutionIsMutual
<1>4. Init => ExecutionIsMutual
  BY DEF Init, Silence, ExecutionIsMutual, Range
<1>5. IndInv /\ ExecutionIsMutual /\ [Next]_vars => ExecutionIsMutual'
  BY <1>1, <1>2, <1>3, NextOrders
<1> QED
  BY <1>4, <1>5, RoomInvariant, PTL DEF Spec

-----------------------------------------------------------------------------
(* The room implements TradeDeal.                                          *)

LEMMA DealCardinality == \A S : Deal!Cardinality(S) = Cardinality(S)
  BY DEF Deal!Cardinality, Deal!IsFiniteSet, Cardinality, IsFiniteSet

LEMMA StageValues ==
  ASSUME IndInv
  PROVE  /\ fsm \in {"INIT", "CLOSE"} <=> Stage = "none"
         /\ fsm = "WAIT" <=> Stage = "open"
         /\ fsm = "CONFIRM" <=> Stage = "sealed"
         /\ fsm = "DB_UPDATE" <=> Stage = "executing"
         /\ Stage \in {"none", "open", "sealed", "executing"}
  BY DEF Stage, IndInv, TypeOK, FsmStates

LEMMA MappedDeal ==
  ASSUME IndInv
  PROVE  /\ DOMAIN OnTable = (IF Stage = "none" THEN {} ELSE Members)
         /\ \A u \in DOMAIN OnTable : OnTable[u] = GoodsOf(users, u)
         /\ Agreed = {u \in DOMAIN OnTable : users[u].offer}
  BY DEF OnTable, Agreed

LEMMA QuietStutters ==
  ASSUME IndInv, IndInv', QuietStep
  PROVE  UNCHANGED <<Stage, OnTable, Agreed>>
<1>1. Stage' = Stage
  BY DEF QuietStep, Stage
<1>2. Members' = Members
  BY DEF QuietStep, SameDeal, Members
<1>3. OnTable' = OnTable
  BY <1>1, <1>2 DEF OnTable, QuietStep, SameDeal
<1>4. Agreed' = Agreed
  BY <1>3, MappedDeal DEF Agreed, QuietStep, SameDeal
<1> QED
  BY <1>1, <1>3, <1>4

LEMMA StepImplements ==
  ASSUME IndInv, IndInv', Emptied, Kinds
  PROVE  Deal!Next \/ UNCHANGED <<Stage, OnTable, Agreed>>
<1>0. /\ Stage = "none" => DOMAIN OnTable = {} /\ Agreed = {}
      /\ Stage' = "none" => DOMAIN OnTable' = {} /\ Agreed' = {} /\ OnTable' = Deal!NoDeal
      /\ Stage # "none" => DOMAIN OnTable = Members
      /\ Stage' # "none" => DOMAIN OnTable' = Members'
  BY MappedDeal DEF OnTable, Agreed, Deal!NoDeal
<1>1. CASE QuietStep
  BY <1>1, QuietStutters
<1>2. CASE Opening
  <2>1. PICK u \in Units, gs \in Servers, wallet \in Wallets :
          users' = Entered(NoUsers, u, gs, wallet)
    BY <1>2 DEF Opening
  <2>2. Members' = {u} /\ users'[u] = NewUser(gs, wallet)
    BY <2>1, NoUsersMap DEF Entered, Members
  <2>3. Stage = "none" /\ Stage' = "open"
    BY <1>2, StageValues DEF Opening, Stage
  <2>4. OnTable' = [v \in {u} |-> Deal!Nothing]
    BY <2>2, <2>3 DEF OnTable, GoodsOf, NewUser, Deal!Nothing
  <2>5. Agreed' = {}
    BY <2>2, <2>4 DEF Agreed, NewUser
  <2>6. Deal!Open(u)
    BY <2>3, <2>4, <2>5 DEF Deal!Open
  <2> QED
    BY <2>6 DEF Deal!Next
<1>3. CASE Entry
  <2>1. PICK u \in Units, gs \in Servers, wallet \in Wallets :
          CanEnter(u) /\ users' = Entered(users, u, gs, wallet)
    BY <1>3 DEF Entry
  <2>2. /\ Members' = Members \cup {u} /\ u \notin Members
        /\ \A v \in Members : users'[v] = users[v]
        /\ users'[u] = NewUser(gs, wallet)
    BY <2>1, EntryFacts
  <2>3. Stage = "open" /\ Stage' = "open"
    BY <1>3 DEF Entry, Stage
  <2>4. OnTable' = [v \in Members \cup {u} |-> IF v = u THEN Deal!Nothing ELSE OnTable[v]]
    <3>1. GoodsOf(users', u) = Deal!Nothing
      BY <2>2 DEF GoodsOf, NewUser, Deal!Nothing
    <3>2. \A v \in Members : OnTable[v] = GoodsOf(users', v)
      BY <1>0, <2>2, <2>3, MappedDeal DEF GoodsOf
    <3> QED
      BY <2>2, <2>3, <3>1, <3>2 DEF OnTable
  <2>5. Agreed' = Agreed
    BY <1>0, <2>2, <2>3 DEF Agreed, NewUser
  <2>6. Cardinality(Members) < 2
    BY <2>1 DEF CanEnter, NumMember, Members
  <2>7. Deal!Enter(u)
    BY <1>0, <2>2, <2>3, <2>4, <2>5, <2>6, DealCardinality DEF Deal!Enter, Deal!Parties
  <2> QED
    BY <2>7 DEF Deal!Next
<1>4. CASE Departure
  <2>1. PICK u \in Units : users' = Without(users, {u})
    BY <1>4 DEF Departure
  <2>2. Members' = Members \ {u} /\ \A v \in Members' : users'[v] = users[v]
    BY <2>1, DepartureFacts
  <2>3. Stage \in {"open", "sealed"} /\ Stage' = Stage
    BY <1>4 DEF Departure, Stage
  <2>4. OnTable' = [v \in Members \ {u} |-> OnTable[v]]
    BY <2>2, <2>3 DEF OnTable, GoodsOf
  <2>5. Agreed' = Agreed \ {u}
    BY <1>0, <2>2, <2>3 DEF Agreed
  <2>6. Deal!Leave({u})
    BY <1>0, <2>3, <2>4, <2>5 DEF Deal!Leave, Deal!Parties
  <2> QED
    BY <2>6 DEF Deal!Next
<1>5. CASE ChangeOfGoods
  <2>1. PICK u \in Units, items \in SUBSET Items, ed \in EDs :
          HasOther(u) /\ ~users[u].offer /\ users' = Updated(u, items, ed)
    BY <1>5 DEF ChangeOfGoods
  <2> DEFINE g == [items |-> items, ed |-> ed]
  <2>2. /\ Members' = Members /\ Members = {u, Other(u)} /\ u # Other(u)
        /\ GoodsOf(users', u) = g /\ ~users'[u].offer
        /\ GoodsOf(users', Other(u)) = GoodsOf(users, Other(u))
        /\ ~users'[Other(u)].offer
    BY <2>1, ChangeFacts DEF GoodsOf
  <2>3. Stage = "open" /\ Stage' = "open"
    BY <1>5 DEF ChangeOfGoods, Stage
  <2>4. OnTable' = [OnTable EXCEPT ![u] = g]
    BY <2>2, <2>3 DEF OnTable
  <2>5. Agreed' = {}
    BY <1>0, <2>2, <2>3 DEF Agreed
  <2>6. Cardinality(DOMAIN OnTable) = 2 /\ u \in DOMAIN OnTable \ Agreed
    BY <1>0, <2>1, <2>3 DEF HasOther, NumMember, Members, Agreed
  <2>7. g \in Deal!Goods
    BY DEF Deal!Goods
  <2>8. Deal!Change(u, g)
    BY <2>3, <2>4, <2>5, <2>6, DealCardinality DEF Deal!Change, Deal!TwoParties, Deal!Parties
  <2> QED
    BY <2>7, <2>8 DEF Deal!Next
<1>6. CASE Offering
  <2>1. PICK u \in Units :
          /\ HasOther(u) /\ users' = [users EXCEPT ![u].offer = TRUE]
          /\ \/ ~AllOffered(users') /\ fsm' = "WAIT"
             \/ AllOffered(users') /\ ~NothingToTrade(users') /\ fsm' = "CONFIRM"
    BY <1>6 DEF Offering
  <2>2. /\ Members' = Members /\ u \in Members
        /\ \A v \in Members : GoodsOf(users', v) = GoodsOf(users, v)
        /\ users'[u].offer
        /\ \A v \in Members : v # u => users'[v].offer = users[v].offer
    BY <2>1, OfferFacts
  <2>3. Stage = "open" /\ Stage' \in {"open", "sealed"}
    BY <1>6, <2>1 DEF Offering, Stage
  <2>4. OnTable' = OnTable
    BY <2>2, <2>3 DEF OnTable
  <2>5. Agreed' = Agreed \cup {u}
    BY <1>0, <2>2, <2>3 DEF Agreed
  <2>6. AllOffered(users') <=> Agreed' = DOMAIN OnTable
    BY <1>0, <2>2, <2>3, <2>4 DEF AllOffered, Agreed, Members
  <2>7. ~NothingToTrade(users') =>
          \E v \in DOMAIN OnTable : OnTable[v].items # {} \/ OnTable[v].ed > 0
    <3>1. SUFFICES ASSUME NEW v \in Members, ~(users'[v].items = {} /\ users'[v].ed <= 0)
                   PROVE  OnTable[v].items # {} \/ OnTable[v].ed > 0
      BY <1>0, <2>2, <2>3 DEF NothingToTrade, Members
    <3>2. OnTable[v].items = users'[v].items /\ OnTable[v].ed = users'[v].ed
      BY <1>0, <2>2, <2>3 DEF OnTable, GoodsOf
    <3>3. users'[v].ed \in Int
      BY <2>2, AmountAssumption, TypeOKNext, UserMapDomain DEF IndInv, Members, TradeUser
    <3> QED
      BY <3>1, <3>2, <3>3
  <2>8. Cardinality(DOMAIN OnTable) = 2
    BY <1>0, <2>1, <2>3 DEF HasOther, NumMember, Members
  <2>9. \/ Agreed' # DOMAIN OnTable /\ Stage' = Stage
        \/ /\ Agreed' = DOMAIN OnTable /\ Stage' = "sealed"
           /\ \E v \in DOMAIN OnTable : OnTable[v].items # {} \/ OnTable[v].ed > 0
    BY <2>1, <2>3, <2>6, <2>7 DEF Stage
  <2>10. Deal!Agree(u)
    BY <1>0, <2>2, <2>3, <2>4, <2>5, <2>8, <2>9, DealCardinality
    DEF Deal!Agree, Deal!TwoParties, Deal!Parties, Deal!SomethingLaid
  <2> QED
    BY <2>10 DEF Deal!Next
<1>7. CASE MoveOn
  <2>1. Members' = Members
    BY <1>7 DEF MoveOn, SameDeal, Members
  <2>2. Stage = "sealed" /\ Stage' = "executing"
    BY <1>7 DEF MoveOn, Stage
  <2>3. OnTable' = OnTable
    BY <1>7, <2>1, <2>2 DEF OnTable, MoveOn, SameDeal
  <2>4. Agreed' = Agreed
    BY <1>0, <1>7, <2>2, <2>3 DEF Agreed, MoveOn, SameDeal
  <2>5. Cardinality(DOMAIN OnTable) = 2
    BY <1>0, <1>7, <2>2 DEF MoveOn, NumMember, Members
  <2>6. Deal!Execute
    BY <2>2, <2>3, <2>4, <2>5, DealCardinality DEF Deal!Execute, Deal!TwoParties, Deal!Parties
  <2> QED
    BY <2>6 DEF Deal!Next
<1>8. CASE Ending
  <2>1. Stage' = "none"
    BY <1>8 DEF Ending, Stage
  <2>2. CASE Stage = "none"
    BY <1>0, <2>1, <2>2 DEF OnTable
  <2>3. CASE Stage # "none"
    BY <1>0, <2>1, <2>3 DEF Deal!Next, Deal!End
  <2> QED
    BY <2>2, <2>3
<1> QED
  BY <1>1, <1>2, <1>3, <1>4, <1>5, <1>6, <1>7, <1>8 DEF Kinds

\* Past the last offer a deal is carried out as both offered it, by the same
\* two, or not at all: the handlers of Trade.cpp implement TradeDeal.
THEOREM RoomImplementsDeal == Spec => KeepsTheDeal
<1>1. Init => Deal!Init
  BY DEF Init, Deal!Init, Stage, OnTable, Agreed, Deal!NoDeal
<1>2. ASSUME IndInv, IndInv', Emptied, [Next]_vars
      PROVE  [Deal!Next]_(Deal!vars)
  BY <1>2, StepKinds, StepImplements DEF Deal!vars
<1> QED
  BY <1>1, <1>2, RoomInvariant, RoomIsEmptied, PTL DEF Spec, KeepsTheDeal, Deal!Spec

=============================================================================
