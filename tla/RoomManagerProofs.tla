-------------------------- MODULE RoomManagerProofs --------------------------
(***************************************************************************)
(* Proofs about RoomManager, for any rooms, game servers and lengths of    *)
(* the queues: the account of the pool, and what becomes of the users of a *)
(* game server that has died.                                              *)
(***************************************************************************)
EXTENDS RoomManager, TLAPS

-----------------------------------------------------------------------------
(* Queues.                                                                 *)

EventQueues == [Rooms -> Seq(Event)]

\* What queueing an event does to a room's queue.
LEMMA Queued ==
  ASSUME queue \in EventQueues, NEW r \in Rooms, NEW e \in Event, Queueing(r, e)
  PROVE  /\ queue' \in EventQueues
         /\ \A s \in Rooms \ {r} : queue'[s] = queue[s]
         /\ Len(queue[r]) \in Nat
         /\ DOMAIN queue[r] = 1..Len(queue[r])
         /\ DOMAIN queue'[r] = 1..(Len(queue[r]) + 1)
         /\ \A i \in DOMAIN queue[r] : queue'[r][i] = queue[r][i]
         /\ queue'[r][Len(queue[r]) + 1] = e
<1>1. queue[r] \in Seq(Event) /\ queue'[r] = Append(queue[r], e)
  BY DEF EventQueues, Queueing
<1> QED
  BY <1>1 DEF EventQueues, Queueing

\* What processing the first event leaves in it.
LEMMA Popped ==
  ASSUME queue \in EventQueues, NEW r \in Rooms, queue[r] # <<>>,
         queue' = [queue EXCEPT ![r] = Tail(@)]
  PROVE  /\ queue' \in EventQueues
         /\ \A s \in Rooms \ {r} : queue'[s] = queue[s]
         /\ Len(queue[r]) \in Nat \ {0}
         /\ Head(queue[r]) = queue[r][1]
         /\ Head(queue[r]) \in Event
         /\ DOMAIN queue[r] = 1..Len(queue[r])
         /\ DOMAIN queue'[r] = 1..(Len(queue[r]) - 1)
         /\ \A i \in DOMAIN queue'[r] : queue'[r][i] = queue[r][i + 1]
<1>1. queue[r] \in Seq(Event) /\ queue'[r] = Tail(queue[r])
  BY DEF EventQueues
<1>2. Len(queue[r]) \in Nat /\ Len(queue[r]) # 0
  BY <1>1
<1> QED
  BY <1>1, <1>2 DEF EventQueues

LEMMA EventTypes ==
  /\ \A p \in SUBSET Servers : Open(p) \in Event /\ Open(p).type = "OPEN"
  /\ \A gs \in Servers : /\ Join(gs) \in Event /\ Leave(gs) \in Event
                         /\ Check(gs) \in Event
                         /\ Join(gs).type = "JOIN" /\ Leave(gs).type = "LEAVE"
                         /\ Check(gs).type = "CHECK"
  /\ End \in Event /\ End.type = "END"
  BY DEF Event, Open, Join, Leave, Check, End

LEMMA OpenEvent ==
  ASSUME NEW e \in Event, e.type = "OPEN"
  PROVE  e.named \in SUBSET Servers
  BY DEF Event

-----------------------------------------------------------------------------
(* What a handler may do to the room it runs in.                           *)

\* Only an opening takes a room out of INIT, and only from INIT; no handler
\* takes it back there.
HandlerFacts(r, e) ==
  /\ fsm' \in [Rooms -> {"INIT", "WAIT", "CLOSE"}]
  /\ members' \in [Rooms -> SUBSET Servers]
  /\ \A s \in Rooms \ {r} : fsm'[s] = fsm[s] /\ members'[s] = members[s]
  /\ fsm[r] = "INIT" /\ e.type # "OPEN" => /\ fsm'[r] = "INIT"
                                           /\ members'[r] \subseteq members[r]
  /\ fsm[r] # "INIT" => fsm'[r] # "INIT"
  /\ fsm[r] = "INIT" /\ e.type = "OPEN" /\ r \notin GameRooms => fsm'[r] # "INIT"
  /\ \A gs \in members'[r] \ members[r] :
       \/ fsm[r] = "INIT" /\ e.type = "OPEN" /\ gs \in e.named
       \/ fsm[r] # "INIT" /\ e.type = "JOIN" /\ e.gs = gs
  /\ e.type = "CHECK" => e.gs \notin members'[r]

LEMMA Handled ==
  ASSUME TypeOK, NEW r \in Rooms, NEW e \in Event, Handle(r, e)
  PROVE  HandlerFacts(r, e)
<1> USE DEF HandlerFacts, Becomes, TypeOK
<1>1. CASE e.type = "OPEN" /\ HandleOpen(r, e.named)
  <2>1. e.named \subseteq Servers
    BY <1>1, OpenEvent
  <2>2. CASE fsm[r] = "INIT" /\ Becomes(r, "WAIT", e.named)
    BY <1>1, <2>1, <2>2
  <2>3. CASE fsm[r] = "INIT" /\ r \in GameRooms
               /\ \E p \in SUBSET e.named : Becomes(r, "INIT", p)
    BY <1>1, <2>1, <2>3
  <2>4. CASE fsm[r] = "INIT" /\ r \notin GameRooms /\ Becomes(r, "CLOSE", {})
    BY <1>1, <2>1, <2>4
  <2>5. CASE fsm[r] # "INIT" /\ UNCHANGED <<fsm, members>>
    BY <1>1, <2>5
  <2> QED
    BY <1>1, <2>2, <2>3, <2>4, <2>5 DEF HandleOpen
<1>2. CASE e.type = "JOIN" /\ HandleJoin(r, e.gs)
  <2>1. e.gs \in Servers
    BY <1>2 DEF Event
  <2> QED
    BY <1>2, <2>1 DEF HandleJoin
<1>3. CASE e.type = "LEAVE" /\ HandleLeave(r, e.gs)
  BY ZenonT(60), <1>3 DEF HandleLeave
<1>4. CASE e.type = "CHECK" /\ HandleCheck(r, e.gs)
  BY ZenonT(60), <1>4 DEF HandleCheck
<1>5. CASE e.type = "END" /\ HandleEnd(r)
  BY <1>5 DEF HandleEnd
<1> QED
  BY <1>1, <1>2, <1>3, <1>4, <1>5 DEF Handle

-----------------------------------------------------------------------------
(* The account of the pool.                                                *)

\* Each room is in one place: empty, claimed, with one opening in its queue,
\* or open; only a game room whose opening was refused is in none of them.
PoolInv ==
  /\ TypeOK
  /\ FreeIsFree
  /\ OneOpening
  /\ NoRoomIsLost

LEMMA PoolInit == Init => PoolInv
  BY KindAssumption
  DEF Init, PoolInv, TypeOK, FreeIsFree, OneOpening, NoRoomIsLost, Claims, Claimed,
      Visits, Opens, NoClaim, Idle, EventQueues

LEMMA ClaimRoom ==
  ASSUME TypeOK, claim # NoClaim
  PROVE  /\ claim.room \in Rooms
         /\ claim.event \in Event /\ claim.event.type = "OPEN"
         /\ claim.event.named \in SUBSET Servers
         /\ Claimed(claim.room)
  BY DEF TypeOK, Claims, NoClaim, Event, Claimed

LEMMA PoolRouteOpen ==
  ASSUME PoolInv, NEW gs \in Servers, RouteOpen(gs)
  PROVE  PoolInv'
<1>0. PICK kind \in Kinds :
        \E r \in Rooms, p \in Named(gs, kind) :
          /\ IsFirst(r, kind)
          /\ claim' = [on |-> TRUE, room |-> r, event |-> Open(p)]
          /\ free' = Taken(r)
  BY DEF RouteOpen
<1>1. PICK r \in Rooms, p \in Named(gs, kind) :
        /\ r \in free /\ fsm[r] = "INIT"
        /\ claim' = [on |-> TRUE, room |-> r, event |-> Open(p)]
        /\ free' = free \ {r}
  BY <1>0 DEF IsFirst, Openable, Taken
<1>2. p \in SUBSET Servers
  BY DEF Named
<1>3. UNCHANGED <<fsm, members, queue, visit, alive>> /\ claim = NoClaim
  BY DEF RouteOpen
<1>4. TypeOK'
  BY <1>1, <1>2, <1>3 DEF PoolInv, TypeOK, Claims, Open
<1>5. \A s \in Rooms : Opens(s)' = Opens(s) /\ (Claimed(s)' <=> s = r)
  BY <1>1, <1>3 DEF Opens, Claimed, NoClaim
<1>6. /\ r \notin free' /\ fsm'[r] = "INIT" /\ Opens(r) = {}
      /\ free' \subseteq free /\ Rooms \ free' = (Rooms \ free) \cup {r}
      /\ free \subseteq Rooms
  BY <1>1, <1>3 DEF PoolInv, FreeIsFree, TypeOK
<1>7. FreeIsFree'
  BY <1>1, <1>3, <1>5, <1>6 DEF PoolInv, FreeIsFree
<1>8. OneOpening'
  BY <1>3, <1>5, <1>6 DEF PoolInv, OneOpening
<1>9. NoRoomIsLost'
  BY <1>3, <1>5, <1>6 DEF PoolInv, NoRoomIsLost, Claimed
<1> QED
  BY <1>4, <1>7, <1>8, <1>9 DEF PoolInv

\* An event is queued: an opening by the thread that claimed the room, any
\* other by anybody.
LEMMA PoolQueue ==
  ASSUME PoolInv, NEW r \in Rooms, NEW e \in Event, Queueing(r, e),
         UNCHANGED <<free, fsm, members, visit, alive>>,
         \/ claim' = claim /\ e.type # "OPEN"
         \/ claim' = NoClaim /\ Claimed(r) /\ e.type = "OPEN"
  PROVE  PoolInv'
<1>1. queue \in EventQueues
  BY DEF PoolInv, TypeOK, EventQueues
<1>2. TypeOK'
  <2>1. queue' \in [Rooms -> Seq(Event)]
    BY <1>1, Queued DEF EventQueues
  <2>2. claim' \in Claims
    <3>1. NoClaim \in Claims
      BY DEF Claims, NoClaim
    <3>2. claim \in Claims
      BY DEF PoolInv, TypeOK
    <3> QED
      BY <3>1, <3>2
  <2> QED
    BY <2>1, <2>2 DEF PoolInv, TypeOK
<1>3. \A s \in Rooms \ {r} : Opens(s)' = Opens(s)
  BY <1>1, Queued DEF Opens
<1>4. CASE claim' = claim /\ e.type # "OPEN"
  <2>1. Opens(r)' = Opens(r)
    BY <1>1, <1>4, Queued DEF Opens
  <2>2. \A s \in Rooms : Opens(s)' = Opens(s) /\ Claimed(s)' = Claimed(s)
    BY <2>1, <1>3, <1>4 DEF Claimed
  <2> QED
    BY <1>2, <2>2 DEF PoolInv, FreeIsFree, OneOpening, NoRoomIsLost, TypeOK
<1>5. CASE claim' = NoClaim /\ Claimed(r) /\ e.type = "OPEN"
  <2>1. Opens(r) = {} /\ r \notin free /\ fsm[r] = "INIT"
    BY <1>5 DEF PoolInv, FreeIsFree, OneOpening
  <2>2. Opens(r)' = {Len(queue[r]) + 1}
    BY <1>1, <1>5, <2>1, Queued DEF Opens
  <2>3. \A s \in Rooms : ~Claimed(s)' /\ (Claimed(s) => s = r)
    BY <1>5 DEF Claimed
  <2>4. FreeIsFree'
    BY <1>3, <2>1, <2>3 DEF PoolInv, FreeIsFree, TypeOK
  <2>5. OneOpening'
    BY <1>3, <2>1, <2>2, <2>3 DEF PoolInv, OneOpening
  <2>6. NoRoomIsLost'
    BY <1>3, <2>1, <2>2, <2>3 DEF PoolInv, NoRoomIsLost
  <2> QED
    BY <1>2, <2>4, <2>5, <2>6 DEF PoolInv
<1> QED
  BY <1>4, <1>5

\* A game server dies: the notice is no opening.
LEMMA PoolServerDied ==
  ASSUME PoolInv, NEW gs \in Servers, ServerDied(gs)
  PROVE  PoolInv'
<1>1. \A s \in Rooms : queue[s] \in Seq(Event) /\ queue'[s] \in Seq(Event)
  BY EventTypes DEF PoolInv, TypeOK, ServerDied
<1>2. \A s \in Rooms : \/ queue'[s] = queue[s]
                       \/ queue'[s] = Append(queue[s], Check(gs))
  BY DEF ServerDied
<1>3. ASSUME NEW s \in Rooms PROVE Opens(s)' = Opens(s)
  <2>1. CASE queue'[s] = queue[s]
    BY <2>1 DEF Opens
  <2>2. CASE queue'[s] = Append(queue[s], Check(gs))
    <3>1. /\ DOMAIN queue'[s] = DOMAIN queue[s] \cup {Len(queue[s]) + 1}
          /\ \A i \in DOMAIN queue[s] : queue'[s][i] = queue[s][i]
          /\ queue'[s][Len(queue[s]) + 1] = Check(gs)
      BY <1>1, <2>2
    <3> QED
      BY <3>1, EventTypes DEF Opens
  <2> QED
    BY <1>2, <2>1, <2>2
<1>4. UNCHANGED <<free, fsm, members, claim, visit>> /\ alive' \subseteq alive
  BY DEF ServerDied
<1>5. TypeOK'
  <2>1. queue' \in [Rooms -> Seq(Event)]
    BY <1>1 DEF ServerDied
  <2> QED
    BY <1>4, <2>1 DEF PoolInv, TypeOK
<1>6. \A s \in Rooms : Opens(s)' = Opens(s) /\ Claimed(s)' = Claimed(s)
  BY <1>3, <1>4 DEF Claimed
<1> QED
  BY <1>4, <1>5, <1>6 DEF PoolInv, FreeIsFree, OneOpening, NoRoomIsLost, TypeOK

\* The manager's thread handles an event: the one opening of a room in INIT,
\* or something that leaves INIT alone.
LEMMA PoolHandleEvent ==
  ASSUME PoolInv, HandleEvent
  PROVE  PoolInv'
<1> SUFFICES ASSUME NEW r, r = visit.room,
                    NEW e, e = Head(queue[r])
             PROVE  PoolInv'
  OBVIOUS
<1>1. r \in Rooms
  BY DEF PoolInv, TypeOK, Visits, HandleEvent
<1>2. queue \in EventQueues /\ queue[r] # <<>> /\ queue' = [queue EXCEPT ![r] = Tail(@)]
  BY DEF PoolInv, TypeOK, EventQueues, HandleEvent
<1>3. UNCHANGED <<free, claim, visit, alive>> /\ Handle(r, e)
  BY DEF HandleEvent
<1>4. e \in Event /\ HandlerFacts(r, e)
  BY <1>1, <1>2, <1>3, Popped, Handled DEF PoolInv
<1>5. TypeOK'
  BY <1>1, <1>2, <1>3, <1>4, Popped DEF PoolInv, TypeOK, HandlerFacts, EventQueues
<1>6. \A s \in Rooms : Claimed(s)' = Claimed(s)
  BY <1>3 DEF Claimed
<1>7. \A s \in Rooms \ {r} : /\ Opens(s)' = Opens(s)
                              /\ fsm'[s] = fsm[s] /\ members'[s] = members[s]
  BY <1>1, <1>2, <1>4, Popped DEF Opens, HandlerFacts
<1>8. /\ e = queue[r][1] /\ Len(queue[r]) \in Nat \ {0}
      /\ DOMAIN queue[r] = 1..Len(queue[r])
      /\ DOMAIN queue'[r] = 1..(Len(queue[r]) - 1)
      /\ \A i \in DOMAIN queue'[r] : queue'[r][i] = queue[r][i + 1]
  BY <1>1, <1>2, Popped
<1>9. /\ \A i \in Opens(r)' : i \in Nat /\ i + 1 \in Opens(r) /\ i # 0
      /\ \A i \in Opens(r) : i = 1 \/ i - 1 \in Opens(r)'
  <2>1. \A i \in Opens(r)' : i \in Nat /\ i + 1 \in Opens(r) /\ i # 0
    BY <1>8 DEF Opens
  <2>2. ASSUME NEW i \in Opens(r), i # 1
        PROVE  i - 1 \in Opens(r)'
    <3>1. i \in 1..Len(queue[r]) /\ queue[r][i].type = "OPEN"
      BY <1>8 DEF Opens
    <3>2. i - 1 \in 1..(Len(queue[r]) - 1) /\ (i - 1) + 1 = i
      BY <1>8, <2>2, <3>1
    <3> QED
      BY <1>8, <3>1, <3>2 DEF Opens
  <2> QED
    BY <2>1, <2>2
<1>10. e.type = "OPEN" <=> 1 \in Opens(r)
  BY <1>8 DEF Opens
<1>11. \A i, j \in Opens(r) : i = j
  BY <1>1 DEF PoolInv, OneOpening
<1>12. CASE e.type = "OPEN"
  <2>1. /\ Opens(r) = {1} /\ Opens(r)' = {}
        /\ ~Claimed(r) /\ r \notin free /\ fsm[r] = "INIT"
    BY <1>1, <1>9, <1>10, <1>11, <1>12 DEF PoolInv, FreeIsFree, OneOpening
  <2>2. r \notin GameRooms => fsm'[r] # "INIT"
    BY <1>4, <1>12, <2>1 DEF HandlerFacts
  <2>3. FreeIsFree'
    BY <1>3, <1>6, <1>7, <2>1 DEF PoolInv, FreeIsFree, TypeOK
  <2>4. OneOpening'
    BY <1>6, <1>7, <2>1 DEF PoolInv, OneOpening
  <2>5. NoRoomIsLost'
    BY <1>3, <1>6, <1>7, <2>2 DEF PoolInv, NoRoomIsLost
  <2> QED
    BY <1>5, <2>3, <2>4, <2>5 DEF PoolInv
<1>13. CASE e.type # "OPEN"
  <2>1. /\ \A i, j \in Opens(r)' : i = j
        /\ Opens(r) = {} <=> Opens(r)' = {}
    BY <1>9, <1>10, <1>11, <1>13
  <2>2. /\ fsm[r] = "INIT" <=> fsm'[r] = "INIT"
        /\ fsm[r] = "INIT" => members'[r] \subseteq members[r]
    BY <1>4, <1>13 DEF HandlerFacts
  <2>3. FreeIsFree'
    BY <1>3, <1>6, <1>7, <2>1, <2>2 DEF PoolInv, FreeIsFree, TypeOK
  <2>4. OneOpening'
    BY <1>6, <1>7, <2>1, <2>2 DEF PoolInv, OneOpening
  <2>5. NoRoomIsLost'
    BY <1>3, <1>6, <1>7, <2>1, <2>2 DEF PoolInv, NoRoomIsLost
  <2> QED
    BY <1>5, <2>3, <2>4, <2>5 DEF PoolInv
<1> QED
  BY <1>12, <1>13

\* What the end of a room's Tick does to it.
LEMMA TickFacts ==
  ASSUME TypeOK, TickState, NEW r, r = visit.room
  PROVE  /\ r \in Rooms /\ TypeOK'
         /\ UNCHANGED <<queue, claim, alive>>
         /\ \A s \in Rooms \ {r} : /\ fsm'[s] = fsm[s] /\ members'[s] = members[s]
                                   /\ s \in free' <=> s \in free
         /\ \/ /\ fsm'[r] = "INIT" /\ members'[r] = {}
               /\ fsm[r] = "CLOSE" /\ r \in free'
            \/ /\ fsm'[r] = "INIT" <=> fsm[r] = "INIT"
               /\ members'[r] = members[r]
               /\ r \in free' <=> r \in free
<1>1. r \in Rooms
  BY DEF TypeOK, Visits, TickState
<1>2. visit' = Idle /\ UNCHANGED <<queue, claim, alive>>
  BY DEF TickState
<1> USE DEF TypeOK, Visits, Idle, Becomes
<1>3. CASE fsm[r] = "CLOSE" /\ CloseRoom(r)
  BY <1>1, <1>2, <1>3 DEF CloseRoom, Returned
<1>4. CASE fsm[r] = "WAIT" /\ HandleEnd(r) /\ UNCHANGED free
  BY ZenonT(60), <1>1, <1>2, <1>4 DEF HandleEnd
<1>5. CASE fsm[r] = "INIT" /\ UNCHANGED <<free, fsm, members>>
  BY <1>1, <1>2, <1>5
<1>6. fsm[r] \in {"INIT", "WAIT", "CLOSE"}
  BY <1>1
<1> QED
  BY <1>1, <1>3, <1>4, <1>5, <1>6 DEF TickState

LEMMA PoolTickState ==
  ASSUME PoolInv, TickState
  PROVE  PoolInv'
<1> SUFFICES ASSUME NEW r, r = visit.room PROVE PoolInv'
  OBVIOUS
<1>1. TypeOK
  BY DEF PoolInv
<1>2. /\ r \in Rooms /\ TypeOK'
      /\ UNCHANGED <<queue, claim, alive>>
      /\ \A s \in Rooms \ {r} : /\ fsm'[s] = fsm[s] /\ members'[s] = members[s]
                                /\ s \in free' <=> s \in free
  BY <1>1, TickFacts
<1>3. \A s \in Rooms : Opens(s)' = Opens(s) /\ Claimed(s)' = Claimed(s)
  BY <1>2 DEF Opens, Claimed
<1>4. free' \subseteq Rooms /\ free \subseteq Rooms
  BY <1>1, <1>2 DEF TypeOK
<1>5. CASE fsm'[r] = "INIT" /\ members'[r] = {} /\ fsm[r] = "CLOSE" /\ r \in free'
  <2>1. ~Claimed(r) /\ Opens(r) = {}
    BY <1>2, <1>5 DEF PoolInv, OneOpening
  <2> QED
    BY <1>2, <1>3, <1>4, <1>5, <2>1 DEF PoolInv, FreeIsFree, OneOpening, NoRoomIsLost
<1>6. CASE /\ fsm'[r] = "INIT" <=> fsm[r] = "INIT"
           /\ members'[r] = members[r]
           /\ r \in free' <=> r \in free
  BY <1>2, <1>3, <1>4, <1>6 DEF PoolInv, FreeIsFree, OneOpening, NoRoomIsLost
<1> QED
  BY <1>1, <1>5, <1>6, TickFacts
-----------------------------------------------------------------------------
\* The account of the pool holds in every reachable state, whatever the router,
\* the other threads and the manager's thread do in whatever order: OpenRoom
\* and CloseRoom never hand a room out twice, an opening always finds its room
\* in INIT, and no room is lost unless a refused opening leaves it there.
THEOREM PoolInvariant == Spec => []PoolInv
<1>1. Init => PoolInv
  BY PoolInit
<1>2. PoolInv /\ [Next]_vars => PoolInv'
  <2> SUFFICES ASSUME PoolInv, [Next]_vars PROVE PoolInv'
    OBVIOUS
  <2>1. ASSUME NEW gs \in Servers, RouteOpen(gs) PROVE PoolInv'
    BY <2>1, PoolRouteOpen
  <2>2. ASSUME NEW gs \in Servers, NEW r \in Rooms, RouteEvent(gs, r) PROVE PoolInv'
    BY <2>2, PoolQueue, EventTypes DEF RouteEvent
  <2>3. ASSUME NEW r \in Rooms, OtherEvent(r) PROVE PoolInv'
    BY <2>3, PoolQueue, EventTypes DEF OtherEvent
  <2>4. CASE QueueOpen
    BY <2>4, PoolQueue, ClaimRoom DEF QueueOpen, PoolInv
  <2>5. ASSUME NEW gs \in Servers, ServerDied(gs) PROVE PoolInv'
    BY <2>5, PoolServerDied
  <2>6. CASE HandleEvent
    BY <2>6, PoolHandleEvent
  <2>7. CASE TickState
    BY <2>7, PoolTickState
  <2>8. ASSUME UNCHANGED <<free, fsm, members, queue, claim>>,
               visit' \in Visits, alive' \subseteq Servers
        PROVE  PoolInv'
    BY <2>8 DEF PoolInv, TypeOK, FreeIsFree, OneOpening, NoRoomIsLost, Opens, Claimed
  <2>9. ASSUME NEW r \in Rooms, Visit(r) PROVE PoolInv'
    BY <2>8, <2>9 DEF Visit, Visits, PoolInv, TypeOK
  <2>10. CASE Drained
    BY <2>8, <2>10 DEF Drained, Visits, PoolInv, TypeOK
  <2>11. ASSUME NEW gs \in Servers, ServerConnected(gs) \/ RefuseOpen(gs) PROVE PoolInv'
    BY <2>8, <2>11 DEF ServerConnected, RefuseOpen, vars, PoolInv, TypeOK
  <2>12. CASE UNCHANGED vars
    BY <2>8, <2>12 DEF vars, PoolInv, TypeOK
  <2> QED
    BY <2>1, <2>2, <2>3, <2>4, <2>5, <2>6, <2>7, <2>9, <2>10, <2>11, <2>12 DEF Next
<1> QED
  BY <1>1, <1>2, PTL DEF Spec

\* Every variable of the pool keeps its type.
THEOREM PoolTypeCorrect == Spec => []TypeOK
BY PoolInvariant, PTL DEF PoolInv

\* An empty room is nobody's: in INIT, with nobody inside and no opening under
\* way to it.
THEOREM EmptyRoomIsFree == Spec => []FreeIsFree
BY PoolInvariant, PTL DEF PoolInv

\* A room is opened for one request at a time, and that request finds it in
\* INIT.
THEOREM OpenedOnce == Spec => []OneOpening
BY PoolInvariant, PTL DEF PoolInv

\* Where a refused opening closes its room (trade, personal shop), no UID leaks.
THEOREM PoolIsComplete == Spec => []NoRoomIsLost
BY PoolInvariant, PTL DEF PoolInv
-----------------------------------------------------------------------------
(* The users of a dead game server.                                        *)

\* The notice that gs is gone stands behind the i-th event of the room's queue
\* (behind none for i = 0).
NoticeBehind(r, i, gs) == \E j \in DOMAIN queue[r] : j > i /\ queue[r][j] = Check(gs)

\* No event in front of the i-th will open the room, which is in INIT.
StaysShut(r, i) == fsm[r] = "INIT" /\ \A k \in Opens(r) : k > i

\* NoGhosts says nothing of users that are still to enter.  Whatever could bring
\* a dead server's user in has the notice behind it, or is a join that will find
\* the room shut: it may have been sent to an empty room, which gets no notice.
\* And between the two steps of an opening no server dies.
NoticesFollow ==
  /\ \A r \in Rooms \ GameRooms : \A gs \in Servers \ alive :
       /\ gs \in members[r] => NoticeBehind(r, 0, gs)
       /\ \A i \in DOMAIN queue[r] :
            /\ queue[r][i].type = "OPEN" /\ gs \in queue[r][i].named
                 => NoticeBehind(r, i, gs)
            /\ queue[r][i] = Join(gs) => NoticeBehind(r, i, gs) \/ StaysShut(r, i)
  /\ claim # NoClaim /\ claim.room \notin GameRooms => claim.event.named \subseteq alive

LEMMA NoticesInit == Init => NoticesFollow
  BY DEF Init, NoticesFollow, NoClaim

\* An event is queued by a thread that may queue it.
LEMMA NoticesQueue ==
  ASSUME PoolInv, NoticesFollow, NEW r \in Rooms, NEW e \in Event, Queueing(r, e),
         UNCHANGED <<fsm, members, alive>>,
         claim' = claim \/ claim' = NoClaim,
         e.type = "OPEN" => r \in GameRooms \/ e.named \subseteq alive,
         \A gs \in Servers : e = Join(gs) => gs \in alive
  PROVE  NoticesFollow'
<1>1. queue \in EventQueues
  BY DEF PoolInv, TypeOK, EventQueues
<1>2. /\ \A s \in Rooms \ {r} : queue'[s] = queue[s]
      /\ Len(queue[r]) \in Nat
      /\ DOMAIN queue[r] = 1..Len(queue[r])
      /\ DOMAIN queue'[r] = 1..(Len(queue[r]) + 1)
      /\ \A i \in DOMAIN queue[r] : queue'[r][i] = queue[r][i]
      /\ queue'[r][Len(queue[r]) + 1] = e
  BY <1>1, Queued
<1>3. ASSUME NEW s \in Rooms, NEW i, NEW gs, NoticeBehind(s, i, gs)
      PROVE  NoticeBehind(s, i, gs)'
  BY <1>2, <1>3 DEF NoticeBehind
<1>4. ASSUME NEW s \in Rooms, NEW i \in DOMAIN queue[s], StaysShut(s, i)
      PROVE  StaysShut(s, i)'
  BY <1>2, <1>4 DEF StaysShut, Opens
<1>5. ASSUME NEW s \in Rooms \ GameRooms, NEW gs \in Servers \ alive
      PROVE  /\ gs \in members[s] => NoticeBehind(s, 0, gs)'
             /\ \A i \in DOMAIN queue'[s] :
                  /\ queue'[s][i].type = "OPEN" /\ gs \in queue'[s][i].named
                       => NoticeBehind(s, i, gs)'
                  /\ queue'[s][i] = Join(gs) => NoticeBehind(s, i, gs)' \/ StaysShut(s, i)'
  <2>1. gs \in members[s] => NoticeBehind(s, 0, gs)'
    BY <1>3, <1>5 DEF NoticesFollow
  <2>2. ASSUME NEW i \in DOMAIN queue[s]
        PROVE  /\ queue[s][i].type = "OPEN" /\ gs \in queue[s][i].named
                    => NoticeBehind(s, i, gs)'
               /\ queue[s][i] = Join(gs) => NoticeBehind(s, i, gs)' \/ StaysShut(s, i)'
    BY <1>3, <1>4, <1>5, <2>2 DEF NoticesFollow
  <2>3. CASE s # r
    BY <1>2, <2>1, <2>2, <2>3
  <2>4. CASE s = r
    <3>1. ASSUME NEW i \in DOMAIN queue'[s]
          PROVE  (i \in DOMAIN queue[s] /\ queue'[s][i] = queue[s][i]) \/ queue'[s][i] = e
      BY <1>2, <2>4
    <3>2. /\ e.type = "OPEN" => gs \notin e.named
          /\ e # Join(gs)
      BY <1>5, <2>4
    <3> QED
      BY <2>1, <2>2, <3>1, <3>2
  <2> QED
    BY <2>3, <2>4
<1>6. (claim # NoClaim /\ claim.room \notin GameRooms => claim.event.named \subseteq alive)'
  BY DEF NoticesFollow
<1> QED
  BY <1>5, <1>6 DEF NoticesFollow

\* A game server dies: where somebody of it is inside or on the way in, the room
\* is in use and gets the notice, behind everything.
LEMMA NoticesServerDied ==
  ASSUME PoolInv, NoticesFollow, NEW dead \in Servers, ServerDied(dead)
  PROVE  NoticesFollow'
<1>1. /\ UNCHANGED <<free, fsm, members>> /\ claim' = NoClaim
      /\ alive' = alive \ {dead}
      /\ \A s \in Rooms : queue[s] \in Seq(Event)
  BY DEF ServerDied, PoolInv, TypeOK
<1>2. ASSUME NEW s \in Rooms, NEW gs \in Servers \ alive'
      PROVE  /\ gs \in members[s] => NoticeBehind(s, 0, gs)' \/ s \in GameRooms
             /\ \A i \in DOMAIN queue'[s] :
                  /\ queue'[s][i].type = "OPEN" /\ gs \in queue'[s][i].named
                       => NoticeBehind(s, i, gs)' \/ s \in GameRooms
                  /\ queue'[s][i] = Join(gs)
                       => NoticeBehind(s, i, gs)' \/ StaysShut(s, i)' \/ s \in GameRooms
  <2>1. CASE s \in free
    <3>1. /\ queue'[s] = queue[s] /\ members[s] = {}
          /\ fsm[s] = "INIT" /\ Opens(s) = {}
      BY <2>1 DEF ServerDied, InUse, PoolInv, FreeIsFree
    <3> QED
      BY <1>1, <3>1 DEF Opens, StaysShut
  <2>2. CASE s \notin free
    <3>1. queue'[s] = Append(queue[s], Check(dead))
      BY <2>2 DEF ServerDied, InUse
    <3>2. /\ Len(queue[s]) \in Nat
          /\ DOMAIN queue[s] = 1..Len(queue[s])
          /\ DOMAIN queue'[s] = 1..(Len(queue[s]) + 1)
          /\ \A i \in DOMAIN queue[s] : queue'[s][i] = queue[s][i]
          /\ queue'[s][Len(queue[s]) + 1] = Check(dead)
      BY <1>1, <3>1
    <3>3. \A i \in DOMAIN queue'[s] :
            \/ i \in DOMAIN queue[s]
            \/ queue'[s][i].type = "CHECK" /\ queue'[s][i] # Join(gs)
      BY <3>2 DEF Check, Join
    <3>4. CASE gs = dead
      <4>1. NoticeBehind(s, 0, gs)' /\ \A i \in DOMAIN queue[s] : NoticeBehind(s, i, gs)'
        BY <3>2, <3>4 DEF NoticeBehind
      <4> QED
        BY <3>3, <4>1
    <3>5. CASE gs # dead
      <4>1. gs \in Servers \ alive
        BY <1>1, <3>5
      <4>2. \A i : NoticeBehind(s, i, gs) => NoticeBehind(s, i, gs)'
        BY <3>2 DEF NoticeBehind
      <4>3. \A i \in DOMAIN queue[s] : StaysShut(s, i) => StaysShut(s, i)'
        BY <1>1, <3>2, <3>3 DEF StaysShut, Opens
      <4> QED
        BY <3>2, <3>3, <4>1, <4>2, <4>3 DEF NoticesFollow
    <3> QED
      BY <3>4, <3>5
  <2> QED
    BY <2>1, <2>2
<1> QED
  BY <1>1, <1>2 DEF NoticesFollow

\* The manager's thread handles an event: a notice clears the room of its
\* server's users, and who enters has the notice behind it.
LEMMA NoticesHandleEvent ==
  ASSUME PoolInv, NoticesFollow, HandleEvent
  PROVE  NoticesFollow'
<1> SUFFICES ASSUME NEW r, r = visit.room,
                    NEW e, e = Head(queue[r])
             PROVE  NoticesFollow'
  OBVIOUS
<1>1. r \in Rooms
  BY DEF PoolInv, TypeOK, Visits, HandleEvent
<1>2. queue \in EventQueues /\ queue[r] # <<>> /\ queue' = [queue EXCEPT ![r] = Tail(@)]
  BY DEF PoolInv, TypeOK, EventQueues, HandleEvent
<1>3. UNCHANGED <<free, claim, visit, alive>> /\ Handle(r, e)
  BY DEF HandleEvent
<1>4. e \in Event /\ HandlerFacts(r, e)
  BY <1>1, <1>2, <1>3, Popped, Handled DEF PoolInv
<1>5. /\ e = queue[r][1] /\ Len(queue[r]) \in Nat \ {0}
      /\ DOMAIN queue[r] = 1..Len(queue[r])
      /\ DOMAIN queue'[r] = 1..(Len(queue[r]) - 1)
      /\ \A i \in DOMAIN queue'[r] : queue'[r][i] = queue[r][i + 1]
      /\ \A s \in Rooms \ {r} : queue'[s] = queue[s]
  BY <1>1, <1>2, Popped
<1>6. ASSUME NEW i \in Nat, NEW gs, NoticeBehind(r, i + 1, gs)
      PROVE  NoticeBehind(r, i, gs)'
  <2>1. PICK j \in DOMAIN queue[r] : j > i + 1 /\ queue[r][j] = Check(gs)
    BY <1>6 DEF NoticeBehind
  <2>2. j - 1 \in DOMAIN queue'[r] /\ queue'[r][j - 1] = Check(gs) /\ j - 1 > i
    BY SMTT(30), <1>5, <2>1
  <2> QED
    BY <2>2 DEF NoticeBehind
<1>7. ASSUME NEW i \in DOMAIN queue'[r], StaysShut(r, i + 1)
      PROVE  StaysShut(r, i)'
  <2>1. i \in Nat \ {0} /\ i + 1 \in DOMAIN queue[r]
    BY <1>5
  <2>2. e.type # "OPEN"
    BY <1>5, <1>7, <2>1 DEF StaysShut, Opens
  <2>3. fsm'[r] = "INIT"
    BY <1>4, <1>7, <2>2 DEF HandlerFacts, StaysShut
  <2>4. ASSUME NEW k \in Opens(r)' PROVE k > i
    <3>1. k \in Nat /\ k + 1 \in Opens(r)
      BY SMTT(30), <1>5 DEF Opens
    <3> QED
      BY <1>7, <2>1, <3>1 DEF StaysShut
  <2> QED
    BY <2>3, <2>4 DEF StaysShut
<1>8. ASSUME r \notin GameRooms, NEW gs \in Servers \ alive
      PROVE  /\ gs \in members'[r] => NoticeBehind(r, 0, gs)'
             /\ \A i \in DOMAIN queue'[r] :
                  /\ queue'[r][i].type = "OPEN" /\ gs \in queue'[r][i].named
                       => NoticeBehind(r, i, gs)'
                  /\ queue'[r][i] = Join(gs) => NoticeBehind(r, i, gs)' \/ StaysShut(r, i)'
  <2>1. ASSUME gs \in members'[r] PROVE NoticeBehind(r, 1, gs)
    <3>1. e # Check(gs)
      BY <1>4, <2>1 DEF HandlerFacts, Check
    <3>2. CASE gs \in members[r]
      <4>1. NoticeBehind(r, 0, gs)
        BY <1>1, <1>8, <3>2 DEF NoticesFollow
      <4> QED
        BY <1>5, <3>1, <4>1 DEF NoticeBehind
    <3>3. CASE e.type = "OPEN" /\ gs \in e.named
      BY <1>1, <1>5, <1>8, <3>3 DEF NoticesFollow
    <3>4. CASE fsm[r] # "INIT" /\ e.type = "JOIN" /\ e.gs = gs
      <4>1. e = Join(gs)
        BY <1>4, <3>4 DEF Event, Join
      <4> QED
        BY <1>1, <1>5, <1>8, <3>4, <4>1 DEF NoticesFollow, StaysShut
    <3> QED
      BY <1>4, <2>1, <3>2, <3>3, <3>4 DEF HandlerFacts
  <2>2. \A i \in DOMAIN queue'[r] : i \in Nat /\ i + 1 \in DOMAIN queue[r]
    BY <1>5
  <2> QED
    BY <1>1, <1>5, <1>6, <1>7, <1>8, <2>1, <2>2 DEF NoticesFollow
<1>9. \A s \in Rooms \ {r} : /\ members'[s] = members[s]
                             /\ \A i, gs : /\ NoticeBehind(s, i, gs) => NoticeBehind(s, i, gs)'
                                           /\ StaysShut(s, i) => StaysShut(s, i)'
  BY <1>4, <1>5 DEF HandlerFacts, NoticeBehind, StaysShut, Opens
<1> QED
  BY <1>3, <1>5, <1>8, <1>9 DEF NoticesFollow

\* Steps that leave the queues alone bring nobody in and open no room.
LEMMA NoticesElsewhere ==
  ASSUME NoticesFollow, UNCHANGED queue, alive \subseteq alive',
         \A r \in Rooms : /\ members'[r] \subseteq members[r]
                          /\ fsm[r] = "INIT" => fsm'[r] = "INIT",
         claim' = claim \/ claim'.room \in GameRooms \/ claim'.event.named \subseteq alive'
  PROVE  NoticesFollow'
<1>1. \A r \in Rooms : \A i, gs : /\ NoticeBehind(r, i, gs) => NoticeBehind(r, i, gs)'
                                  /\ StaysShut(r, i) => StaysShut(r, i)'
  BY DEF NoticeBehind, StaysShut, Opens
<1> QED
  BY <1>1 DEF NoticesFollow

LEMMA NoticesRouteOpen ==
  ASSUME NoticesFollow, NEW gs \in Servers, RouteOpen(gs)
  PROVE  NoticesFollow'
<1>0. PICK kind \in Kinds :
        \E r \in Rooms, p \in Named(gs, kind) :
          IsFirst(r, kind) /\ claim' = [on |-> TRUE, room |-> r, event |-> Open(p)]
  BY DEF RouteOpen
<1>1. PICK r \in Rooms, p \in Named(gs, kind) :
        IsFirst(r, kind) /\ claim' = [on |-> TRUE, room |-> r, event |-> Open(p)]
  BY <1>0
<1>2. r \in GameRooms \/ p = {gs}
  BY <1>1 DEF IsFirst, Openable, Kinds, Named
<1>3. claim'.room \in GameRooms \/ claim'.event.named \subseteq alive
  BY <1>1, <1>2 DEF RouteOpen, Open
<1> QED
  BY <1>3, NoticesElsewhere DEF RouteOpen

LEMMA NoticesTickState ==
  ASSUME PoolInv, NoticesFollow, TickState
  PROVE  NoticesFollow'
<1>1. TypeOK
  BY DEF PoolInv
<1>2. /\ UNCHANGED <<queue, claim, alive>>
      /\ \A r \in Rooms : /\ members'[r] \subseteq members[r]
                          /\ fsm[r] = "INIT" => fsm'[r] = "INIT"
  BY <1>1, TickFacts
<1> QED
  BY <1>2, NoticesElsewhere

LEMMA NoticesInvariant == Spec => []NoticesFollow
<1>1. PoolInv /\ NoticesFollow /\ [Next]_vars => NoticesFollow'
  <2> SUFFICES ASSUME PoolInv, NoticesFollow, [Next]_vars PROVE NoticesFollow'
    OBVIOUS
  <2>1. ASSUME NEW gs \in Servers, NEW r \in Rooms, RouteEvent(gs, r) PROVE NoticesFollow'
    <3>1. PICK e \in {Join(gs), Leave(gs)} : Queueing(r, e)
      BY <2>1 DEF RouteEvent
    <3>2. /\ e \in Event /\ e.type # "OPEN"
          /\ \A s \in Servers : e = Join(s) => s = gs
      BY DEF Join, Leave, Event
    <3> QED
      BY <2>1, <3>1, <3>2, NoticesQueue DEF RouteEvent
  <2>2. ASSUME NEW r \in Rooms, OtherEvent(r) PROVE NoticesFollow'
    <3>1. End \in Event /\ End.type # "OPEN" /\ \A s \in Servers : End # Join(s)
      BY DEF End, Join, Event
    <3> QED
      BY <2>2, <3>1, NoticesQueue DEF OtherEvent
  <2>3. CASE QueueOpen
    <3>1. /\ claim.room \in Rooms /\ claim.event \in Event /\ claim.event.type = "OPEN"
          /\ claim.room \in GameRooms \/ claim.event.named \subseteq alive
      BY <2>3, ClaimRoom DEF QueueOpen, PoolInv, NoticesFollow
    <3>2. \A s \in Servers : claim.event # Join(s)
      BY <3>1 DEF Join
    <3> QED
      BY <2>3, <3>1, <3>2, NoticesQueue DEF QueueOpen
  <2>4. ASSUME NEW gs \in Servers, RouteOpen(gs) PROVE NoticesFollow'
    BY <2>4, NoticesRouteOpen
  <2>5. ASSUME NEW gs \in Servers, ServerDied(gs) PROVE NoticesFollow'
    BY <2>5, NoticesServerDied
  <2>6. CASE HandleEvent
    BY <2>6, NoticesHandleEvent
  <2>7. CASE TickState
    BY <2>7, NoticesTickState
  <2>8. ASSUME UNCHANGED <<fsm, members, queue, claim>>, alive \subseteq alive'
        PROVE  NoticesFollow'
    BY <2>8, NoticesElsewhere
  <2>9. ASSUME NEW r \in Rooms, Visit(r) PROVE NoticesFollow'
    BY <2>8, <2>9 DEF Visit
  <2>10. CASE Drained
    BY <2>8, <2>10 DEF Drained
  <2>11. ASSUME NEW gs \in Servers, ServerConnected(gs) \/ RefuseOpen(gs)
         PROVE  NoticesFollow'
    BY <2>8, <2>11 DEF ServerConnected, RefuseOpen, vars
  <2>12. CASE UNCHANGED vars
    BY <2>8, <2>12 DEF vars
  <2> QED
    BY <2>1, <2>2, <2>3, <2>4, <2>5, <2>6, <2>7, <2>9, <2>10, <2>11, <2>12 DEF Next
<1> QED
  BY <1>1, NoticesInit, PoolInvariant, PTL DEF Spec

\* Whoever of a dead game server is inside a trade room or a shop has the notice
\* that takes it out in the room's queue, however deaths, reconnections and late
\* joins interleave (KCnUser::OnDestroy and QueueingToAll).
THEOREM GhostsAreTakenOut == Spec => []NoGhosts
<1>1. PoolInv /\ NoticesFollow => NoGhosts
  BY DEF PoolInv, TypeOK, NoticesFollow, NoGhosts, NoticeBehind
<1> QED
  BY <1>1, PoolInvariant, NoticesInvariant, PTL
=============================================================================
