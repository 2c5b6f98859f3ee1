----------------------------- MODULE RoomManager -----------------------------
(***************************************************************************)
(* The pools of rooms of the center server (KCnRoomManager): how a room is *)
(* handed out, how events find it, how the manager's thread runs it and    *)
(* takes it back.                                                          *)
(*                                                                         *)
(* Three kinds of thread meet here.  The SimLayer thread runs the sessions *)
(* of the game servers (KCnUser) and routes their requests: an opening     *)
(* request takes a room out of the list of empty rooms and only then       *)
(* queues the request to it, so that the two steps can be separated.       *)
(* Other threads (the game DB's, the UDP session's) queue events to a room *)
(* they know by its UID.  The manager's thread visits the rooms: it drains *)
(* a room's queue and then gives the room back when it has closed.         *)
(*                                                                         *)
(* Of the rooms themselves the module keeps what all their classes share:  *)
(* the states INIT, WAIT (everything between opening and closing) and      *)
(* CLOSE, and the game servers whose users are inside.  The manager keeps  *)
(* a list of empty rooms for each type of room; the types differ here in   *)
(* being game rooms (dungeon and match rooms) or not (trades, shops).      *)
(***************************************************************************)
EXTENDS Naturals, Sequences, FiniteSets

CONSTANTS
  Rooms,          \* the UIDs of the rooms, in the order of the map
  Servers,        \* game servers
  GameRooms,      \* those that are opened for a party, which may have members
                  \*   on several game servers, and stay in INIT if they refuse;
                  \*   the others are opened for the sender of the request, and
                  \*   pass through WAIT to CLOSE if they refuse
  MaxQueue        \* bound on each room's queue, for TLC

ASSUME RoomAssumption == Rooms \subseteq Nat
ASSUME KindAssumption == GameRooms \subseteq Rooms

VARIABLES
  free,       \* m_mapEmptyRoomList
  fsm,        \* the state of each room
  members,    \* the game servers with users in each room
  queue,      \* each room's KPerformer::m_queEvent
  claim,      \* the opening the SimLayer thread is between its two steps of
  visit,      \* where the manager's thread is: a room and a step of its Tick
  alive       \* game servers that are connected

vars == <<free, fsm, members, queue, claim, visit, alive>>

NoClaim == [on |-> FALSE]
Idle    == [at |-> "IDLE"]

Open(named) == [type |-> "OPEN", named |-> named]
Join(gs)    == [type |-> "JOIN", gs |-> gs]
Leave(gs)   == [type |-> "LEAVE", gs |-> gs]
Check(gs)   == [type |-> "CHECK", gs |-> gs]    \* ERM_CHECK_INVALID_USER_NOT
End         == [type |-> "END"]

Event == [type : {"OPEN"}, named : SUBSET Servers]
           \cup [type : {"JOIN", "LEAVE", "CHECK"}, gs : Servers]
           \cup [type : {"END"}]

Init ==
  /\ free = Rooms
  /\ fsm = [r \in Rooms |-> "INIT"]
  /\ members = [r \in Rooms |-> {}]
  /\ queue = [r \in Rooms |-> <<>>]
  /\ claim = NoClaim
  /\ visit = Idle
  /\ alive = Servers

-----------------------------------------------------------------------------
(* The threads that route events to rooms.                                 *)

HasSpace(r) == Len(queue[r]) < MaxQueue[r]
Queueing(r, e) == queue' = [queue EXCEPT ![r] = Append(@, e)]

\* Definitions named X_bug are plausible bugs of X.  No specification uses
\* them: each shows that some property would notice it.
Taken_bug(r) == free    \* the entry is left in the list
Taken(r) == free \ {r}

\* KCnRoomManager::OpenRoom: the first empty room of the type that is in INIT,
\* taken out of the list under its lock.
Kinds == {GameRooms, Rooms \ GameRooms}
Openable(kind) == {r \in free \cap kind : fsm[r] = "INIT"}
IsFirst(r, kind) == r \in Openable(kind) /\ \A s \in Openable(kind) : r <= s

\* Whose users an opening request of gs brings into the room.
Named(gs, kind) ==
  IF kind = GameRooms THEN {p \in SUBSET Servers : gs \in p} ELSE {{gs}}

\* An opening request: the room is claimed now and the request queued later.
RouteOpen(gs) ==
  /\ claim = NoClaim /\ gs \in alive
  /\ \E kind \in Kinds : \E r \in Rooms, p \in Named(gs, kind) :
       /\ IsFirst(r, kind)
       /\ claim' = [on |-> TRUE, room |-> r, event |-> Open(p)]
       /\ free' = Taken(r)
  /\ UNCHANGED <<fsm, members, queue, visit, alive>>

\* No room can be claimed: the requester is told, and nothing is queued.
RefuseOpen(gs) ==
  /\ claim = NoClaim /\ gs \in alive
  /\ \E kind \in Kinds : Openable(kind) = {}
  /\ UNCHANGED vars

QueueOpen ==
  /\ claim # NoClaim
  /\ HasSpace(claim.room)
  /\ Queueing(claim.room, claim.event)
  /\ claim' = NoClaim
  /\ UNCHANGED <<free, fsm, members, visit, alive>>

\* Any other request goes to the room it names, in use or not.
RouteEvent(gs, r) ==
  /\ claim = NoClaim /\ gs \in alive
  /\ HasSpace(r)
  /\ \E e \in {Join(gs), Leave(gs)} : Queueing(r, e)
  /\ UNCHANGED <<free, fsm, members, claim, visit, alive>>

\* The game DB's answer, a relayed packet: an event of another thread, which
\* may end what the room is doing.
OtherEvent(r) ==
  /\ HasSpace(r)
  /\ Queueing(r, End)
  /\ UNCHANGED <<free, fsm, members, claim, visit, alive>>

\* QueueingToAll: to the rooms that are not in the list of empty rooms, under
\* its lock.
InUse_bug(r) == r \notin free /\ fsm[r] # "INIT"    \* only rooms already open
InUse(r) == r \notin free

\* KCnUser::OnDestroy, in the SimLayer thread after the last event the session
\* received: every room in use hears that the game server is gone.
ServerDied(gs) ==
  /\ claim = NoClaim /\ gs \in alive
  /\ \A r \in Rooms : InUse(r) => HasSpace(r)
  /\ alive' = alive \ {gs}
  /\ queue' = [r \in Rooms |->
                 IF InUse(r) THEN Append(queue[r], Check(gs)) ELSE queue[r]]
  /\ UNCHANGED <<free, fsm, members, claim, visit>>

ServerConnected(gs) ==
  /\ gs \notin alive
  /\ alive' = alive \cup {gs}
  /\ UNCHANGED <<free, fsm, members, queue, claim, visit>>

-----------------------------------------------------------------------------
(* The manager's thread.  A handler is one step of it.                     *)

Visit(r) ==
  /\ visit = Idle
  /\ visit' = [at |-> "DRAIN", room |-> r]
  /\ UNCHANGED <<free, fsm, members, queue, claim, alive>>

Becomes(r, state, inside) ==
  /\ fsm' = [fsm EXCEPT ![r] = state]
  /\ members' = [members EXCEPT ![r] = inside]

\* ERM_OPEN_xx_REQ: only a room in INIT opens.  It may refuse (the slots, the
\* dungeon or the shop do not suit the request); some of the users may already
\* be inside then.
HandleOpen(r, named) ==
  IF fsm[r] = "INIT"
  THEN \/ Becomes(r, "WAIT", named)
       \/ r \in GameRooms /\ \E p \in SUBSET named : Becomes(r, "INIT", p)
       \/ r \notin GameRooms /\ Becomes(r, "CLOSE", {})
  ELSE UNCHANGED <<fsm, members>>

HandleJoin_bug(r, gs) ==    \* files the user under the room's UID
  IF fsm[r] = "WAIT"
  THEN Becomes(r, "WAIT", members[r] \cup {r})
  ELSE UNCHANGED <<fsm, members>>
HandleJoin(r, gs) ==
  IF fsm[r] = "WAIT"
  THEN Becomes(r, "WAIT", members[r] \cup {gs}) \/ UNCHANGED <<fsm, members>>
  ELSE UNCHANGED <<fsm, members>>

\* One user leaves: another of its game server may stay, and the room closes
\* when it is empty or when it cannot do without the one who left.
HandleLeave(r, gs) ==
  IF fsm[r] = "WAIT" /\ gs \in members[r]
  THEN \E state \in {"WAIT", "CLOSE"}, inside \in {members[r], members[r] \ {gs}} :
         /\ inside = {} => state = "CLOSE"
         /\ Becomes(r, state, inside)
  ELSE UNCHANGED <<fsm, members>>

\* ERM_CHECK_INVALID_USER_NOT: all the users of a dead game server leave, in
\* whatever state the room is.
HandleCheck(r, gs) ==
  LET left == members[r] \ {gs}
  IN  IF gs \in members[r]
      THEN \/ fsm[r] = "WAIT" /\ left # {} /\ Becomes(r, "WAIT", left)
           \/ fsm[r] # "INIT" /\ Becomes(r, "CLOSE", left)
           \/ fsm[r] = "INIT" /\ Becomes(r, "INIT", left)
      ELSE UNCHANGED <<fsm, members>>

HandleEnd(r) ==
  IF fsm[r] = "WAIT"
  THEN Becomes(r, "CLOSE", members[r]) \/ UNCHANGED <<fsm, members>>
  ELSE UNCHANGED <<fsm, members>>

Handle(r, e) ==
  \/ e.type = "OPEN" /\ HandleOpen(r, e.named)
  \/ e.type = "JOIN" /\ HandleJoin(r, e.gs)
  \/ e.type = "LEAVE" /\ HandleLeave(r, e.gs)
  \/ e.type = "CHECK" /\ HandleCheck(r, e.gs)
  \/ e.type = "END" /\ HandleEnd(r)

\* KPerformer::Tick: the next event is popped and processed.
HandleEvent ==
  /\ visit.at = "DRAIN"
  /\ queue[visit.room] # <<>>
  /\ queue' = [queue EXCEPT ![visit.room] = Tail(@)]
  /\ Handle(visit.room, Head(queue[visit.room]))
  /\ UNCHANGED <<free, claim, visit, alive>>

\* The queue is seen empty; the rest of the room's Tick looks at its state.
Drained ==
  /\ visit.at = "DRAIN"
  /\ queue[visit.room] = <<>>
  /\ visit' = [visit EXCEPT !.at = "STATE"]
  /\ UNCHANGED <<free, fsm, members, queue, claim, alive>>

Returned_bug(r) == free    \* back in INIT, but not in the list
Returned(r) == free \cup {r}

CloseRoom_bug(r) ==    \* looks for the state the room is to have
  IF r \notin free /\ fsm[r] = "INIT"
  THEN Becomes(r, "INIT", {}) /\ free' = Returned(r)
  ELSE UNCHANGED <<free, fsm, members>>

\* KCnRoomManager::CloseRoom gives back a room in CLOSE that is not in the list.
CloseRoom(r) ==
  IF r \notin free /\ fsm[r] = "CLOSE"
  THEN /\ Becomes(r, "INIT", {})
       /\ free' = Returned(r)
  ELSE UNCHANGED <<free, fsm, members>>

\* The room's own timers may close it as well.
TickState ==
  /\ visit.at = "STATE"
  /\ LET r == visit.room
     IN  CASE fsm[r] = "CLOSE" -> CloseRoom(r)
           [] fsm[r] = "WAIT"  -> /\ HandleEnd(r)
                                  /\ UNCHANGED free
           [] fsm[r] = "INIT"  -> UNCHANGED <<free, fsm, members>>
  /\ visit' = Idle
  /\ UNCHANGED <<queue, claim, alive>>

-----------------------------------------------------------------------------
Next ==
  \/ \E gs \in Servers : \/ RouteOpen(gs) \/ RefuseOpen(gs)
                         \/ \E r \in Rooms : RouteEvent(gs, r)
                         \/ ServerDied(gs) \/ ServerConnected(gs)
  \/ \E r \in Rooms : OtherEvent(r) \/ Visit(r)
  \/ QueueOpen \/ HandleEvent \/ Drained \/ TickState

Spec == Init /\ [][Next]_vars

\* The manager's thread runs for ever and visits every room again and again.
FairSpec ==
  /\ Spec
  /\ WF_vars(TickState)
  /\ \A r \in Rooms : SF_vars(Visit(r))

-----------------------------------------------------------------------------
(* Properties.                                                             *)

Visits == [at : {"IDLE"}] \cup [at : {"DRAIN", "STATE"}, room : Rooms]
Claims == [on : {FALSE}]
            \cup [on : {TRUE}, room : Rooms,
                  event : [type : {"OPEN"}, named : SUBSET Servers]]

TypeOK ==
  /\ free \subseteq Rooms
  /\ fsm \in [Rooms -> {"INIT", "WAIT", "CLOSE"}]
  /\ members \in [Rooms -> SUBSET Servers]
  /\ queue \in [Rooms -> Seq(Event)]
  /\ claim \in Claims
  /\ visit \in Visits
  /\ alive \subseteq Servers

Claimed(r) == claim # NoClaim /\ claim.room = r
Opens(r) == {i \in DOMAIN queue[r] : queue[r][i].type = "OPEN"}

\* Nobody has a room that is empty: it is in INIT, nobody is inside, and no
\* opening is on its way to it, claimed or queued (OpenRoom and CloseRoom run
\* in different threads).
FreeIsFree ==
  \A r \in free : fsm[r] = "INIT" /\ members[r] = {} /\ ~Claimed(r) /\ Opens(r) = {}

\* A room is handed out to one opening at a time, and the opening finds it in
\* INIT: VERIFY_ROOM_STATE of an opening never fails.
OneOpening ==
  \A r \in Rooms :
    /\ \A i, j \in Opens(r) : i = j
    /\ Claimed(r) => Opens(r) = {}
    /\ Claimed(r) \/ Opens(r) # {} => fsm[r] = "INIT"

\* No UID leaks: a trade room or shop that is not empty is being opened or is
\* open.  (A game room that refuses its opening is lost: it stays in INIT, and
\* CloseRoom looks at closed rooms only.)
NoRoomIsLost ==
  \A r \in Rooms \ (free \cup GameRooms) :
    Claimed(r) \/ Opens(r) # {} \/ fsm[r] # "INIT"

\* "When a game server dies, all the users connected to it are taken out of
\* the rooms" (CnUser.cpp:179): whoever of a dead server is inside has the
\* notice that will take it out in the room's queue.  (Not so in a game room,
\* which a party's opening may enter after the notice of one of its servers.)
NoGhosts ==
  \A r \in Rooms \ GameRooms : \A gs \in members[r] \ alive :
    \E i \in DOMAIN queue[r] : queue[r][i] = Check(gs)

\* The manager's thread catches up with the events of the rooms it drains:
\* KPerformer::Tick has no other end than an empty queue.
CatchesUp == []<>(visit.at # "DRAIN")

\* A room that closes becomes an empty room again, whatever arrives meanwhile.
ClosedIsReturned ==
  CatchesUp => \A r \in Rooms : fsm[r] = "CLOSE" ~> r \in free
=============================================================================
