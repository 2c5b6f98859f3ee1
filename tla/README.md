# Formal models of the game's servers

The repository holds an online role-playing game: the client (`src/X2`,
`src/X2Lib`, engine `src/KTDXLIB`) and its servers (`src/KncWX2Server`). This
directory holds TLA+ models of the servers' core logic, the TLC configurations
that check them on small instances, and TLAPS proofs about them. It starts
where a mistake costs a player goods: the **personal trade**, in which two
characters exchange items and ED (the game's money) through a room of the
center server, two game servers and a database. The **personal shop** and the
**pool of rooms** that both live in follow, then what all of it rests on: the
**sessions** between the servers.

Run anything here with `tlc -config X.cfg M`, and the proofs with `tlapm M.tla`. A
leaf that cites `SMTT(30)` or `ZenonT(60)` comes near the default time limit.
`PROJECT.json` lists the runs, maps each definition to the lines it models, and
names for each property a mutant: a plausible bug (an operator `X_bug`) that
makes TLC find the property violated.

## 1. Inventory

How the servers talk: client - game server (one `KGSUser` per character,
`GameServer/`) - center server (rooms: trade, shop, dungeon, PvP, field;
`CenterServer/`), global server (match making), login server (who is where,
guilds), channel server (queue in front of full servers), and database threads in
each of them. Every object that handles events is a *performer* with a queue
(`Common/Performer.cpp`); its handlers run one at a time. Between processes
events travel over one TCP connection per pair of servers, in order.

| Component (main sources) | State | Operations | Hard behaviour | What makes it correct |
|---|---|---|---|---|
| Trade room (`CenterServer/Trade*.cpp`, `Common/Room/TradeFSM.cpp`) | FSM state, up to two members with goods, offer, approval, confirmation, DB report; a 5 s timer | open, join, break, change goods, offer, approve, confirm, report, DB answer, tick | the room object and its UID are reused; requests cross; a trader or its server goes in any state | both carry out the deal both offered, or nobody does |
| Trade on the game server (`GameServer/GSUserTrade.cpp`) | trade UID, inventory, ED and how much of it is written, lock, repeat filter | relay, approve after a DB write, check goods, take goods out, put them in | two messages and two DB round trips between check, removal and arrival | memory and DB agree afterwards; no item has two holders |
| Room manager (`CenterServer/CnRoomManager.cpp`, `Room.cpp`) | list of empty rooms per type, the rooms and their queues | claim, queue, route, visit, drain, close, a server dies | two threads at the list; stale UIDs; events behind a closing | no UID twice, none lost, nobody left inside |
| Game DB (`CenterServer/CnGameDBThread.cpp`, `Common/DBLayer.cpp`) | request queue, worker threads | the swap procedure | ten slots per trader; failures | the answer is that of the request |
| Personal shop (`CenterServer/PersonalShop.cpp`, `GameServer/GSUserPersonalShop.cpp`) | FSM state, one seller, many buyers, list of goods; per unit ED and inventory, and what of them is written | open, list, join, buy, confirm, DB answer, leave, break, tick; write, log out and in | several buyers race for one stock; DB answers in any state; nothing is locked | stock is sold once; a unit's books agree with the DB |
| PvP match making (`GlobalServer/Match*.cpp`) | wait list, matches, confirmations, timers | register, match, confirm, cancel | a player leaves while matched; retries | nobody is in two matches |
| Auto party (`GlobalServer/AutoParty*.cpp`) | wait list, proposals | as above | as above | as above |
| Party (`CenterServer/NewCnParty.cpp`) | members, leader, ready flags, game | invite, leave, kick, start | leader leaves during start | always one leader |
| Sessions (`Common/Socket/*.cpp`) | send buffer and the queue behind it, receive buffer, sends under way, queue of events | send, complete, receive, fail, tick, destroy; heart-beat | partial completions, full buffers, packets split anywhere, a broken line | packets whole, in order, once, or both sides close |
| Performers (`Common/Performer.cpp`, `ActorManager.cpp`, ...) | event queues, actor maps | queue, consume, create, delete, tick | events queued during a drain; actors deleted while addressed | no event lost or run twice |
| Wait queue (`ChannelServer/WaitQueueManager.cpp`) | queue, quota | enter, leave, admit | a waiting user vanishes | order kept, quota kept |
| Login server (`LoginServer/*.cpp`) | user list, guilds, rankings, agencies | log in/out, move server | double login, server loss | a user is on one server |
| Serial numbers (`*/ServerSN*.cpp`) | counters | next | restart, wrap | never the same twice |
| Repeat filters, inventory lock (`RepeatEventFilter.cpp`, `InventoryLocker.h`) | open requests, lock time | check, release, time out | answer that never comes | one request at a time, none shut out for ever |
| UDP relay checker (`UdpRelayChecker.cpp`) | ping table | report, decide | partial reports | one relay per pair |
| In-game rooms (`Room.cpp`, `RoomSlotManager.cpp`, ...) | slots, host, game state | many | host leaves | one host, one slot each |
| Game-server user (`GSUser*.cpp`, `Inventory.cpp`) | the character | hundreds of handlers | interleaved DB round trips | inventory and DB agree |
| Billing, client, client network library, offline mode, engine, data and vendored code | - | - | - | see PROJECT.json |

The hazards that follow from this, each at its line, are `hazards` of
`PROJECT.json`; the properties of section 4 are aimed at them.

## 2. Modules

| Module | Models | Depends on |
|---|---|---|
| `TradeRoom` | `KTrade` with its members and FSM: one room, any unit may send any event at any time | |
| `TradeDeal` | abstract specification: what the trade room promises | |
| `GSUserTrade` | `KGSUser`'s half of a trade, and the channels to and from the center server | |
| `TradeSystem` | trade room + game servers + DB, end to end | `TradeRoom`, `GSUserTrade` |
| `TradeSwapQuery` | the argument list of the swap procedure and the reading of its answer, loop by loop | |
| `RoomManager` | `KCnRoomManager`: three kinds of threads at the list of empty rooms and the rooms' queues | |
| `PersonalShop` | `KPersonalShop` with its members and FSM | |
| `GSUserShop` | `KGSUser`'s half of a shop: purchases, writes, logout and login | |
| `ShopSystem` | shop + game servers + DB, end to end | `PersonalShop`, `GSUserShop` |
| `CircularQueue` | `KCircularQueue`, the bytes behind the send buffer, as operators | |
| `Session` | one direction of a connection: `KSocketObject`, TCP, `KSkSession`, `KSession::Tick` | `CircularQueue` |
| `MC*` | instances for TLC | |
| `TradeRoomProofs`, `TradeSystemProofs`, `TradeSwapQueryProofs`, `RoomManagerProofs`, `PersonalShopProofs`, `ShopSystemProofs`, `CircularQueueProofs`, `SessionProofs` | the theorems of section 5 | |

The promise all room models rest on is that a handler is one step: the manager's
thread is the only one that drains the queues of its rooms (`KPerformer::Tick`),
and `RoomManager` has that thread beside the ones that fill the queues. The
promise the channels of `TradeSystem` and `ShopSystem` rest on, packets in order
and once until the connection ends, is what `Session` checks and `SessionProofs` proves.

### TradeRoom

One action per handler of `Trade.cpp`: `OpenTradeReq`, `JoinTradeReq`,
`BreakTradeReq`, `CheckInvalidUser` (a game server is gone), `UpdateTradeItemReq`,
`UpdateTradeEDReq`, `OfferTradeReq`, `ApproveTradeReq`, `ConfirmTradeAck`,
`DBUpdateTradeResultNot`, `DBUpdateTradeResultAck`, `Tick`, and the passing of
`TM_WAIT_OTHER` (`WaitTimeout`). `fsm` is the FSM's state, `users` the map of
members, `sent` and `sentDB` what the step sends. A handler is one action: the
room manager's thread is the only one that drains its rooms' queues. A refused
event is `Ignore`, so handlers are total. Closing a room is part of the handler
that empties it (`CloseRoom`, with the state machine's way through S_CLOSE).

Kept as the code has it: the scans `IsOffered`, `IsApproved`, `IsConfirmed` and
`IsDBUpdateReady` ask the current members only, and are true in an empty room; a
logout in a room that stays open leaves the partner in it; S_DB_UPDATE refuses
breaks; an approval may be repeated in S_CONFIRM and asks both game servers again.

Abstracted: positions and quantities of items, nicknames, notices that only move
the client's windows. What a game server reports for the DB is a value the room
passes on (`DBInfo`); `TradeSystem` gives it content.

### GSUserTrade and TradeSystem

`user[u]` holds what the game server of `u` knows: whether it is in a trade
(`m_iTradeUID`), whether its state allows trades, items, `ed` and `init` (the two
values of `KCacheDataMaxLimit`: the ED and what of it is believed to be in the
DB), the inventory's lock, the approval's repeat filter, and the ED increment on
its way to the DB. `up[u]` and `down[u]` are the ordered channels.

- An approval is three steps, as in the code: `ApproveTrade` starts a DB write,
  `UnitInfoWritten` gets its answer and sends the approval to whichever trade the
  unit is in by then, `ApproveAck` opens the filter. The write and its answer are
  one step (both it and the swap add increments, so their order is immaterial).
- `ConfirmReq` checks the goods and changes nothing; `ConfirmNot` takes the items
  out, sets both values of the ED, locks the inventory and reports to the room
  **without looking again**; `CompleteNot` unlocks and puts the new items in.
- A packet to trade UID 0 is thrown away by `QueueingEventToRoom`, so it never
  enters the channel. An accepted join carries the room's UID and always does.
- `Deliver` gives the room the next event of some game server and puts the room's
  messages into the channels; `RoomTick`, `RoomTimeout` are the room's own steps;
  every other step leaves the room alone (`Ignore`). `Swap` is the procedure
  `P_GItem_Total_Trade`, which is not in the repository: one transaction that
  refuses to move what its giver does not own (external); `Answer` is the rest of
  `ON_DBE_DB_UPDATE_TRADE_RESULT_REQ`, which gives each what the other gave.

Left out, so that results about `TradeSystem` do not cover it: reloading a unit at
login and game servers that restart; the periodic write of a unit's data;
handlers outside the trade that remove items and look only at the lock (for
example `EGS_DELETE_ITEM_REQ`); of those that change ED only the repair (price
1) is there, as the rival of the trade. The repeat filters of item and ED
requests are left out, which allows more than the code does. There is one room
object, which may be reopened: the case of interest, since a UID names it.

Ghost variables: `trades` numbers the trades of the room; `pressed` notes the
trades in which a client approved; `drifted` the units whose trade was carried
out over unwritten ED; `upset` that something happened the code has no remedy for
(a server died, the DB failed after the goods were taken, or the unit was not
there for a packet it had to act on); `astray` the units that left a trade while
about to enter one; `faults` counts departures, deaths and DB failures.

### TradeSwapQuery

`pc` is the loop that runs: writing a trader's goods, padding its slots with
zeros, both traders over the *same* `index` (`CnGameDBThread.cpp:498-534`), the
call, and the hand-over of each trader's goods to the other under the UIDs of the
answer. Initial states are all goods two traders may have put up (a room admits
at most ten each, and no item twice).

### RoomManager

`RouteOpen` takes the first empty room of a type off the list, `QueueOpen` queues
the opening later: two steps of the SimLayer thread between which everything else
may happen. `RouteEvent` and `OtherEvent` queue to any room at all, `ServerDied`
to every room not on the list. `Visit`, `HandleEvent`, `Drained` and `TickState`
are the manager's thread: a room's queue is drained until it is seen empty, and
only then the state is looked at, so an event may slip in between. Rooms keep
what all their classes share (INIT, WAIT, CLOSE, whose users are inside); a
handler's outcomes are the ones the classes' handlers have between them. Game
rooms (dungeon, match) differ in being opened for a party, whose members may be on
several servers, and in staying in INIT when they refuse. Left out: creation of
the pools at start-up, statistics, and the list of rooms per field.

### PersonalShop, GSUserShop, ShopSystem

One action per handler of `PersonalShop.cpp`: `OpenReq`, `RegReq`, `JoinReq`,
`BreakReq`, `LeaveReq`, `BuyReq`, `ConfirmAck`, the answers of the DB (`DBDone`,
`DBRefused`, and `DBUnfilled`, an error that looks like success because its code
was preset, `CnGameDBThread.cpp:676`), `CheckInvalidUser`, `Tick`, `WaitTimeout`.
`goods` is what is left of each listed item. Kept as the code has it: pieces leave
the list when the purchase goes to the DB; a refused purchase puts back what the
answer's *unfilled* record says (`Unfilled`); a buyer gets the answer to an
accepted purchase twice; the loop over a dead server's users stops at the host;
members and goods of a closed shop stay until the next tick.

`GSUserShop` has for each unit the value of ED and of each item and what of it is
believed to be in the DB. `BuyItem` stores the request and starts a write;
`UnitInfoWritten` gets its answer and only then sends the request, to whatever
shop the unit is in; the notice of a sale (`Sold`, `Bought`) sets ED and counts
everything as written. The parts of a write, the ED and each item, fail one by one
(`Part`), and what has failed is taken back (`Unwritten`), unless the item is gone
by then: then `RollBackInitQuantity` passes it over (`Inventory.cpp:7867-7877`). A
later write that deletes the item takes the failed part with it (`Deleted`); if the
item was sold out, whose deletion the notice threw away, the change is lost (`Lost`).
`ShopSystem` composes them with the DB as `TradeSystem` does. Left out: commissions,
the square and the trade board, agency shops, the space in inventories, filters of
other requests, server groups (all units are of one; the refusal of another's is in
`PersonalShop`), and lists that name an item twice, which
`GSUserPersonalShop.cpp:270-358` does not refuse. Clients join a shop only while
they are in none.

### CircularQueue and Session

`Push` and `Pop` are the code's two `memcpy`s each; `Contents` says what the queue
holds. `Session` has bytes `<<n, k>>` (byte `k` of packet `n`), so that order, loss
and repetition can be told. `SendPacket` is `SendData` (queue to buffer, packet to
buffer, rest to queue, post unless a send is under way); `SendCompleted` any
partial completion; what is transmitted is what the send was posted with *or* what
the buffer holds by then, since the buffer belongs to the send while it is under
way. `Receive` reads any number of bytes and runs the framing loop; `Failed` and
`Tick` are the reserved destruction, behind the events already queued; `Cut` breaks
the line. Left out: the heart-beat (real time), what the security library does to
a packet, connecting, and the deletion of the objects.

## 3. Runs and their bounds

| Run | Instance | Shows |
|---|---|---|
| `room` | 3 units, two of one server group, 2 game servers, 1 item, ED 0-1, every event at any time | the invariants of the room, the inductive invariant (types included), `ExecutionIsMutual`, `GoodsFrozen`, `ChangeVoidsOffers`, that it implements `TradeDeal`, and that a lone trader is released |
| `trade_faults` | one has an item, the other 1 ED; one fault of any kind | one swap per trade, it is the deal, no item has two holders, agreement except where no remedy exists |
| `trade_astray` | no goods, two trades, two faults, breaks for two reasons | a unit is left in a trade that is gone only if it left while about to enter it |
| `trade_live` | 1 item, one fault, fair queues | a swap once entered ends |
| `approved_here` | two trades | **violated**, finding 1 |
| `synced_when_executed` | ED, one trade | **violated**, finding 2 |
| `pool` | a trade room and a game room, 2 game servers, queues of 2 and 1 | no room is handed out twice, lost or left with ghosts; a closed one returns |
| `swap_query` | all goods of two traders over 3 slots each | the arguments and the answer are where they should be |
| `shop` | 3 units, 2 servers, a stackable and a single item, quantities 1-2, shops of 1 and of 2 goods, any event at any time | nothing is oversold, one seller, an idle shop is released |
| `shop_system` | a seller with one potion, a buyer, one purchase, one use, one fault | types, inventories of no less than nothing, a buyer is answered |
| `shop_reopened` | a seller with three potions that may open its shop twice and list each time, a buyer, one purchase, two uses, one fault | books agree with the DB, also with a sale of the first opening on its way, or a failed write of an item used up or sold out since |
| `session` | buffers of 4 bytes, packets of 3 and 5, queue of 3 or none, three packets | packets whole, in order, once, or both ends close |

Bounds. Two traders are all a trade room holds; the third unit of `room` is
of another server group and comes at any time, early or late (that a third of the
same group is kept out is left to the theorem `RoomInvariant`). One item and one unit of
ED are enough, since the code treats items alike and the properties ask only
whether two sides differ; `MaxItems = 1` makes the table's limit reachable.
`MaxInFlight = 1` lets a client speak only when its earlier request has been
handled, but answers and requests of a game server are not bounded by it, and the
two channels and both directions still cross; this is what keeps the end-to-end
runs exhaustive. `MaxTrades`, `MaxPresses`, `MaxFaults` (trade) and `MaxMoves`,
`MaxBuys`, `MaxUses`, `MaxFaults` (shop) are 0, 1 or 2 as each question needs (the seller of
`shop_reopened` moves four times, and has three potions, one to use under way to the
DB, one to sell and one to use after), and so are what clients may ask for: whether they take items back (`Deletes`), what ED
they put up (`Bids`), for which reasons they break (`Reasons`). The time-out of a
room is let pass at any time in the shop, and in the trade room only in a room of
at most one member: in a room of two nothing looks at it. `MaxLeft` bounds how far
refusals may raise a quantity in `shop`: one past what can be listed. `MaxQueue`
bounds the rooms' queues in `pool`; two events suffice for any event to stand
before or behind an opening. In `session`, packets of 3 leave room in a buffer of
4 for the first byte of the next, a packet of 5 fits no buffer, `Window` (the
bytes TCP holds) is less than a buffer, so completions are partial, and a queue of
3 holds two bytes and wraps within the three packets of `MaxPackets`; a queue of
size 0 is what users' sessions have.

`VIEW Seen` drops variables and dead cells no step reads and no property of the
run mentions. `CHECK_DEADLOCK FALSE` in the end-to-end runs and in `session`: with
every bound used up the system stops; and in `swap_query`, whose loops end.

Fairness. `room` and `shop`: ticks and the passing of time, because the manager
ticks every room in its loop (`CnRoomManager.cpp:292`). `pool`: the manager's
thread goes on (`WF` of `TickState`) and comes to each room again and again (`SF`
of `Visit`: the loop over the map starts a visit whenever it is idle);
`ClosedIsReturned` assumes `CatchesUp`, that events do not arrive faster than a
room can drain them for ever, since `KPerformer::Tick` ends only at an empty queue.
`trade_live`: delivery in both directions, the DB and its answer, because each is
a thread that drains a queue in a loop. `shop_system`: delivery in both directions
and the answers of writes, but *not* the DB's answer to a purchase. `session`: I/O
completions (`KIOThread::Loop` takes every one the port has) and the ticks of both
sessions; the line need not break. Clients are never fair: nobody has to offer,
approve, buy or leave.

## 4. What the properties say

Trade room: `NoFlagBeforeItsTime`, `OffersStand`, `ReadyToSwap` (nothing of an earlier
trade survives into the next; past the offers all members' offers stand; the
DB is waited for with exactly two confirmed traders of one group and something to
swap), `ExecutionIsMutual` (the order to carry out goes to both, one's *out* is
the other's *in*), `GoodsFrozen` and `ChangeVoidsOffers` (goods never change under
an offer), `KeepsTheDeal` (refinement of `TradeDeal`: `fsm` maps to the stage, the
members' goods to the deal, the offers to the agreement), `LoneTraderIsReleased`.

Trade, end to end: `OneHolder` (an item usable in memory belongs to that unit in the DB
and is not being given away), `SwapIsTheDeal` (the DB is asked for what lay on the
table, put together from two servers' reports; no ED is made or lost),
`OneSwapPerTrade`, `QuietMeansSettled` (when all is quiet inventories and written
ED are the DB's, nobody is locked, and nobody is left in a trade but a unit that left
while about to enter it), `SwapEnds`;
`TwentySlots` and `Crossed` (the swap's twenty arguments are each trader's goods in
its own ten, and each receives the other's under the UIDs made for them).

Rooms: `FreeIsFree`, `OneOpening` (a room is handed out to one opening at a time,
which finds it in INIT), `NoRoomIsLost` and `NoGhosts` (for rooms other than game
rooms, see the observations), `ClosedIsReturned`.

Shop: `NeverOversold` (whatever the order of requests, confirmations and DB answers,
what was sent to the DB and what is still offered is never more than was listed and
put back), `OneSeller`, `SellsWhileListed`, `IdleShopIsReleased`. End to end:
`BooksBalance` (what a game server believes to be in the DB is what is there, but
for writes on their way and sales not yet told, whatever failed in between; the units
of which the code loses a change are in `drifted`, each kind under Observations),
`BuyerIsAnswered`.

Session: `NothingLost` (receive buffer, TCP, send buffer and queue hold, in this
order, exactly the bytes not yet received), `InOrder`, `InFlightIntact` (one send
under way, whose bytes nobody touches), `RoomToRead`, `Arrives`, `BothClose`. All but
the last two speak of the time before a full buffer throws bytes away.

### Findings

1. **An approval can count for a trade its client never approved**
   (`GSUserSession.cpp:237`). The approval waits for a DB write and is then sent to
   the trade UID the unit has by then; if the trade was broken and another opened
   meanwhile, it is the new one. TLC: run `approved_here`.
2. **A trade is carried out over ED that was never written**
   (`GSUserTrade.cpp:1023-1052`). The comment promises a check before the ED
   changes; the code logs the difference and goes on, and `SetValue` makes it look
   written. TLC: run `synced_when_executed`; `SettledWhenQuiet` proves that this is
   the only way a quiet system's ED may differ from the DB's while nothing else fails.

### Observations

Behaviour the models have and no property forbids, because no source says
otherwise or because the remedy is a procedure outside the repository.

Trade. A trade broken during the approval's DB write leaves the unit's approval
filter shut (it opens only with the ack, `GSUser.h:2927`, and has no time-out); a
trader that leaves its state between the room's order and its arrival leaves room
and partner in S_DB_UPDATE (`SwapEnds` excuses this by `upset`); S_CONFIRM has no
time-out; the approval is sent even when its DB write failed; the maximum of ED is
judged by what the partner owned when it entered (`CheckMaxED`); deleted items are
flushed at `GSUserTrade.cpp:1136` into a packet the swap does not read. A unit may ask
to open or to join while it is still in a trade (`GSUserTrade.cpp:267-329` has no
guard on the trade UID); if it then leaves before the answer arrives, its departure
takes it out of the room and the answer puts the room's UID back
(`GSUserTrade.cpp:471`): the unit stays in a trade that is gone, whose UID the next
trade in that room will bear (`astray`). After the death of a game server, what its
partner still sends of the broken trade, a confirmation or a report, may count for
the next trade in the room: nothing in these packets names the trade. This needs a
third unit, and is why `OneSwapPerTrade`, `SwapIsTheDeal` and `OneHolder` are proved
for as long as no game server has died; the two-unit runs have them with deaths too.

Rooms. A game room that refuses its opening (`DungeonRoom.cpp:3118`) stays in
S_INIT, but its UID left the list when it was claimed (`CnRoomManager.cpp:572`) and
only a room in S_CLOSE is given back (`Room.cpp:92`): it is lost until the server
restarts. A party's opening (`NewCnParty.cpp:2100`, `GSUserNewParty.cpp:2180`) can
enter users of a game server after the notice that it died (`CnUser.cpp:179`); only
the loading time-out removes them (`Room.cpp:561`).

Shop. The notice of a sale counts everything in the inventory as written
(`GSUserPersonalShop.cpp:1458`): a piece used since the last write is back at the
next login (`drifted` excludes this from `BooksBalance`). The seller's piece is taken
out of memory only if it is still there (`DecreaseQuantity`): a seller that reopens its
shop while a sale of the first opening is at the DB may use or sell the last piece
meanwhile, and then the notice takes out fewer than the DB did (`Short`, in `drifted`
too; the write that follows can take the DB's record below nothing, which `lacking` notes at the next
login). A write that fails after its item has been sold out is never written again:
the roll-back passes over an item that is gone (`Inventory.cpp:7867-7877`), and its
deletion was thrown away with the notice (`GSUserPersonalShop.cpp:1461`), so the piece
used up stays in the DB and is there at the next login (`Lost`, in `drifted` too). When
the last piece of an item is sold, the room announces it through an iterator it has
just erased (`PersonalShop.cpp:1106-1112`, with DEF_TRADE_BOARD); only the trade board
is told, which is not modelled. A purchase is judged by
the ED its buyer had in memory when it asked (`PersonalShop.cpp:716`,
`GSUserPersonalShop.cpp:1146`), so that two in a row pass on the same ED and the
stored procedure alone decides. An accepted purchase is answered twice
(`PersonalShop.cpp:1025` and `1051`); the second answer opens the filter of the
buyer's next request (`RepeatEventFilter.cpp:125`), which may then be overwritten by
a third. When the DB refuses, the pieces to be put back are looked up in a record
filled on success only (`PersonalShop.cpp:1061`, `CnGameDBThread.cpp:745-762`): they
stay off the list. A unit that logs in between a sale and its notice applies it to
data that contain it already (in `drifted` until a login with no sale on its way). A write that returns while the buyer is in
no shop leaves its filter shut.

Session. When buffer and queue are full, `SendData` clears `m_dwLeft` and
`m_bSending` though a send may be under way and part of the packet is in them
already (`SocketObject.cpp:381`; the comment above it says nothing was sent). Until
the session is destroyed, the send under way may transmit bytes put in its place,
and a later packet can arrive twice; `lost` marks this.

## 5. What is proved

All for every value of the constants, from the named assumptions of each module
(kinds of the constants, finitely many units, at least one slot).

- `TradeRoomProofs`, first half: `Spec => []IndInv` (`RoomInvariant`), hence `TypeCorrect`,
  `SafeRoom`, `FlagsAreOfThisTrade`, `OffersHold`. `ReadyToSwap` is not inductive:
  with both offers in and nothing on the table the room must break, so
  `SomethingAtStake` is needed in S_CONFIRM; that nobody of another group is there,
  `OneServerGroup`, must hold from the first join; `AtMostTwo` makes the partner
  unique; and `NoFlagBeforeItsTime` keeps an early flag from completing a scan. One
  lemma per handler (`OpenInv`, `JoinInv`, ...), over lemmas about member maps
  (`EnteredMap`, `SubMap`, `ChangedMap`).
- `TradeRoomProofs`, second half: `Spec => KeepsTheDeal` (`RoomImplementsDeal`),
  `SealedGoodsAreFrozen`, `OffersAreForWhatLies`, `ExecutionHasTwoEnds`
  (`ExecutionIsMutual`). Each handler is shown to be one of
  seven kinds of steps on goods and offers (`StepKinds`), and each kind to be a
  step of `TradeDeal` or a stutter.
- `TradeSystemProofs`: for any number of units, items, trades, approvals and faults.
  First types: every step of the system is a step of the room or leaves it alone,
  so `IndInv` holds in the system (`SystemInvariant`, `SystemTypeCorrect`); an approval
  is in one place at a time, with the unit's data, in `up` or answered in `down`, and
  the filter holds back the next (`OneApproval`). Then `SysSpec => []Safe`
  (`TradesInOrder`), where `Safe` is the types and, while no game server has died,
  `InOrder`: each trader is told once to carry the trade out and reports once, and
  only what was due by the offers (`InTurn`); what a unit can use, or is told it has
  got, is its own in the DB, and what it reports is out of its inventory (`Holds`);
  the DB is asked once for each trade, for what both reported, while the room waits
  (`AskedInTurn`), and what it swapped belongs to the other trader
  (`HandedOver`). From it, as long as every unit's game server is alive:
  `OneSwapWhileAllLive`, `SwapIsTheDealWhileAllLive`, `OneHolderWhileAllLive` (see the
  observations of section 4 for why deaths are excluded). The proof sorts the
  handlers of the room into those that order nothing, the one that orders the
  execution and the ones that take a report, and shows each step of a game server
  to keep its end. It assumes that every unit has a server of its own among
  `Servers` and that `DBInfo` has every report and answer that can occur
  (`SystemAssumption`, `InfoAssumption`).
  Last, `SysSpec => []Settled` (`WhatIsOwedComes`), from which `SettledWhenQuiet`
  (`QuietMeansSettled`). A quiet system says nothing inductive; `Settling` says where
  each thing is while the system is not quiet, as long as `upset` is FALSE (which
  implies that every game server lives):
  - `AllStocked`: what is a unit's in the DB is in its inventory, or taken out for the
    trade, or coming (in a notice, or in a swap done and not answered); what it has put
    up stays in the inventory until it is taken out (`PutUp`), so no deduction fails;
  - `AllCounted`: the ED the game server takes to be in the DB is the DB's, plus the
    write under way, plus the change of a trade not swapped yet, drifted units excepted;
  - `AllLocked`: an inventory is locked only while its goods are out or the notice that
    unlocks it is on its way;
  - `AllPlaced`: who takes part in a trade, or will when it has heard what is on its
    way, is in the room, unless it left while about to enter (`astray`); this needs
    the order of entries and breaks in both channels (`Enters`, `LeavesTrade`);
  - `NoneFailed`: the DB has refused no swap.

  It rests on `Safe`: that a notice brings what is the unit's, once. One lemma for
  each part and kind of step: a game server's (`GSPlaces`, `UsualSettles`,
  `DeductSettles`, `PutInSettles`), the room's (`HandleTells`: what it tells whom it takes
  out; `HandleGoods`; `RoomKeeps`), the DB's (`SwapSettles`) and its answer's (`AnswerSettles`).
- `TradeSwapQueryProofs`: for any number of slots and any goods, the arguments
  (`ArgumentsFit`: `TwentySlots`) and the hand-over (`GoodsCross`: `Crossed`). The
  invariant says of each loop what has been written so far and where `index` stands.
- `RoomManagerProofs`: for any set of rooms and servers, `EmptyRoomIsFree`,
  `OpenedOnce`, `PoolIsComplete` (`NoRoomIsLost`). They need each other: a room
  between claim and opening must be in INIT with no second opening in its queue,
  and nobody else can claim it because it is not on the list. Beside it,
  `NoticesInvariant` (with `PoolTypeCorrect`) follows the notices that a server died,
  and gives `GhostsAreTakenOut` (`NoGhosts`): a user of a dead server is in a room
  other than a game room only while the notice stands in that room's queue behind
  every event that could enter one, joins that will find the room shut excepted.
- `PersonalShopProofs`: for any number of buyers, goods and quantities, `ShopTypes`,
  `SellerStays`, `SellsOnlyAList`, `NothingOversold`. `Safe` has the types,
  the one host and `SellsWhileListed`; with it every handler keeps, for each item,
  what was promised plus what is left within what was listed: the second look at
  the quantity, when the seller's confirmation arrives, is enough.
- `ShopSystemProofs`: for any units, sellers, goods, prices, wealth and bounds, and any
  logouts, logins, writes failing whole or in part and DB failures in any order, `ShopSystemTypes`
  (`SysTypeOK`), `RoomInSystem` (the room's types, `OneSeller` and `SellsWhileListed` under
  `SysSpec`) and `BooksAlwaysBalance` (`BooksBalance`). The assumption is
  `SystemAssumption`: sellers are units, each unit has a server of its own, what is
  used is an item, wealth and stock are natural numbers.
  - Types (`SystemIsSound`): each handler of the room keeps `Safe`, lets only a seller
    host (`HostsOf(users) \subseteq Sellers`), and sends notices only (`SendsNotices`),
    the DB's answer to a done purchase excepted (`AnswerTypes`). That hosts are sellers and that
    sellers do not buy makes the giver and the taker of a sale two units, without which
    a sale's two entries would meet in one book.
  - Books (`Books`): a book is a sequence of entries, an entry an amount of ED and of each
    item. The balance of a unit is one equation between its image of the DB,
    its record, its writes under way, the orders done but not told and the notices on
    their way. `WriteStarts`, `WriteEnds`, `SaleIsDone`, `SaleIsTold` and
    `SaleArrives` are the ways an entry may move between those five columns, and each step of the system is shown to be one of them for the unit it
    concerns (`WriteBooks`, `PacketBooks`, `CarryBooks`, `AnswerBooks`, ...) and none for the
    others (`OneActs`). That the total of a sequence changes by just what is put in, taken
    from the front or replaced (`MoreWritten`, `FirstWritten`, `MoreTold`, `OrderMoves`) is an
    induction over `Total`, a recursive function; it is made with `Induction`, which says
    of a set of numbers what the library's theorems say of an operator. A write ends in
    parts (`PartsAre`): what arrived goes from the writes to the record; what failed goes
    back to the image (`UnwrittenIs`), or to the later write that deletes the item
    (`LongerWrites`); nothing is left over unless the item was sold out, and then the unit
    is in `drifted`.
- `CircularQueueProofs`: `PushKeepsAQueue`, `PopKeepsAQueue`, `PushAppends`,
  `PopTakesTheFront`: for every size, position of the ends and packet, the two
  copies of each operation amount to appending and to taking from the front. The
  remainders of the code are first turned into cases (`DataSizeByCase`,
  `FreeSizeByCase`).

- `SessionProofs`: for any sizes of buffers, queue and packets, any number of packets,
  any window and any cut of sends and reads, `SessionTypeCorrect`, `StreamIsWhole`
  (`NothingLost`), `ReceivedInOrder` (`InOrder`), `SendIsUndisturbed`
  (`InFlightIntact`) and `ReadsHaveRoom` (`RoomToRead`), from `SessionInvariant`.
  They need each other: what a completion takes off the buffer is what went to TCP
  only because the send under way stands untouched at its front, and that holds only
  because one send is under way at a time. `NothingLost` says nothing once a side is
  closed, while bytes are still read; `InStep` follows the receiver's half alone,
  and with it `InOrder` survives the closing. The argument has three parts:
  - the stream is defined byte by byte (`Runs`, `Behind`): a run of bytes may be cut
    (`FrontRuns`), loses its first packet (`RunWithoutFirst`) and takes one behind
    its end (`RunWithPacket`);
  - what goes through the send buffer and the ring keeps its order (`MovedKeeps`,
    `FilledSends`, `CompletedSends`), over the theorems of `CircularQueueProofs`;
  - the framing loop queues the next whole packets and stops with less than a packet
    or an error (`ReadingRuns`, `ReadingEnds`), by induction over its rounds.
    `Rounds` is a recursive function; the library's induction theorems cannot be
    used here, so `Induction` states the principle for a set of numbers, and
    `Iteration` shows from it that such a function exists.

Every safety property of a passing run is thus stated by a theorem. The theorems on
`OneSwapPerTrade`, `SwapIsTheDeal` and `OneHolder` speak of the time until a game server
dies; with deaths these three are only model-checked, in the bounds of section 3.
Only model-checked, too, is all liveness, which the installed provers do not reach.

## 6. Plan and what is not modelled

Next:

1. `Match` and `AutoParty` (wait lists, proposals, time-outs), `Party` (a leader
   leaves during a start), the channel server's wait queue, the login server's user
   list, serial numbers, the relay checker: each is a component of its own with no
   part in the exchanges above. They were put behind the paths on which goods
   and money move.

Not planned, and why: in-game rooms beyond what `RoomManager` needs, and the
game-server user beyond trade and shop (hundreds of handlers of game rules over
data tables); the heart-beat and other real-time limits (their values are
milliseconds, which TLC would have to count); stored procedures, the security library
and billing (not in the repository); client, engine, tools, data and vendored code
(rendering, input and assets, no protocol of their own beyond the servers').
