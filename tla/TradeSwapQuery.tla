---------------------------- MODULE TradeSwapQuery ----------------------------
(***************************************************************************)
(* The argument list of the swap procedure and the reading of its answer   *)
(* (KCnGameDBThread, DBE_DB_UPDATE_TRADE_RESULT_REQ), loop by loop.        *)
(*                                                                         *)
(* The procedure takes Slots goods of each trader, unused slots being      *)
(* zero, and answers with as many new UIDs: what it stored for the k-th    *)
(* goods it was given has the k-th UID.  The code fills the list with one  *)
(* index that runs through both traders' slots, pads it with zeros, and    *)
(* afterwards hands each trader's goods to the other under the new UIDs.   *)
(* The procedure itself is not in the repository.                          *)
(***************************************************************************)
EXTENDS Integers, Sequences

CONSTANTS
  Items,       \* goods that may change hands
  Slots,       \* the procedure's slots per trader, 10 in the code
  NewUID(_)    \* the UID under which the procedure stores goods

ASSUME SlotsAssumption == Slots \in Nat \ {0}

Zero == "zero"
ASSUME ZeroAssumption == Zero \notin Items

VARIABLES
  goods,      \* m_vecUpdated of trader 1 and 2, as the room collected them
  pc,         \* the loop that runs
  trader,     \* vitDBUpdate, the trader whose goods are being written
  item,       \* vvit: how many of the trader's goods are written
  index,      \* the slots written so far
  args,       \* the argument list, a slot's UID and quantity as one
  uids,       \* iItemUID, the procedure's answer
  received    \* m_vecInsertDBItem of trader 1 and 2, as UIDs

vars == <<goods, pc, trader, item, index, args, uids, received>>

\* IsCanInsertTradeItem admits as many goods as the procedure has slots.
Goods == UNION {[1..n -> Items] : n \in 0..Slots}

\* A trader owns what it puts up, and puts up nothing twice.
OwnGoods ==
  \A t, u \in 1..2 : \A j \in DOMAIN goods[t], k \in DOMAIN goods[u] :
    goods[t][j] = goods[u][k] => t = u /\ j = k

Init ==
  /\ goods \in [1..2 -> Goods]
  /\ OwnGoods
  /\ pc = "WRITE" /\ trader = 1 /\ item = 0 /\ index = 0
  /\ args = <<>> /\ uids = <<>>
  /\ received = [t \in 1..2 |-> <<>>]

Write(arg) == args' = Append(args, arg) /\ index' = index + 1

-----------------------------------------------------------------------------
\* Definitions named X_bug are plausible bugs of X.  No specification uses
\* them: each shows that some property would notice it.

\* All of the trader's goods are written.
Written == item = Len(goods[trader])

\* The trader's next goods.
WriteItem ==
  /\ pc = "WRITE" /\ ~Written
  /\ Write(goods[trader][item + 1])
  /\ item' = item + 1
  /\ UNCHANGED <<goods, pc, trader, uids, received>>

Unfilled_bug == index < Slots - 1    \* one slot too few
Unfilled == index < Slots

\* Zeros up to the first trader's last slot.
PadFirst ==
  /\ pc = "WRITE" /\ Written /\ Unfilled
  /\ Write(Zero)
  /\ UNCHANGED <<goods, pc, trader, item, uids, received>>

NextTrader ==
  /\ pc = "WRITE" /\ Written /\ ~Unfilled
  /\ item' = 0
  /\ IF trader = 1
     THEN trader' = 2 /\ UNCHANGED pc
     ELSE pc' = "PAD" /\ UNCHANGED trader
  /\ UNCHANGED <<goods, index, args, uids, received>>

\* Zeros up to the second trader's last slot.
PadSecond ==
  /\ pc = "PAD" /\ Slots <= index /\ index < 2 * Slots
  /\ Write(Zero)
  /\ UNCHANGED <<goods, pc, trader, item, uids, received>>

\* The procedure fails, or stores what it was given.
Query ==
  /\ pc = "PAD" /\ ~(Slots <= index /\ index < 2 * Slots)
  /\ \/ /\ pc' = "READ"
        /\ trader' = 1 /\ item' = 0
        /\ uids' = [k \in DOMAIN args |-> IF args[k] = Zero THEN Zero ELSE NewUID(args[k])]
     \/ /\ pc' = "FAILED"
        /\ UNCHANGED <<trader, item, uids>>
  /\ UNCHANGED <<goods, index, args, received>>

\* The slots before a trader's.
Before_bug(t) == IF t = 1 THEN 0 ELSE Len(goods[1])    \* as if none were padded
Before(t) == IF t = 1 THEN 0 ELSE Slots

\* The trader's next goods are the other's, under their new UID.
ReadItem ==
  /\ pc = "READ" /\ item < Slots /\ item < Len(goods[trader])
  /\ received' = [received EXCEPT ![3 - trader] = Append(@, uids[Before(trader) + item + 1])]
  /\ item' = item + 1
  /\ UNCHANGED <<goods, pc, trader, index, args, uids>>

\* Both are read: the answer goes to the room.
NextRead ==
  /\ pc = "READ" /\ ~(item < Slots /\ item < Len(goods[trader]))
  /\ item' = 0
  /\ IF trader = 1
     THEN trader' = 2 /\ UNCHANGED pc
     ELSE pc' = "DONE" /\ UNCHANGED trader
  /\ UNCHANGED <<goods, index, args, uids, received>>

Next == WriteItem \/ PadFirst \/ NextTrader \/ PadSecond \/ Query \/ ReadItem \/ NextRead

Spec == Init /\ [][Next]_vars

-----------------------------------------------------------------------------
(* Properties.                                                             *)

\* What the procedure is to be given in a trader's k-th slot.
Slot(t, k) == IF k <= Len(goods[t]) THEN goods[t][k] ELSE Zero

\* The procedure is called with all of its arguments and no more, and finds
\* each trader's goods in that trader's slots, from the first.
TwentySlots ==
  pc \in {"READ", "FAILED", "DONE"} =>
    /\ Len(args) = 2 * Slots
    /\ \A t \in 1..2, k \in 1..Slots : args[IF t = 1 THEN k ELSE Slots + k] = Slot(t, k)

\* Each trader gets all of the other's goods, each under the UID that the
\* procedure stored these very goods under.
Crossed ==
  pc = "DONE" =>
    \A t \in 1..2 :
      received[3 - t] = [k \in 1..Len(goods[t]) |-> NewUID(goods[t][k])]
=============================================================================
