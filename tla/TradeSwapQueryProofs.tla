------------------------- MODULE TradeSwapQueryProofs -------------------------
(***************************************************************************)
(* The argument list of the swap procedure and its answer, for any number  *)
(* of slots, any goods that fit them and any procedure.                    *)
(***************************************************************************)
EXTENDS TradeSwapQuery, TLAPS

\* What the procedure is to be given in its k-th slot.
SlotAt(k) == IF k <= Slots THEN Slot(1, k) ELSE Slot(2, k - Slots)

UIDs == {NewUID(x) : x \in Items}
News(t, n) == [k \in 1..n |-> NewUID(goods[t][k])]

Types ==
  /\ goods \in [1..2 -> Goods]
  /\ trader \in 1..2 /\ item \in Nat
  /\ args \in Seq(Items \cup {Zero}) /\ index = Len(args) /\ index <= 2 * Slots
  /\ received \in [1..2 -> Seq(UIDs)]
  /\ pc \in {"WRITE", "PAD", "READ", "FAILED", "DONE"}

\* The index is where the loops believe it to be.
Indexed ==
  /\ pc = "WRITE" => /\ item <= Len(goods[trader])
                     /\ trader = 1 => item <= index /\ index <= Slots
                                      /\ (item < Len(goods[1]) => index = item)
                     /\ trader = 2 => index = Slots + item
  /\ pc = "PAD" => Slots + Len(goods[2]) <= index
  /\ pc \in {"READ", "FAILED", "DONE"} => index = 2 * Slots

Filled == \A k \in 1..index : args[k] = SlotAt(k)

Handed ==
  /\ pc \in {"READ", "DONE"} =>
       uids = [k \in DOMAIN args |-> IF args[k] = Zero THEN Zero ELSE NewUID(args[k])]
  /\ pc \in {"WRITE", "PAD", "FAILED"} => received = [t \in 1..2 |-> <<>>]
  /\ pc = "READ" =>
       /\ item <= Len(goods[trader])
       /\ trader = 1 => received[2] = News(1, item) /\ received[1] = <<>>
       /\ trader = 2 => received[2] = News(1, Len(goods[1])) /\ received[1] = News(2, item)
  /\ pc = "DONE" => \A t \in 1..2 : received[3 - t] = News(t, Len(goods[t]))

LoopInv == Types /\ Indexed /\ Filled /\ Handed

-----------------------------------------------------------------------------
\* Goods fit their slots.
LEMMA GoodsFit ==
  ASSUME NEW g \in Goods
  PROVE  g \in Seq(Items) /\ Len(g) \in 0..Slots
  BY SlotsAssumption DEF Goods

LEMMA InitLoop == Init => LoopInv
<1> SUFFICES ASSUME Init PROVE LoopInv  OBVIOUS
<1>1. Types
  BY SlotsAssumption DEF Init, Types
<1>2. goods[1] \in Seq(Items) /\ Len(goods[1]) \in 0..Slots
  BY GoodsFit DEF Init
<1>3. Indexed
  BY <1>2, SlotsAssumption DEF Init, Indexed
<1>4. Filled /\ Handed
  BY DEF Init, Filled, Handed
<1>5. QED
  BY <1>1, <1>3, <1>4 DEF LoopInv

\* One more slot written keeps those before it.
LEMMA WriteFills ==
  ASSUME LoopInv, index < 2 * Slots, NEW arg \in Items \cup {Zero}, Write(arg),
         arg = SlotAt(index + 1), goods' = goods
  PROVE  /\ args' \in Seq(Items \cup {Zero})
         /\ index' = Len(args')
         /\ index' <= 2 * Slots
         /\ Filled'
<1>1. /\ args' = Append(args, arg) /\ index' = index + 1
      /\ args \in Seq(Items \cup {Zero}) /\ index = Len(args) /\ index \in Nat
  BY DEF LoopInv, Types, Write
<1>2. args' \in Seq(Items \cup {Zero}) /\ Len(args') = index + 1
  BY <1>1
<1>3. \A k \in 1..index : args'[k] = args[k]
  BY <1>1
<1>4. args'[index + 1] = arg
  BY <1>1
<1>5. \A k \in 1..index' : SlotAt(k)' = SlotAt(k)
  BY DEF SlotAt, Slot
<1>6. Filled'
  BY <1>1, <1>3, <1>4, <1>5 DEF Filled, LoopInv
<1>7. QED
  BY <1>1, <1>2, <1>6, SlotsAssumption

LEMMA StepLoop == LoopInv /\ [Next]_vars => LoopInv'
<1> SUFFICES ASSUME LoopInv, [Next]_vars PROVE LoopInv'  OBVIOUS
<1> USE SlotsAssumption, ZeroAssumption
<1>a. /\ goods[1] \in Seq(Items) /\ Len(goods[1]) \in 0..Slots
      /\ goods[2] \in Seq(Items) /\ Len(goods[2]) \in 0..Slots
  BY GoodsFit DEF LoopInv, Types
<1>b. /\ trader \in 1..2 /\ item \in Nat /\ index \in Nat /\ index <= 2 * Slots
      /\ index = Len(args)
      /\ Types /\ Indexed /\ Filled /\ Handed
  BY DEF LoopInv, Types
<1>1. ASSUME WriteItem PROVE LoopInv'
  <2>1. /\ pc = "WRITE" /\ pc' = "WRITE" /\ goods' = goods /\ trader' = trader
        /\ item' = item + 1 /\ uids' = uids /\ received' = received
        /\ item < Len(goods[trader])
        /\ Write(goods[trader][item + 1])
    BY <1>1, <1>a, <1>b DEF WriteItem, Written, Indexed
  <2>2. index < 2 * Slots /\ goods[trader][item + 1] = SlotAt(index + 1)
        /\ goods[trader][item + 1] \in Items
    BY <1>a, <1>b, <2>1 DEF Indexed, SlotAt, Slot
  <2>3. /\ args' \in Seq(Items \cup {Zero}) /\ index' = Len(args')
        /\ index' <= 2 * Slots /\ Filled'
    BY <2>1, <2>2, WriteFills
  <2>4. Types'
    BY <1>b, <2>1, <2>3 DEF Types
  <2>5. Indexed'
    BY <1>a, <1>b, <2>1 DEF Indexed, Write
  <2>6. Handed'
    BY <1>b, <2>1 DEF Handed
  <2>7. QED
    BY <2>3, <2>4, <2>5, <2>6 DEF LoopInv
<1>2. ASSUME PadFirst PROVE LoopInv'
  <2>1. /\ pc = "WRITE" /\ pc' = "WRITE" /\ goods' = goods /\ trader' = trader
        /\ item' = item /\ uids' = uids /\ received' = received
        /\ item = Len(goods[trader]) /\ index < Slots
        /\ Write(Zero)
    BY <1>2 DEF PadFirst, Written, Unfilled
  <2>2. trader = 1
    BY <1>a, <1>b, <2>1 DEF Indexed
  <2>3. index < 2 * Slots /\ Zero = SlotAt(index + 1)
    BY <1>a, <1>b, <2>1, <2>2 DEF Indexed, SlotAt, Slot
  <2>4. /\ args' \in Seq(Items \cup {Zero}) /\ index' = Len(args')
        /\ index' <= 2 * Slots /\ Filled'
    BY <2>1, <2>3, WriteFills
  <2>5. Types'
    BY <1>b, <2>1, <2>4 DEF Types
  <2>6. Indexed'
    BY <1>a, <1>b, <2>1, <2>2 DEF Indexed, Write
  <2>7. Handed'
    BY <1>b, <2>1 DEF Handed
  <2>8. QED
    BY <2>4, <2>5, <2>6, <2>7 DEF LoopInv
<1>3. ASSUME NextTrader PROVE LoopInv'
  <2>1. /\ pc = "WRITE" /\ item = Len(goods[trader]) /\ ~(index < Slots) /\ item' = 0
        /\ goods' = goods /\ index' = index /\ args' = args /\ uids' = uids
        /\ received' = received
        /\ \/ trader = 1 /\ trader' = 2 /\ pc' = pc
           \/ trader = 2 /\ trader' = trader /\ pc' = "PAD"
    BY <1>3, <1>b DEF NextTrader, Written, Unfilled
  <2>2. Types'
    BY <1>b, <2>1 DEF Types
  <2>3. Indexed'
    BY <1>a, <1>b, <2>1 DEF Indexed
  <2>4. Filled'
    BY <1>b, <2>1 DEF Filled, SlotAt, Slot
  <2>5. Handed'
    BY <1>b, <2>1 DEF Handed
  <2>6. QED
    BY <2>2, <2>3, <2>4, <2>5 DEF LoopInv
<1>4. ASSUME PadSecond PROVE LoopInv'
  <2>1. /\ pc = "PAD" /\ pc' = "PAD" /\ goods' = goods /\ trader' = trader
        /\ item' = item /\ uids' = uids /\ received' = received
        /\ Slots <= index /\ index < 2 * Slots
        /\ Write(Zero)
    BY <1>4 DEF PadSecond
  <2>3. Zero = SlotAt(index + 1)
    BY <1>a, <1>b, <2>1 DEF Indexed, SlotAt, Slot
  <2>4. /\ args' \in Seq(Items \cup {Zero}) /\ index' = Len(args')
        /\ index' <= 2 * Slots /\ Filled'
    BY <2>1, <2>3, WriteFills
  <2>5. Types'
    BY <1>b, <2>1, <2>4 DEF Types
  <2>6. Indexed'
    BY <1>a, <1>b, <2>1 DEF Indexed, Write
  <2>7. Handed'
    BY <1>b, <2>1 DEF Handed
  <2>8. QED
    BY <2>4, <2>5, <2>6, <2>7 DEF LoopInv
<1>5. ASSUME Query PROVE LoopInv'
  <2>1. /\ pc = "PAD" /\ ~(Slots <= index /\ index < 2 * Slots)
        /\ goods' = goods /\ index' = index /\ args' = args /\ received' = received
        /\ \/ /\ pc' = "READ" /\ trader' = 1 /\ item' = 0
              /\ uids' = [k \in DOMAIN args |-> IF args[k] = Zero THEN Zero ELSE NewUID(args[k])]
           \/ pc' = "FAILED" /\ trader' = trader /\ item' = item /\ uids' = uids
    BY <1>5 DEF Query
  <2>2. index = 2 * Slots
    BY <1>a, <1>b, <2>1 DEF Indexed
  <2>3. Types'
    BY <1>b, <2>1 DEF Types
  <2>4. Indexed'
    BY <2>1, <2>2 DEF Indexed
  <2>5. Filled'
    BY <1>b, <2>1 DEF Filled, SlotAt, Slot
  <2>6. received[1] = <<>> /\ received[2] = <<>>
    BY <1>b, <2>1 DEF Handed
  <2>7. News(1, 0)' = <<>>
    BY DEF News
  <2>8. Handed'
    BY <1>a, <1>b, <2>1, <2>6, <2>7 DEF Handed
  <2>9. QED
    BY <2>3, <2>4, <2>5, <2>8 DEF LoopInv
<1>6. ASSUME ReadItem PROVE LoopInv'
  <2>1. /\ pc = "READ" /\ pc' = "READ" /\ item < Slots /\ item < Len(goods[trader])
        /\ received' = [received EXCEPT ![3 - trader] =
                          Append(@, uids[Before(trader) + item + 1])]
        /\ item' = item + 1
        /\ goods' = goods /\ trader' = trader /\ index' = index /\ args' = args
        /\ uids' = uids
    BY <1>6 DEF ReadItem
  <2> DEFINE x == goods[trader][item + 1]
             k == Before(trader) + item + 1
  <2>2. x \in Items
    BY <1>a, <1>b, <2>1
  <2>3. k \in 1..index /\ SlotAt(k) = x
    BY <1>a, <1>b, <2>1 DEF Indexed, Before, SlotAt, Slot
  <2>4. args[k] = x
    BY <1>b, <2>3 DEF Filled
  <2>5. uids[k] = NewUID(x)
    <3>1. uids = [j \in DOMAIN args |-> IF args[j] = Zero THEN Zero ELSE NewUID(args[j])]
      BY <1>b, <2>1 DEF Handed
    <3>2. k \in DOMAIN args
      BY <1>b, <2>3 DEF Types
    <3>3. QED
      BY <2>2, <2>4, <3>1, <3>2
  <2>6. received[3 - trader] = News(trader, item)
    <3>1. CASE trader = 1
      BY <1>b, <2>1, <3>1 DEF Handed
    <3>2. CASE trader = 2
      BY <1>b, <2>1, <3>2 DEF Handed
    <3>3. QED
      BY <1>b, <3>1, <3>2
  <2>7. received[3 - trader] \in Seq(UIDs) /\ NewUID(x) \in UIDs
    BY <1>b, <2>2 DEF Types, UIDs
  <2>8. received' = [received EXCEPT ![3 - trader] = Append(@, NewUID(x))]
    BY <2>1, <2>5
  <2>9. Types'
    BY <1>b, <2>1, <2>7, <2>8 DEF Types
  <2>10. Append(News(trader, item), NewUID(x)) = News(trader, item + 1)
    <3>1. News(trader, item) \in Seq(UIDs) /\ Len(News(trader, item)) = item
      BY <1>b, <2>6, <2>7 DEF News
    <3>2. QED
      BY <1>b, <3>1, <2>7 DEF News
  <2>11. received'[3 - trader] = News(trader, item + 1)
    BY <1>b, <2>6, <2>8, <2>10 DEF Types
  <2>12. received'[trader] = received[trader]
    BY <1>b, <2>8 DEF Types
  <2>13. \A t \in 1..2, n \in Nat : News(t, n)' = News(t, n)
    BY <2>1 DEF News
  <2>14. Handed'
    <3>1. CASE trader = 1
      BY <1>a, <1>b, <2>1, <2>11, <2>12, <2>13, <3>1 DEF Handed
    <3>2. CASE trader = 2
      BY <1>a, <1>b, <2>1, <2>11, <2>12, <2>13, <3>2 DEF Handed
    <3>3. QED
      BY <1>b, <3>1, <3>2
  <2>15. Indexed' /\ Filled'
    BY <1>b, <2>1 DEF Indexed, Filled, SlotAt, Slot
  <2>16. QED
    BY <2>9, <2>14, <2>15 DEF LoopInv
<1>7. ASSUME NextRead PROVE LoopInv'
  <2>1. /\ pc = "READ" /\ ~(item < Slots /\ item < Len(goods[trader])) /\ item' = 0
        /\ goods' = goods /\ index' = index /\ args' = args /\ uids' = uids
        /\ received' = received
        /\ \/ trader = 1 /\ trader' = 2 /\ pc' = pc
           \/ trader = 2 /\ trader' = trader /\ pc' = "DONE"
    BY <1>7, <1>b DEF NextRead
  <2>2. item = Len(goods[trader])
    BY <1>a, <1>b, <2>1 DEF Handed
  <2>3. Types'
    BY <1>b, <2>1 DEF Types
  <2>4. Indexed' /\ Filled'
    BY <1>b, <2>1 DEF Indexed, Filled, SlotAt, Slot
  <2>5. /\ \A t \in 1..2, n \in Nat : News(t, n)' = News(t, n)
        /\ News(2, 0) = <<>>
    BY <2>1 DEF News
  <2>6. Handed'
    <3>1. CASE trader = 1
      BY <1>a, <1>b, <2>1, <2>2, <2>5, <3>1 DEF Handed
    <3>2. CASE trader = 2
      <4>1. received[2] = News(1, Len(goods[1])) /\ received[1] = News(2, Len(goods[2]))
        BY <1>b, <2>1, <2>2, <3>2 DEF Handed
      <4>2. \A t \in 1..2 : received[3 - t] = News(t, Len(goods[t]))
        BY <4>1
      <4>3. QED
        BY <1>a, <1>b, <2>1, <2>5, <3>2, <4>2 DEF Handed
    <3>3. QED
      BY <1>b, <3>1, <3>2
  <2>7. QED
    BY <2>3, <2>4, <2>6 DEF LoopInv
<1>8. ASSUME UNCHANGED vars PROVE LoopInv'
  <2>1. Types' /\ Indexed' /\ Filled'
    BY <1>8, <1>b DEF vars, Types, Indexed, Filled, SlotAt, Slot
  <2>2. Handed'
    BY <1>8, <1>b DEF vars, Handed, News
  <2>3. QED
    BY <2>1, <2>2 DEF LoopInv
<1>9. QED
  BY <1>1, <1>2, <1>3, <1>4, <1>5, <1>6, <1>7, <1>8 DEF Next

\* The loops keep their places in the two lists.
THEOREM LoopsInvariant == Spec => []LoopInv
  BY InitLoop, StepLoop, PTL DEF Spec

\* The procedure is called with all of its arguments, every trader's goods in
\* that trader's slots, whatever the two put up.
THEOREM ArgumentsFit == Spec => []TwentySlots
<1>1. LoopInv => TwentySlots
  <2> SUFFICES ASSUME LoopInv, pc \in {"READ", "FAILED", "DONE"}
               PROVE  /\ Len(args) = 2 * Slots
                      /\ \A t \in 1..2, k \in 1..Slots :
                           args[IF t = 1 THEN k ELSE Slots + k] = Slot(t, k)
    BY DEF TwentySlots
  <2>1. Len(args) = 2 * Slots /\ index = 2 * Slots
    BY DEF LoopInv, Types, Indexed
  <2>2. \A k \in 1..Slots : args[k] = Slot(1, k) /\ args[Slots + k] = Slot(2, k)
    BY <2>1, SlotsAssumption DEF LoopInv, Filled, SlotAt
  <2>3. QED
    BY <2>1, <2>2
<1>2. QED
  BY <1>1, LoopsInvariant, PTL

\* Each trader receives all of the other's goods, each under the UID the
\* procedure gave these goods.
THEOREM GoodsCross == Spec => []Crossed
<1>1. LoopInv => Crossed
  BY DEF LoopInv, Handed, Crossed, News
<1>2. QED
  BY <1>1, LoopsInvariant, PTL
=============================================================================
