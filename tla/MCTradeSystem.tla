--------------------------- MODULE MCTradeSystem ---------------------------
(* Small instances of TradeSystem for TLC.                                 *)
EXTENDS TradeSystem, TLC

CONSTANTS a, b, i

BothInOne == a :> 1 @@ b :> 1
OneEach == a :> 1 @@ b :> 1
OnlyB == a :> 0 @@ b :> 1
NoWealth == a :> 0 @@ b :> 0
Nobodys == [x \in {} |-> a]
OwnedByA == [x \in Items |-> a]
Infos == [out : SUBSET Items, change : -1..1, in : SUBSET Items]

\* No step reads what the last one sent: states that differ in nothing else
\* have the same futures.
Seen == <<fsm, users, waitOver, gsVars, db, swaps, trades, pressed, drifted, astray, upset, faults>>

=============================================================================
