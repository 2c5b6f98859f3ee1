---------------------------- MODULE MCTradeRoom ----------------------------
(* A small instance of TradeRoom for TLC.                                  *)
EXTENDS TradeRoom, TLC

CONSTANTS a, b, c

\* Two units of one server group, and one of another.
TwoGroups == a :> 1 @@ b :> 1 @@ c :> 2

=============================================================================
