-------------------------- MODULE MCTradeSwapQuery --------------------------
(* A small instance of TradeSwapQuery for TLC.                             *)
EXTENDS TradeSwapQuery

Stored(x) == x \o "_new"
=============================================================================
