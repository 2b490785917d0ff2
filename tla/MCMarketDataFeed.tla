-------------------------- MODULE MCMarketDataFeed --------------------------
(***************************************************************************)
(* MarketDataFeed for TLC: two requests, which may be for one instrument   *)
(* or for two, and two connections, so that one is lost and restored.      *)
(***************************************************************************)
EXTENDS MarketDataFeed
=============================================================================
