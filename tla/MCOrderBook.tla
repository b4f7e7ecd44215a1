---------------------------- MODULE MCOrderBook -----------------------------
(***************************************************************************)
(* Instances of OrderBook for TLC: two valid prices and an invalid one,    *)
(* quantities one and two and an invalid one, numeric limits just beyond   *)
(* the prices.                                                             *)
(***************************************************************************)
EXTENDS OrderBook

MCPrices == 0 .. 2
MCQuantities == 0 .. 2
MCPriceMin == -1
MCPriceMax == 3
=============================================================================
