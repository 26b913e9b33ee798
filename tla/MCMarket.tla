-------------------------------- MODULE MCMarket --------------------------------
(***************************************************************************)
(* A small instance of the market-data service for TLC: three tickers make *)
(* a full batch and one that is not.                                       *)
(***************************************************************************)
EXTENDS MarketProperties
===============================================================================
