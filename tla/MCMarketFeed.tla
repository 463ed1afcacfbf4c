----------------------------- MODULE MCMarketFeed ------------------------------
(* The channels of MarketFeed.cfg.                                              *)
EXTENDS MarketFeed

MCChanCap == [s \in Streams |-> 1]
================================================================================
