------------------------------ MODULE MCTradeFlow ------------------------------
(* The sequences and sets of TradeFlow.cfg.                                     *)
EXTENDS TradeFlow

MCCapacity == <<2, 3>>
MCSpan == <<1, 2>>
MCVols == {-1, 2}
MCTimes == 0..3
================================================================================
