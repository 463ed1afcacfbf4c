----------------------------- MODULE MCLiveParams ------------------------------
(* The configuration file, and the snapshots that are sent in LiveParams.cfg.   *)
EXTENDS LiveParams, TLC

MCConfig == [tp |-> 8, cooldown |-> 30, lotSize |-> 1, leverage |-> 3, liqConf |-> 0,
             marginMode |-> "ISOLATED"]

(* The page sends every field; a client of the API may leave some out.          *)
Page == [Initialized EXCEPT !.liqConf = 7]

MCSnaps == {
    [Page EXCEPT !.positionMode = "HEDGE", !.guardMs = 180],
    [Page EXCEPT !.marginMode = "CROSS", !.leverage = 10, !.guardMs = 100, !.long = "off",
                 !.depth = 20],
    [Page EXCEPT !.long = "nil", !.liqConf = 0, !.depth = 0, !.precision = 0, !.lotSize = 0,
                 !.marginUSDT = Blank, !.marginMode = "", !.positionMode = ""],
    [Page EXCEPT !.lotSize = Blank, !.marginUSDT = Blank],
    [Page EXCEPT !.guardMs = 181]}

Symmetry == Permutations(Ops)
================================================================================
